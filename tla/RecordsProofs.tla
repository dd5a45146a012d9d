---------------------------- MODULE RecordsProofs ----------------------------
(***************************************************************************)
(* What a Room records of its identities (Members) and of what they know   *)
(* (Knowledge), for any numbers of them.                                   *)
(*                                                                         *)
(* The sessions that a credential has opened keep its link from drifting:  *)
(* as long as one of them refers to it the credential is neither purged    *)
(* nor issued anew, and its member is theirs.  The verdicts on an asset    *)
(* cannot meet: while it is a candidate, nobody has judged its version.    *)
(***************************************************************************)
EXTENDS Members, Knowledge, SequenceTheorems, TLAPS

\* A session that exists has a member, and its credential was issued.
SessionsWellFormed ==
    \A s \in Sessions :
        /\ session[s] # NoSession => session[s].member \in Members
        /\ session[s].cred # None => session[s].cred \in Creds /\ Issued(session[s].cred)

\* A call under way knows its credential, and whom to join as.
WellFormed(d) ==
    /\ d.stage = "idle" => d = NoCall
    /\ d.stage # "idle" => d.cred \in Creds /\ (d.pin = None => d.as \in Members)
    /\ d.stage \in {"verified", "bundled"} => d.pin = None

CallsWellFormed == \A p \in Calls : WellFormed(call[p])

IdentityInv ==
    /\ TypeOK
    /\ SessionsWellFormed
    /\ CallsWellFormed
    /\ OneIdentityPerCredential

-------------------------------------------------------------------------------
LEMMA InitIdentity == Init => IdentityInv
BY MembersAssumption
   DEF Init, IdentityInv, TypeOK, SessionsWellFormed, CallsWellFormed, WellFormed, OneIdentityPerCredential,
       CredType, CallType, NoCred, NoSession, NoIntake, NoCall, Statuses, Answers

\* The join transaction: what it writes when it goes through.
LEMMA JoinWrites ==
    ASSUME IdentityInv, NEW p \in Calls, call[p].stage = "joining", MayJoin(p, JoinsAs(p))
    PROVE  LET m == JoinsAs(p)
               c == call[p].cred
           IN /\ m \in Members /\ c \in Creds /\ Issued(c)
              /\ cred[c].member \in {None, m}
              /\ member[m] \in {"absent", "active"}
<1>1. /\ call[p].cred \in Creds
      /\ call[p].pin = None => call[p].as \in Members
      /\ call[p].pin \in Members \cup {None}
      /\ cred[call[p].cred].member \in Members \cup {None}
  BY DEF IdentityInv, CallsWellFormed, WellFormed, TypeOK, CredType, CallType
<1> QED BY <1>1 DEF MayJoin, JoinsAs, CanEnsure

\* A link that is taken over stays: no credential changes its member.
LEMMA JoinKeeps ==
    ASSUME IdentityInv, NEW p \in Calls, Join(p)
    PROVE  IdentityInv'
<1> DEFINE m == JoinsAs(p)
           c == call[p].cred
<1>1. call' = [call EXCEPT ![p] = NoCall] /\ call[p].stage = "joining" /\ intake' = intake
  BY DEF Join, Return
<1>2. call' \in [Calls -> CallType] /\ CallsWellFormed'
  BY <1>1 DEF IdentityInv, TypeOK, CallType, CallsWellFormed, WellFormed, NoCall
<1>3. CASE ~MayJoin(p, m)
  <2>1. UNCHANGED <<member, cred, session>>
    BY <1>3 DEF Join
  <2> QED
    BY <1>1, <1>2, <2>1
       DEF IdentityInv, TypeOK, SessionsWellFormed, OneIdentityPerCredential, Issued
<1>4. CASE MayJoin(p, m)
  <2>1. /\ m \in Members /\ c \in Creds /\ Issued(c)
        /\ cred[c].member \in {None, m}
    BY <1>1, <1>4, JoinWrites
  <2>2. PICK s \in Sessions :
           /\ session[s] = NoSession
           /\ session' = [session EXCEPT ![s] = [member |-> m, cred |-> c]]
    BY <1>4 DEF Join
  <2>3. /\ member' = [member EXCEPT ![m] = "active"]
        /\ cred' = [cred EXCEPT ![c].member = m]
    BY <1>4 DEF Join, Ensure
  <2> HIDE DEF m, c
  <2>4. TypeOK'
    <3>1. cred' \in [Creds -> CredType]
      BY <2>1, <2>3 DEF IdentityInv, TypeOK, CredType
    <3>2. member' \in [Members -> Statuses]
      BY <2>1, <2>3 DEF IdentityInv, TypeOK, Statuses
    <3> QED BY <1>1, <1>2, <2>1, <2>2, <3>1, <3>2 DEF IdentityInv, TypeOK
  <2>5. \A d \in Creds : cred'[d].state = cred[d].state
    BY <2>1, <2>3 DEF IdentityInv, TypeOK, CredType
  <2>6. SessionsWellFormed'
    BY <2>1, <2>2, <2>5 DEF IdentityInv, TypeOK, SessionsWellFormed, Issued
  <2>7. ASSUME NEW q \in Sessions, session'[q].cred # None
        PROVE  cred'[session'[q].cred].member = session'[q].member
    <3>1. CASE q = s
      BY <2>1, <2>2, <2>3, <3>1 DEF IdentityInv, TypeOK, CredType
    <3>2. CASE q # s
      <4>1. /\ session'[q] = session[q] /\ session[q].cred \in Creds
            /\ session[q].member \in Members
            /\ cred[session[q].cred].member = session[q].member
        BY <2>2, <2>7, <3>2
           DEF IdentityInv, TypeOK, CredType, SessionsWellFormed, OneIdentityPerCredential, NoSession
      <4>2. session[q].cred = c => session[q].member = m
        BY <2>1, <4>1, MembersAssumption
      <4> QED BY <2>1, <2>3, <4>1, <4>2 DEF IdentityInv, TypeOK, CredType
    <3> QED BY <3>1, <3>2
  <2> QED BY <1>2, <2>4, <2>6, <2>7 DEF IdentityInv, OneIdentityPerCredential
<1> QED BY <1>3, <1>4

\* An action that leaves the sessions and the calls alone keeps the invariant
\* if it keeps what the sessions refer to.
LEMMA CredsMayChange ==
    ASSUME IdentityInv, TypeOK', UNCHANGED <<session, call>>,
           \A s \in Sessions : session[s].cred # None =>
              /\ cred'[session[s].cred].state # "absent"
              /\ cred'[session[s].cred].member = session[s].member
    PROVE  IdentityInv'
BY DEF IdentityInv, SessionsWellFormed, CallsWellFormed, OneIdentityPerCredential, Issued

\* What a session refers to is not a free row.
LEMMA ReferredTo ==
    ASSUME IdentityInv, NEW s \in Sessions, session[s].cred # None
    PROVE  /\ session[s].cred \in Creds
           /\ session[s].member \in Members
           /\ cred[session[s].cred] # NoCred
           /\ cred[session[s].cred].state # "absent"
           /\ cred[session[s].cred].member = session[s].member
BY DEF IdentityInv, SessionsWellFormed, OneIdentityPerCredential, Issued, NoCred, NoSession

LEMMA CredentialStepKeeps ==
    ASSUME IdentityInv, NEW c \in Creds
    PROVE  /\ \A m \in Members \cup {None}, joins \in BOOLEAN : Issue(c, m, joins) => IdentityInv'
           /\ RevokeCred(c) => IdentityInv'
           /\ Expire(c) => IdentityInv'
           /\ \A new \in Creds : Rotate(c, new) => IdentityInv'
           /\ \A joins \in BOOLEAN : UpdatePermissions(c, joins) => IdentityInv'
<1> USE DEF IdentityInv
<1>1. ASSUME NEW m \in Members \cup {None}, NEW joins \in BOOLEAN, Issue(c, m, joins)
      PROVE IdentityInv'
  <2>1. TypeOK' /\ UNCHANGED <<session, call>>
    BY <1>1 DEF Issue, TypeOK, CredType
  <2>2. \A s \in Sessions : session[s].cred # None => cred'[session[s].cred] = cred[session[s].cred]
    BY <1>1, ReferredTo DEF Issue, TypeOK, CredType
  <2> QED BY <2>1, <2>2, CredsMayChange, ReferredTo
<1>2. ASSUME RevokeCred(c) \/ Expire(c) PROVE IdentityInv'
  <2>1. PICK dead \in {"expired", "revoked"} : cred' = [cred EXCEPT ![c].state = dead]
    BY <1>2 DEF RevokeCred, Expire
  <2>2. UNCHANGED <<member, session, intake, call>>
    BY <1>2 DEF RevokeCred, Expire
  <2>3. TypeOK'
    BY <2>1, <2>2 DEF TypeOK, CredType
  <2>4. \A d \in Creds : /\ cred'[d].member = cred[d].member
                         /\ cred[d].state # "absent" => cred'[d].state # "absent"
    BY <2>1 DEF TypeOK, CredType
  <2> QED BY <2>2, <2>3, <2>4, CredsMayChange, ReferredTo
<1>3. ASSUME NEW new \in Creds, Rotate(c, new) PROVE IdentityInv'
  <2>1. TypeOK' /\ UNCHANGED <<session, call>>
    BY <1>3 DEF Rotate, TypeOK, CredType
  <2>2. \A d \in Creds : cred[d] # NoCred =>
           /\ cred'[d].member = cred[d].member
           /\ cred[d].state # "absent" => cred'[d].state # "absent"
    BY <1>3 DEF Rotate, TypeOK, CredType
  <2> QED BY <2>1, <2>2, CredsMayChange, ReferredTo
<1>4. ASSUME NEW joins \in BOOLEAN, UpdatePermissions(c, joins) PROVE IdentityInv'
  <2>1. TypeOK' /\ UNCHANGED <<session, call>>
    BY <1>4 DEF UpdatePermissions, TypeOK, CredType
  <2>2. \A d \in Creds : cred'[d].member = cred[d].member /\ cred'[d].state = cred[d].state
    BY <1>4 DEF UpdatePermissions, TypeOK, CredType
  <2> QED BY <2>1, <2>2, CredsMayChange, ReferredTo
<1> QED BY <1>1, <1>2, <1>3, <1>4

LEMMA PurgeKeeps == IdentityInv /\ PurgeCreds => IdentityInv'
<1> SUFFICES ASSUME IdentityInv, PurgeCreds PROVE IdentityInv'
  OBVIOUS
<1>1. TypeOK' /\ UNCHANGED <<session, call>>
  BY DEF IdentityInv, PurgeCreds, TypeOK, CredType, NoCred
<1>2. \A s \in Sessions : session[s].cred # None => cred'[session[s].cred] = cred[session[s].cred]
  BY ReferredTo DEF PurgeCreds
<1> QED BY <1>1, <1>2, CredsMayChange, ReferredTo

\* What touches neither credentials nor sessions.
LEMMA OtherStepKeeps ==
    ASSUME IdentityInv, TypeOK', UNCHANGED <<cred, session, call>>
    PROVE  IdentityInv'
BY DEF IdentityInv, SessionsWellFormed, CallsWellFormed, OneIdentityPerCredential, Issued

LEMMA LocalJoinKeeps ==
    ASSUME IdentityInv, NEW s \in Sessions, NEW m \in Members, LocalJoin(s, m)
    PROVE  IdentityInv'
<1>1. /\ session' = [session EXCEPT ![s] = [member |-> m, cred |-> None]]
      /\ member' = [member EXCEPT ![m] = "active"]
      /\ UNCHANGED <<cred, intake, call>>
  BY DEF LocalJoin, Ensure
<1>2. TypeOK'
  BY <1>1 DEF IdentityInv, TypeOK, Statuses
<1>3. SessionsWellFormed' /\ CallsWellFormed' /\ OneIdentityPerCredential'
  BY <1>1 DEF IdentityInv, TypeOK, SessionsWellFormed, CallsWellFormed, OneIdentityPerCredential,
              Issued
<1> QED BY <1>2, <1>3 DEF IdentityInv

\* What a call does before it joins: it only reads.
LEMMA CallStepKeeps ==
    ASSUME IdentityInv, NEW p \in Calls, UNCHANGED <<member, cred, session, intake>>,
           NEW d \in CallType,
           call' = [call EXCEPT ![p] = d],
           WellFormed(d)
    PROVE  IdentityInv'
<1>1. TypeOK' /\ CallsWellFormed'
  BY DEF IdentityInv, TypeOK, CallsWellFormed
<1> QED BY <1>1 DEF IdentityInv, SessionsWellFormed, OneIdentityPerCredential, Issued

LEMMA JoinStartKeeps ==
    ASSUME IdentityInv, NEW p \in Calls, NEW c \in Creds, NEW m \in Members
    PROVE  /\ JoinStart(p, c, m) => IdentityInv'
           /\ \A how \in {"verified", "bundled"} : Verify(p, c, m, how) => IdentityInv'
<1>1. ASSUME JoinStart(p, c, m) PROVE IdentityInv'
  <2> DEFINE pin == cred[c].member
             d == [stage |-> "joining", cred |-> c, pin |-> pin,
                   as |-> IF pin = None THEN m ELSE None]
  <2>1. /\ call' = [call EXCEPT ![p] = d]
        /\ UNCHANGED <<member, cred, session, intake>>
        /\ pin \in Members \cup {None}
    BY <1>1 DEF JoinStart, IdentityInv, TypeOK, CredType
  <2>2. d \in CallType /\ WellFormed(d)
    BY <2>1 DEF CallType, WellFormed
  <2> HIDE DEF d
  <2> QED BY <2>1, <2>2, CallStepKeeps
<1>2. ASSUME NEW how \in {"verified", "bundled"}, Verify(p, c, m, how) PROVE IdentityInv'
  <2> DEFINE d == [stage |-> how, cred |-> c, pin |-> None, as |-> m]
  <2>1. call' = [call EXCEPT ![p] = d] /\ UNCHANGED <<member, cred, session, intake>>
    BY <1>2 DEF Verify
  <2>2. d \in CallType /\ WellFormed(d)
    BY DEF CallType, WellFormed
  <2> HIDE DEF d
  <2> QED BY <2>1, <2>2, CallStepKeeps
<1> QED BY <1>1, <1>2

LEMMA BootstrapKeeps ==
    ASSUME IdentityInv, NEW p \in Calls, Bootstrap(p)
    PROVE  IdentityInv'
<1> DEFINE pin == cred[call[p].cred].member
           d == [call[p] EXCEPT !.stage = "joining", !.pin = pin,
                                !.as = IF pin = None THEN @ ELSE None]
<1>1. /\ call[p].stage # "idle"
      /\ call[p].cred \in Creds
      /\ call[p].as \in Members
      /\ pin \in Members \cup {None}
      /\ call[p] \in CallType
      /\ UNCHANGED <<member, cred, session, intake>>
  BY DEF Bootstrap, IdentityInv, CallsWellFormed, WellFormed, TypeOK, CredType
<1>2. CASE Authorized(p) /\ pin \in {None, call[p].as}
  <2>1. call' = [call EXCEPT ![p] = d]
    BY <1>2 DEF Bootstrap, IdentityInv, TypeOK, CallType
  <2>2. d \in CallType /\ WellFormed(d)
    BY <1>1 DEF CallType, WellFormed
  <2> HIDE DEF d
  <2> QED BY <1>1, <2>1, <2>2, CallStepKeeps
<1>3. CASE ~(Authorized(p) /\ pin \in {None, call[p].as})
  <2>1. call' = [call EXCEPT ![p] = NoCall]
    BY <1>3 DEF Bootstrap, Return
  <2>2. NoCall \in CallType /\ WellFormed(NoCall)
    BY DEF NoCall, CallType, WellFormed
  <2> QED BY <1>1, <2>1, <2>2, CallStepKeeps
<1> QED BY <1>2, <1>3

\* A restored binding links a credential that had no member.
LEMMA RestoreKeeps ==
    ASSUME IdentityInv, NEW p \in Calls, NEW s \in Sessions, RestoreBinding(p, s)
    PROVE  IdentityInv'
<1> DEFINE c == call[p].cred
           m == session[s].member
<1>1. /\ c \in Creds /\ m \in Members
      /\ call' = [call EXCEPT ![p] = NoCall]
      /\ UNCHANGED <<member, session, intake>>
  BY ReferredTo DEF RestoreBinding, Return, IdentityInv, CallsWellFormed, WellFormed
<1>2. \/ UNCHANGED cred
      \/ cred[c].member \in {None, m} /\ cred' = [cred EXCEPT ![c].member = m]
  BY DEF RestoreBinding, Link, CanLink
<1> HIDE DEF c, m
<1>3. TypeOK' /\ CallsWellFormed'
  <2>1. cred' \in [Creds -> CredType]
    BY <1>1, <1>2 DEF IdentityInv, TypeOK, CredType
  <2>2. call' \in [Calls -> CallType] /\ CallsWellFormed'
    BY <1>1 DEF IdentityInv, TypeOK, CallType, CallsWellFormed, WellFormed, NoCall
  <2> QED BY <1>1, <2>1, <2>2 DEF IdentityInv, TypeOK
<1>4. \A d \in Creds : /\ cred[d].member # None => cred'[d].member = cred[d].member
                       /\ cred'[d].state = cred[d].state
  BY <1>1, <1>2 DEF IdentityInv, TypeOK, CredType
<1>5. \A q \in Sessions : session[q].cred # None =>
         /\ cred'[session[q].cred].state # "absent"
         /\ cred'[session[q].cred].member = session[q].member
  BY <1>4, ReferredTo, MembersAssumption
<1> QED
  BY <1>1, <1>3, <1>5 DEF IdentityInv, SessionsWellFormed, OneIdentityPerCredential, Issued

LEMMA NextIdentity == IdentityInv /\ [Next]_vars => IdentityInv'
<1> SUFFICES ASSUME IdentityInv, [Next]_vars PROVE IdentityInv'
  OBVIOUS
<1>1. CASE UNCHANGED vars
  BY <1>1 DEF vars, IdentityInv, TypeOK, SessionsWellFormed, CallsWellFormed,
              OneIdentityPerCredential, Issued
<1>2. ASSUME NEW m \in Members, NEW status \in Statuses,
             CreateMember(m, status) \/ UpdateMember(m, status)
      PROVE  IdentityInv'
  <2>1. TypeOK' /\ UNCHANGED <<cred, session, call>>
    BY <1>2 DEF CreateMember, UpdateMember, IdentityInv, TypeOK
  <2> QED BY <2>1, OtherStepKeeps
<1>3. ASSUME NEW i \in Intakes, NEW m \in Members, SubmitIntake(i, m) \/ ReassignIntake(i, m)
      PROVE  IdentityInv'
  <2>1. TypeOK' /\ UNCHANGED <<cred, session, call>>
    BY <1>3 DEF SubmitIntake, ReassignIntake, Address, IdentityInv, TypeOK
  <2> QED BY <2>1, OtherStepKeeps
<1>4. ASSUME NEW i \in Intakes, NEW s \in Sessions, NEW response \in Answers,
             AcknowledgeIntake(i, s, response) \/ DefineIntake(i, s)
      PROVE  IdentityInv'
  <2>1. TypeOK' /\ UNCHANGED <<cred, session, call>>
    BY <1>4 DEF AcknowledgeIntake, DefineIntake, IdentityInv, TypeOK
  <2> QED BY <2>1, OtherStepKeeps
<1>5. Answers # {}
  BY DEF Answers
<1> QED
  BY <1>1, <1>2, <1>3, <1>4, <1>5, CredentialStepKeeps, PurgeKeeps, LocalJoinKeeps, JoinStartKeeps,
     BootstrapKeeps, RestoreKeeps, JoinKeeps DEF Next, MemberNext, CredNext, SessionNext

-------------------------------------------------------------------------------
\* Every row that joins, credential management and intakes write is a row of the
\* schema, for any number of members, credentials, sessions and calls.
THEOREM MembersTypeCorrect == Spec => []TypeOK
<1>1. IdentityInv => TypeOK
  BY DEF IdentityInv
<1> QED BY InitIdentity, NextIdentity, <1>1, PTL DEF Spec

\* All the sessions of a credential belong to the member it is linked to,
\* whatever is revoked, linked, rotated, purged or joined between the
\* authentication of a call and its join.
THEOREM NeverDrifts == Spec => []OneIdentityPerCredential
<1>1. IdentityInv => OneIdentityPerCredential
  BY DEF IdentityInv
<1> QED BY InitIdentity, NextIdentity, <1>1, PTL DEF Spec

-------------------------------------------------------------------------------
\* Sessions are never taken back, so the one that gave an answer stays whose it
\* was.
SessionsStay == \A s \in Sessions : session[s] # NoSession => session'[s] = session[s]

LEMMA StepKeepsSessions == IdentityInv /\ [Next]_vars => SessionsStay
<1> SUFFICES ASSUME IdentityInv, [Next]_vars PROVE SessionsStay
  OBVIOUS
<1>1. ASSUME NEW p \in Calls, Join(p) PROVE SessionsStay
  BY <1>1 DEF Join, SessionsStay, IdentityInv, TypeOK
<1>2. ASSUME NEW s \in Sessions, NEW m \in Members, LocalJoin(s, m) PROVE SessionsStay
  BY <1>2 DEF LocalJoin, SessionsStay, IdentityInv, TypeOK
<1>3. ASSUME UNCHANGED session PROVE SessionsStay
  BY <1>3 DEF SessionsStay
<1> QED
  BY <1>1, <1>2, <1>3
     DEF Next, MemberNext, CredNext, SessionNext, vars, CreateMember, UpdateMember, Issue, RevokeCred,
         Expire, Rotate, UpdatePermissions, RestoreBinding,
         PurgeCreds, JoinStart, Verify, Bootstrap, SubmitIntake, ReassignIntake, Address,
         AcknowledgeIntake, DefineIntake

AnswerInv ==
    \A i \in Intakes : intake[i].status \in Answers \cup {"defined"} =>
        /\ intake[i].session \in Sessions
        /\ session[intake[i].session] # NoSession
        /\ session[intake[i].session].member = intake[i].member

LEMMA NextAnswer == IdentityInv /\ AnswerInv /\ [Next]_vars => AnswerInv'
<1> SUFFICES ASSUME IdentityInv, AnswerInv, [Next]_vars PROVE AnswerInv'
  OBVIOUS
<1>0. SessionsStay
  BY StepKeepsSessions
<1>1. ASSUME UNCHANGED intake PROVE AnswerInv'
  BY <1>0, <1>1 DEF AnswerInv, SessionsStay
<1>2. ASSUME NEW i \in Intakes, NEW m \in Members, SubmitIntake(i, m) \/ ReassignIntake(i, m)
      PROVE  AnswerInv'
  BY <1>0, <1>2 DEF SubmitIntake, ReassignIntake, Address, AnswerInv, Answers, SessionsStay,
                    IdentityInv, TypeOK
<1>3. ASSUME NEW i \in Intakes, NEW s \in Sessions, NEW response \in Answers,
             AcknowledgeIntake(i, s, response)
      PROVE  AnswerInv'
  BY <1>3 DEF AcknowledgeIntake, AnswerInv, IdentityInv, TypeOK
<1>4. ASSUME NEW i \in Intakes, NEW s \in Sessions, DefineIntake(i, s)
      PROVE  AnswerInv'
  BY <1>4 DEF DefineIntake, AnswerInv, Answers, IdentityInv, TypeOK
<1> QED
  BY <1>1, <1>2, <1>3, <1>4
     DEF Next, MemberNext, CredNext, SessionNext, vars, CreateMember, UpdateMember, Issue, RevokeCred,
         Expire, Rotate, UpdatePermissions, RestoreBinding,
         PurgeCreds, LocalJoin, JoinStart, Verify, Bootstrap, Join

\* An answered intake was answered by a session of the member it is addressed
\* to, however often it was reassigned before.
THEOREM AlwaysAnsweredByTheTarget == Spec => []AnsweredByTheTarget
<1>1. Init => AnswerInv
  BY DEF Init, AnswerInv, NoIntake, Answers
<1>2. AnswerInv => AnsweredByTheTarget
  BY MembersAssumption DEF AnswerInv, AnsweredByTheTarget
<1> QED BY InitIdentity, NextIdentity, NextAnswer, <1>1, <1>2, PTL DEF Spec

-------------------------------------------------------------------------------
\* What a step may do to members and sessions.
StaysOut ==
    /\ \A s \in Sessions :
          session[s] = NoSession /\ session'[s] # NoSession
          => member[session'[s].member] \in {"absent", "active"}
    /\ \A m \in Members : member[m] = "revoked" => member'[m] = "revoked"

LEMMA StepStaysOut == IdentityInv /\ [Next]_vars => StaysOut
<1> SUFFICES ASSUME IdentityInv, [Next]_vars PROVE StaysOut
  OBVIOUS
<1>1. ASSUME NEW p \in Calls, Join(p) PROVE StaysOut
  <2>1. CASE MayJoin(p, JoinsAs(p))
    BY <1>1, <2>1, JoinWrites DEF Join, Ensure, StaysOut, IdentityInv, TypeOK
  <2>2. CASE ~MayJoin(p, JoinsAs(p))
    BY <1>1, <2>2 DEF Join, StaysOut
  <2> QED BY <2>1, <2>2
<1>2. ASSUME NEW s \in Sessions, NEW m \in Members, LocalJoin(s, m) PROVE StaysOut
  BY <1>2 DEF LocalJoin, CanEnsure, Ensure, StaysOut, IdentityInv, TypeOK
<1>3. ASSUME NEW m \in Members, NEW status \in Statuses,
             CreateMember(m, status) \/ UpdateMember(m, status)
      PROVE  StaysOut
  BY <1>3 DEF CreateMember, UpdateMember, MayBecome, StaysOut, IdentityInv, TypeOK
<1>4. ASSUME UNCHANGED <<member, session>> PROVE StaysOut
  BY <1>4 DEF StaysOut
<1> QED
  BY <1>1, <1>2, <1>3, <1>4
     DEF Next, MemberNext, CredNext, SessionNext, vars, Issue, RevokeCred, Expire, Rotate,
         UpdatePermissions, RestoreBinding,
         PurgeCreds, JoinStart, Verify, Bootstrap, SubmitIntake, ReassignIntake, Address,
         AcknowledgeIntake, DefineIntake

\* Nobody gets a session as a member that is suspended or revoked at that
\* moment, and a revoked member stays revoked.
THEOREM OutsidersAlwaysStayOut == Spec => OutsidersStayOut
<1>1. IdentityInv /\ [Next]_vars =>
        [/\ \A s \in Sessions :
               session[s] = NoSession /\ session'[s] # NoSession
               => member[session'[s].member] \in {"absent", "active"}
         /\ \A m \in Members : member[m] = "revoked" => member'[m] = "revoked"]_vars
  BY StepStaysOut DEF StaysOut
<1> QED BY InitIdentity, NextIdentity, <1>1, PTL DEF Spec, OutsidersStayOut

-------------------------------------------------------------------------------
(* Knowledge assets. *)

\* The current version is the newest one.
VersionsNumbered ==
    \A a \in Assets :
        IF asset[a].status = "absent" THEN versions[a] = <<>>
        ELSE asset[a].current = Len(versions[a]) /\ Len(versions[a]) > 0

\* Every verdict is on a version there is, and none is on a candidate.
VerdictsKnown ==
    \A r \in reviews :
        /\ r.version \in 1 .. Len(versions[r.asset])
        /\ asset[r.asset].status = "candidate" => r.version # asset[r.asset].current

AssetInv ==
    /\ KnowledgeTypeOK
    /\ VersionsNumbered
    /\ VerdictsKnown
    /\ ApprovedIndependently
    /\ JudgedOnce

LEMMA InitAssets == KnowledgeInit => AssetInv
<1> SUFFICES ASSUME KnowledgeInit PROVE AssetInv
  OBVIOUS
<1>1. KnowledgeTypeOK
  BY KnowledgeAssumption
     DEF KnowledgeInit, KnowledgeTypeOK, AssetStatuses, DocumentHead, DocumentNames, Stages, Version
<1> QED
  BY <1>1 DEF KnowledgeInit, AssetInv, VersionsNumbered, VerdictsKnown, ApprovedIndependently,
              JudgedOnce

LEMMA SubmitKeeps ==
    ASSUME AssetInv, NEW a \in Assets, NEW by \in Agents, NEW source \in Tasks \cup {None},
           SubmitCandidate(a, by, source)
    PROVE  AssetInv'
<1> DEFINE n == Len(versions[a]) + 1
           v == [by |-> by, task |-> source]
<1>1. /\ n \in Nat /\ versions[a] \in Seq(Version) /\ v \in Version
      /\ asset' = [asset EXCEPT ![a] = [status |-> "candidate", current |-> n]]
      /\ versions' = [versions EXCEPT ![a] = Append(versions[a], v)]
      /\ UNCHANGED <<reviews, head, taskVars>>
  <2>1. versions[a] \in Seq(Version) /\ v \in Version
    BY DEF AssetInv, KnowledgeTypeOK, Version
  <2>2. n \in Nat
    BY <2>1, LenProperties
  <2> QED BY <2>1, <2>2 DEF SubmitCandidate
<1>2. /\ Append(versions[a], v) \in Seq(Version)
      /\ Len(Append(versions[a], v)) = n
      /\ \A i \in 1 .. Len(versions[a]) : Append(versions[a], v)[i] = versions[a][i]
  BY <1>1, AppendProperties
<1> HIDE DEF n, v
<1>3. KnowledgeTypeOK'
  BY <1>1, <1>2 DEF AssetInv, KnowledgeTypeOK, AssetStatuses, taskVars
<1>4. /\ asset'[a].status = "candidate" /\ asset'[a].current = n /\ Len(versions'[a]) = n
      /\ \A b \in Assets \ {a} : asset'[b] = asset[b] /\ versions'[b] = versions[b]
  BY <1>1, <1>2 DEF AssetInv, KnowledgeTypeOK
<1>5. Len(versions[a]) \in Nat /\ n = Len(versions[a]) + 1
  BY <1>1, LenProperties DEF n
<1>6. VersionsNumbered'
  BY <1>4, <1>5 DEF AssetInv, VersionsNumbered
<1>7. VerdictsKnown'
  <2> SUFFICES ASSUME NEW r \in reviews
               PROVE  /\ r.version \in 1 .. Len(versions'[r.asset])
                      /\ asset'[r.asset].status = "candidate" => r.version # asset'[r.asset].current
    BY <1>1 DEF VerdictsKnown
  <2>1. r.asset \in Assets /\ r.version \in 1 .. Len(versions[r.asset])
    BY DEF AssetInv, VerdictsKnown, KnowledgeTypeOK, Review
  <2>2. CASE r.asset = a
    BY <1>4, <1>5, <2>1, <2>2
  <2>3. CASE r.asset # a
    BY <1>4, <2>1, <2>3 DEF AssetInv, VerdictsKnown
  <2> QED BY <2>2, <2>3
<1>8. ApprovedIndependently'
  <2> SUFFICES ASSUME NEW b \in Assets, asset'[b].status = "approved"
               PROVE  \E r \in reviews' : Approves(r, b)'
    BY DEF ApprovedIndependently
  <2>1. b # a
    BY <1>4
  <2>2. PICK r \in reviews : Approves(r, b)
    BY <1>4, <2>1 DEF AssetInv, ApprovedIndependently
  <2> QED BY <1>1, <1>4, <2>1, <2>2 DEF Approves
<1>9. JudgedOnce'
  BY <1>1 DEF AssetInv, JudgedOnce
<1> QED BY <1>3, <1>6, <1>7, <1>8, <1>9 DEF AssetInv

LEMMA ReviewKeeps ==
    ASSUME AssetInv, NEW a \in Assets, NEW by \in Agents, NEW approved \in BOOLEAN,
           SubmitReview(a, by, approved)
    PROVE  AssetInv'
<1> DEFINE status == IF approved THEN "approved" ELSE "rejected"
<1>1. /\ asset[a].status = "candidate" /\ by # versions[a][asset[a].current].by
      /\ asset' = [asset EXCEPT ![a].status = status]
      /\ UNCHANGED <<versions, head, taskVars>>
      /\ asset[a].current \in Nat
      /\ asset[a].current \in 1 .. Len(versions[a])
  BY LenProperties DEF SubmitReview, Reviewable, SetStatus, Author, Current, AssetInv, KnowledgeTypeOK,
                       VersionsNumbered
<1>2. approved /\ RequireVerified => Verified(Current(a).task)
  BY DEF SubmitReview
<1>3. PICK verdict \in Review :
         /\ verdict.asset = a /\ verdict.version = asset[a].current
         /\ verdict.by = by /\ verdict.approved = approved
         /\ verdict.verified = Verified(Current(a).task)
         /\ reviews' = reviews \cup {verdict}
  <2> DEFINE v == [asset |-> a, version |-> asset[a].current, by |-> by,
                   approved |-> approved, verified |-> Verified(Current(a).task)]
  <2>1. Verified(Current(a).task) \in BOOLEAN
    BY DEF Verified
  <2>2. v \in Review
    BY <1>1, <2>1 DEF Review
  <2>3. reviews' = reviews \cup {v}
    BY DEF SubmitReview
  <2> QED BY <2>2, <2>3
<1>4. approved = TRUE \/ approved = FALSE
  OBVIOUS
<1>5. /\ asset'[a].status = status /\ asset'[a].current = asset[a].current
      /\ status \in {"approved", "rejected"} /\ (status = "approved" => approved)
      /\ \A b \in Assets \ {a} : asset'[b] = asset[b]
  BY <1>1, <1>4 DEF AssetInv, KnowledgeTypeOK
<1> HIDE DEF status
<1>6. KnowledgeTypeOK'
  BY <1>1, <1>3, <1>5 DEF AssetInv, KnowledgeTypeOK, AssetStatuses, taskVars
<1>7. VersionsNumbered'
  BY <1>1, <1>5 DEF AssetInv, VersionsNumbered
<1>8. VerdictsKnown'
  BY <1>1, <1>3, <1>5 DEF AssetInv, VerdictsKnown, KnowledgeTypeOK, Review
<1>9. ApprovedIndependently'
  <2> SUFFICES ASSUME NEW b \in Assets, asset'[b].status = "approved"
               PROVE  \E r \in reviews' : Approves(r, b)'
    BY DEF ApprovedIndependently
  <2>1. CASE b = a
    <3>1. approved
      BY <1>5, <2>1
    <3>2. RequireVerified => verdict.verified
      BY <1>2, <1>3, <3>1
    <3>3. verdict.by # versions'[a][verdict.version].by
      BY <1>1, <1>3
    <3>4. /\ verdict.asset = b /\ verdict.version = asset'[b].current /\ verdict.approved
          /\ verdict.by # versions'[b][verdict.version].by
      BY <1>3, <1>5, <2>1, <3>1, <3>3
    <3>5. Approves(verdict, b)'
      BY <3>2, <3>4 DEF Approves
    <3> QED BY <1>3, <3>5
  <2>2. CASE b # a
    <3>1. PICK r \in reviews : Approves(r, b)
      BY <1>5, <2>2 DEF AssetInv, ApprovedIndependently
    <3>2. Approves(r, b)'
      BY <1>1, <1>5, <2>2, <3>1 DEF Approves
    <3> QED BY <1>3, <3>2
  <2> QED BY <2>1, <2>2
<1>10. JudgedOnce'
  <2>1. \A r \in reviews : ~(r.asset = verdict.asset /\ r.version = verdict.version)
    BY <1>1, <1>3 DEF AssetInv, VerdictsKnown
  <2> QED BY <1>3, <2>1 DEF AssetInv, JudgedOnce
<1> QED BY <1>6, <1>7, <1>8, <1>9, <1>10 DEF AssetInv

LEMMA RetireKeeps ==
    ASSUME AssetInv, NEW a \in Assets, NEW status \in AssetStatuses, Retire(a, status)
    PROVE  AssetInv'
<1>1. /\ asset' = [asset EXCEPT ![a].status = status] /\ status \in {"superseded", "archived"}
      /\ asset[a].status # "absent"
      /\ UNCHANGED <<versions, reviews, head, taskVars>>
  BY DEF Retire, SetStatus, AssetTransitions
<1>2. /\ asset'[a].status = status /\ asset'[a].current = asset[a].current
      /\ \A b \in Assets \ {a} : asset'[b] = asset[b]
  BY <1>1 DEF AssetInv, KnowledgeTypeOK
<1>3. KnowledgeTypeOK'
  BY <1>1 DEF AssetInv, KnowledgeTypeOK, taskVars
<1>4. VersionsNumbered' /\ JudgedOnce'
  BY <1>1, <1>2 DEF AssetInv, VersionsNumbered, JudgedOnce
<1>5. VerdictsKnown'
  BY <1>1, <1>2 DEF AssetInv, VerdictsKnown, KnowledgeTypeOK, Review
<1>6. ApprovedIndependently'
  BY <1>1, <1>2 DEF AssetInv, ApprovedIndependently, Approves
<1> QED BY <1>3, <1>4, <1>5, <1>6 DEF AssetInv

-------------------------------------------------------------------------------
(* Documents and receipts. *)

\* A claim that is still recorded was handed out.
ClaimsHandedOut ==
    \A t \in Tasks : \A i \in 1 .. Len(claims[t]) : claims[t][i] \in handedOut[t]

ReceiptInv == ClaimsHandedOut /\ ReceiptWasHandedOut

\* What touches no asset.
LEMMA AssetsUntouched ==
    ASSUME AssetInv, KnowledgeTypeOK', UNCHANGED assetVars
    PROVE  AssetInv'
BY DEF AssetInv, assetVars, VersionsNumbered, VerdictsKnown, ApprovedIndependently, JudgedOnce, Approves

LEMMA BindingTyped == KnowledgeTypeOK => BindingDocuments \in DocumentNames
BY DEF KnowledgeTypeOK, BindingDocuments, DocumentNames, DocumentHead

LEMMA DocumentStepTyped ==
    ASSUME KnowledgeTypeOK, NEW d \in Documents,
           ArchiveDocument(d) \/ \E kind \in {"binding", "reference"} : UpsertDocument(d, kind)
    PROVE  KnowledgeTypeOK' /\ UNCHANGED <<assetVars, taskVars>>
<1>1. head[d] \in DocumentHead /\ head[d].version + 1 \in Nat
  BY DEF KnowledgeTypeOK, DocumentHead
<1>2. PICK h \in DocumentHead : head' = [head EXCEPT ![d] = h]
  <2>1. CASE ArchiveDocument(d)
    <3> DEFINE h == [head[d] EXCEPT !.archived = TRUE]
    <3>1. h \in DocumentHead
      BY <1>1 DEF DocumentHead
    <3> QED BY <2>1, <3>1 DEF ArchiveDocument
  <2>2. ASSUME NEW kind \in {"binding", "reference"}, UpsertDocument(d, kind)
        PROVE  \E h \in DocumentHead : head' = [head EXCEPT ![d] = h]
    <3> DEFINE h == [version |-> head[d].version + 1, kind |-> kind, archived |-> FALSE]
    <3>1. h \in DocumentHead
      BY <1>1 DEF DocumentHead
    <3> QED BY <2>2, <3>1 DEF UpsertDocument
  <2> QED BY <2>1, <2>2
<1>3. UNCHANGED <<assetVars, taskVars>>
  BY DEF ArchiveDocument, UpsertDocument
<1>4. head' \in [Documents -> DocumentHead]
  BY <1>2 DEF KnowledgeTypeOK
<1> QED BY <1>3, <1>4 DEF KnowledgeTypeOK, assetVars, taskVars

\* The claims after a claim or a purge.
LEMMA ClaimKeeps ==
    ASSUME KnowledgeTypeOK, ReceiptInv, NEW t \in Tasks, NEW by \in Agents, ClaimTask(t, by)
    PROVE  KnowledgeTypeOK' /\ ReceiptInv' /\ UNCHANGED assetVars
<1> DEFINE c == BindingDocuments
<1>1. /\ c \in DocumentNames /\ claims[t] \in Seq(DocumentNames)
      /\ task' = [task EXCEPT ![t] = [stage |-> "work", owner |-> by]]
      /\ claims' = [claims EXCEPT ![t] = Append(claims[t], c)]
      /\ handedOut' = [handedOut EXCEPT ![t] = handedOut[t] \cup {c}]
      /\ UNCHANGED <<assetVars, head, receipt>>
  BY BindingTyped DEF ClaimTask, KnowledgeTypeOK
<1> HIDE DEF c
<1>2. /\ Append(claims[t], c) \in Seq(DocumentNames)
      /\ Len(Append(claims[t], c)) = Len(claims[t]) + 1
      /\ \A i \in 1 .. Len(claims[t]) : Append(claims[t], c)[i] = claims[t][i]
      /\ Append(claims[t], c)[Len(claims[t]) + 1] = c
      /\ Len(claims[t]) \in Nat
  BY <1>1, AppendProperties, LenProperties
<1>3. KnowledgeTypeOK'
  BY <1>1, <1>2 DEF KnowledgeTypeOK, assetVars, Stages
<1>4. ReceiptInv'
  <2>1. /\ \A u \in Tasks : handedOut[u] \subseteq handedOut'[u]
        /\ c \in handedOut'[t]
    BY <1>1 DEF KnowledgeTypeOK
  <2>2. ClaimsHandedOut'
    BY <1>1, <1>2, <2>1 DEF ReceiptInv, ClaimsHandedOut, KnowledgeTypeOK
  <2> QED BY <1>1, <2>1, <2>2 DEF ReceiptInv, ReceiptWasHandedOut
<1> QED BY <1>1, <1>3, <1>4

LEMMA PurgeClaimKeeps ==
    ASSUME KnowledgeTypeOK, ReceiptInv, NEW t \in Tasks, PurgeClaim(t)
    PROVE  KnowledgeTypeOK' /\ ReceiptInv' /\ UNCHANGED assetVars
<1>1. /\ claims[t] \in Seq(DocumentNames) /\ claims[t] # <<>>
      /\ claims' = [claims EXCEPT ![t] = Tail(claims[t])]
      /\ UNCHANGED <<assetVars, head, task, receipt, handedOut>>
  BY DEF PurgeClaim, KnowledgeTypeOK
<1>2. /\ Tail(claims[t]) \in Seq(DocumentNames)
      /\ Len(Tail(claims[t])) = Len(claims[t]) - 1
      /\ \A i \in 1 .. Len(Tail(claims[t])) : Tail(claims[t])[i] = claims[t][i + 1]
      /\ Len(claims[t]) \in Nat
  BY <1>1, HeadTailProperties, LenProperties
<1>3. KnowledgeTypeOK'
  BY <1>1, <1>2 DEF KnowledgeTypeOK, assetVars
<1>4. ReceiptInv'
  BY <1>1, <1>2 DEF ReceiptInv, ReceiptWasHandedOut, ClaimsHandedOut, KnowledgeTypeOK
<1> QED BY <1>1, <1>3, <1>4

LEMMA ReportKeeps ==
    ASSUME KnowledgeTypeOK, ReceiptInv, NEW t \in Tasks, WorkReport(t)
    PROVE  KnowledgeTypeOK' /\ ReceiptInv' /\ UNCHANGED assetVars
<1>1. /\ receipt' = [receipt EXCEPT ![t] = LatestClaim(t)]
      /\ task' = [task EXCEPT ![t].stage = "reported"]
      /\ UNCHANGED <<assetVars, head, claims, handedOut>>
      /\ claims[t] \in Seq(DocumentNames)
  BY DEF WorkReport, KnowledgeTypeOK
<1>2. LatestClaim(t) \in DocumentNames /\ LatestClaim(t) \in handedOut[t] \cup {{}}
  <2>1. CASE claims[t] = <<>>
    BY <2>1 DEF LatestClaim, DocumentNames
  <2>2. CASE claims[t] # <<>>
    <3>1. Len(claims[t]) \in 1 .. Len(claims[t])
      BY <1>1, <2>2, EmptySeq, LenProperties
    <3> QED BY <1>1, <2>2, <3>1, ElementOfSeq DEF LatestClaim, Last, ReceiptInv, ClaimsHandedOut
  <2> QED BY <2>1, <2>2
<1>3. KnowledgeTypeOK'
  BY <1>1, <1>2 DEF KnowledgeTypeOK, assetVars, Stages
<1>4. ReceiptInv'
  BY <1>1, <1>2 DEF ReceiptInv, ReceiptWasHandedOut, ClaimsHandedOut, KnowledgeTypeOK
<1> QED BY <1>1, <1>3, <1>4

LEMMA TaskStepKeeps ==
    ASSUME KnowledgeTypeOK, ReceiptInv, NEW t \in Tasks,
           \/ \E by \in Agents : ChangeHands(t, by)
           \/ \E approved \in BOOLEAN : ReviewTask(t, approved)
           \/ BackToPool(t)
    PROVE  KnowledgeTypeOK' /\ ReceiptInv' /\ UNCHANGED assetVars
<1>1. UNCHANGED <<assetVars, head, claims, receipt, handedOut>>
  BY DEF ChangeHands, ReviewTask, BackToPool
<1>2. ReceiptInv'
  BY <1>1 DEF ReceiptInv, ReceiptWasHandedOut, ClaimsHandedOut
<1>3. PICK stage \in Stages, owner \in Agents \cup {None} :
         task' = [task EXCEPT ![t] = [stage |-> stage, owner |-> owner]]
  <2>1. task[t] \in [stage : Stages, owner : Agents \cup {None}]
    BY DEF KnowledgeTypeOK
  <2>2. ASSUME NEW by \in Agents, ChangeHands(t, by)
        PROVE  \E stage \in Stages, owner \in Agents \cup {None} :
                  task' = [task EXCEPT ![t] = [stage |-> stage, owner |-> owner]]
    BY <2>1, <2>2 DEF ChangeHands, Stages
  <2>3. ASSUME NEW approved \in BOOLEAN, ReviewTask(t, approved)
        PROVE  \E stage \in Stages, owner \in Agents \cup {None} :
                  task' = [task EXCEPT ![t] = [stage |-> stage, owner |-> owner]]
    <3>1. PICK stage \in Stages : task' = [task EXCEPT ![t].stage = stage]
      BY <2>3 DEF ReviewTask, Stages
    <3>2. [task[t] EXCEPT !.stage = stage] = [stage |-> stage, owner |-> task[t].owner]
      BY <2>1
    <3> QED BY <2>1, <3>1, <3>2 DEF KnowledgeTypeOK
  <2>4. ASSUME BackToPool(t)
        PROVE  \E stage \in Stages, owner \in Agents \cup {None} :
                  task' = [task EXCEPT ![t] = [stage |-> stage, owner |-> owner]]
    BY <2>4 DEF BackToPool, Stages
  <2> QED BY <2>2, <2>3, <2>4
<1>4. KnowledgeTypeOK'
  BY <1>1, <1>3 DEF KnowledgeTypeOK, assetVars
<1> QED BY <1>1, <1>2, <1>4

LEMMA NextKnowledge ==
    AssetInv /\ ReceiptInv /\ [KnowledgeNext]_knowledgeVars => AssetInv' /\ ReceiptInv'
<1> SUFFICES ASSUME AssetInv, ReceiptInv, [KnowledgeNext]_knowledgeVars
             PROVE  AssetInv' /\ ReceiptInv'
  OBVIOUS
<1>0. KnowledgeTypeOK
  BY DEF AssetInv
<1>1. ASSUME UNCHANGED taskVars PROVE ReceiptInv'
  BY <1>1 DEF taskVars, ReceiptInv, ReceiptWasHandedOut, ClaimsHandedOut
<1>2. CASE UNCHANGED knowledgeVars
  <2>1. UNCHANGED assetVars /\ UNCHANGED taskVars /\ KnowledgeTypeOK'
    BY <1>0, <1>2 DEF knowledgeVars, assetVars, taskVars, KnowledgeTypeOK
  <2> QED BY <1>1, <2>1, AssetsUntouched
<1>3. ASSUME NEW a \in Assets, NEW by \in Agents,
             \/ \E source \in Tasks \cup {None} : SubmitCandidate(a, by, source)
             \/ \E approved \in BOOLEAN : SubmitReview(a, by, approved)
      PROVE  AssetInv' /\ ReceiptInv'
  BY <1>1, <1>3, SubmitKeeps, ReviewKeeps DEF SubmitCandidate, SubmitReview
<1>4. ASSUME NEW a \in Assets, NEW status \in AssetStatuses, Retire(a, status)
      PROVE  AssetInv' /\ ReceiptInv'
  BY <1>1, <1>4, RetireKeeps DEF Retire
<1>5. ASSUME NEW d \in Documents,
             ArchiveDocument(d) \/ \E kind \in {"binding", "reference"} : UpsertDocument(d, kind)
      PROVE  AssetInv' /\ ReceiptInv'
  BY <1>0, <1>1, <1>5, DocumentStepTyped, AssetsUntouched
<1>6. ASSUME NEW t \in Tasks,
             \/ \E by \in Agents : ClaimTask(t, by) \/ ChangeHands(t, by)
             \/ \E approved \in BOOLEAN : ReviewTask(t, approved)
             \/ BackToPool(t) \/ WorkReport(t) \/ PurgeClaim(t)
      PROVE  AssetInv' /\ ReceiptInv'
  BY <1>0, <1>6, ClaimKeeps, PurgeClaimKeeps, ReportKeeps, TaskStepKeeps, AssetsUntouched
<1> QED BY <1>2, <1>3, <1>4, <1>5, <1>6 DEF KnowledgeNext

LEMMA KnowledgeAlways == KnowledgeSpec => [](AssetInv /\ ReceiptInv)
<1>1. KnowledgeInit => ReceiptInv
  BY DEF KnowledgeInit, ReceiptInv, ReceiptWasHandedOut, ClaimsHandedOut
<1> QED BY InitAssets, NextKnowledge, <1>1, PTL DEF KnowledgeSpec

\* What stands as approved was approved in this version, by another identity
\* than its author, and on verified work where that is asked for.
THEOREM AlwaysApprovedIndependently == KnowledgeSpec => []ApprovedIndependently
<1>1. AssetInv => ApprovedIndependently
  BY DEF AssetInv
<1> QED BY KnowledgeAlways, <1>1, PTL

\* No version of an asset is judged twice.
THEOREM AlwaysJudgedOnce == KnowledgeSpec => []JudgedOnce
<1>1. AssetInv => JudgedOnce
  BY DEF AssetInv
<1> QED BY KnowledgeAlways, <1>1, PTL

\* No receipt names documents that its task's claims were not answered with,
\* whatever is edited, archived, handed over and purged before the report.
THEOREM ReceiptsAlwaysHandedOut == KnowledgeSpec => []ReceiptWasHandedOut
<1>1. ReceiptInv => ReceiptWasHandedOut
  BY DEF ReceiptInv
<1> QED BY KnowledgeAlways, <1>1, PTL
===============================================================================
