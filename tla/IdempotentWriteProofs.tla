------------------------ MODULE IdempotentWriteProofs ------------------------
(***************************************************************************)
(* Proofs about IdempotentWrite: type correctness, the truth of the        *)
(* answers, and that the transaction implements the promise ExactlyOnce,   *)
(* for any callers, request ids and inputs.                                *)
(***************************************************************************)
EXTENDS IdempotentWrite, SequenceTheorems, TLAPS

(***************************************************************************)
(* The inductive invariant.  A committed record names the effect it stands *)
(* for; the write lock belongs to the one caller that is in a transaction; *)
(* and what that transaction has staged depends on how far it has come.    *)
(***************************************************************************)
Effect(r, i) == [kind |-> "done", rid |-> r, input |-> i]

RecordsTrue ==
    \A r \in RequestIds : db.record[r] # NoRecord =>
        /\ db.record[r].input \in Inputs
        /\ db.record[r].result \in 1..Len(db.events)
        /\ db.events[db.record[r].result] = Effect(r, db.record[r].input)

LockHeld == \A c \in Callers : lock = c <=> pc[c] \in InTransaction

Unanswered ==
    \A c \in Callers :
        /\ pc[c] # "idle" => call[c].input \in Inputs
        /\ pc[c] # "answered" => answer[c] = NoAnswer

\* Nothing is remembered yet for the call of c.
Fresh(c) == Named(c) /\ db.record[call[c].rid] = NoRecord

StagedBy(c) ==
    /\ At(c, "begun") => tx = db
    /\ At(c, "inserted") => Fresh(c) /\ tx = WithRecord(db, c, Pending)
    /\ At(c, "ran") =>
          \/ Fresh(c) /\ tx = WithEvent(WithRecord(db, c, Pending), "done", c)
          \/ ~Named(c) /\ tx = WithEvent(db, "done", c)
    /\ At(c, "refused") /\ ~Named(c) => tx = WithEvent(db, "refused", c)
    /\ At(c, "stored") =>
          /\ Fresh(c)
          /\ tx = WithRecord(WithEvent(db, "done", c), c, Len(db.events) + 1)

Staged == \A c \in Callers : StagedBy(c)

IInv == TypeOK /\ RecordsTrue /\ LockHeld /\ Unanswered /\ Staged
             /\ AnswersAreTrue /\ NoStuckRequest

-------------------------------------------------------------------------------
(* Types. *)

LEMMA InitType == Init => TypeOK
BY DEF Init, TypeOK, Databases, Events, NoRecord, NoCall, NoAnswer, Stages

Calls == [Callers -> [rid : RequestIds \cup {None}, input : Inputs \cup {None}]]

LEMMA EventType ==
    ASSUME NEW d \in Databases, NEW c \in Callers, NEW kind \in Kinds,
           call \in Calls, call[c].input \in Inputs
    PROVE  /\ WithEvent(d, kind, c) \in Databases
           /\ Len(WithEvent(d, kind, c).events) = Len(d.events) + 1
           /\ \A k \in 1..Len(d.events) :
                 WithEvent(d, kind, c).events[k] = d.events[k]
           /\ WithEvent(d, kind, c).events[Len(d.events) + 1] = Event(kind, c)
<1>1. Event(kind, c) \in Events BY DEF Event, Events, Calls
<1>2. d.events \in Seq(Events) BY DEF Databases
<1>3. WithEvent(d, kind, c).events = Append(d.events, Event(kind, c))
  BY DEF WithEvent
<1>4. Append(d.events, Event(kind, c)) \in Seq(Events)
  BY <1>1, <1>2
<1>5. WithEvent(d, kind, c) \in Databases
  BY <1>4 DEF Databases, WithEvent
<1> QED BY <1>1, <1>2, <1>3, <1>5

LEMMA RecordType ==
    ASSUME NEW d \in Databases, NEW c \in Callers, NEW n \in Nat,
           call \in Calls, call[c].input \in Inputs
    PROVE  WithRecord(d, c, n) \in Databases
BY DEF Databases, WithRecord, Calls

LEMMA AnswerType ==
    ASSUME TypeOK, NEW c \in Callers, NEW kind \in Kinds \cup Errors, NEW n \in Nat,
           Answer(c, kind, n)
    PROVE  /\ answer' \in [Callers -> [kind : Kinds \cup Errors \cup {"none"}, event : Nat]]
           /\ pc' \in [Callers -> Stages]
BY DEF TypeOK, Answer, Goto, Stages

LEMMA TypeStep == TypeOK /\ Unanswered /\ LockHeld /\ [Next]_vars => TypeOK'
<1> SUFFICES ASSUME TypeOK, Unanswered, LockHeld, [Next]_vars PROVE TypeOK'
  OBVIOUS
<1> USE DEF TypeOK
<1>0. call \in Calls BY DEF Calls
<1>1. ASSUME NEW c \in Callers, NEW r \in RequestIds \cup {None}, NEW i \in Inputs,
             Send(c, r, i)
      PROVE  TypeOK'
  BY <1>1 DEF Send, Goto, Stages
<1>2. ASSUME NEW c \in Callers, Step(c) PROVE TypeOK'
  <2>0. pc[c] # "idle" => call[c].input \in Inputs
    BY DEF Unanswered
  <2>1. CASE Begin(c)
    BY <2>1 DEF Begin, Goto, Stages
  <2>2. CASE TimeOut(c)
    <3>1. "locked" \in Kinds \cup Errors BY DEF Errors
    <3>2. Answer(c, "locked", 0) BY <2>2 DEF TimeOut
    <3> QED BY <2>2, <3>1, <3>2, AnswerType DEF TimeOut
  <2>3. CASE Replay(c)
    <3>1. PICK kind \in Kinds \cup Errors, n \in Nat : Answer(c, kind, n)
      <4>1. Named(c) => Record(c).result \in Nat
        BY DEF Databases, Named, Record
      <4> QED BY <2>3, <4>1 DEF Replay, Kinds, Errors
    <3>2. EndTransaction(tx) \/ EndTransaction(db)
      BY <2>3 DEF Replay, Commit, Rollback
    <3> QED BY <2>3, <3>1, <3>2, AnswerType DEF Replay, EndTransaction
  <2>4. CASE Insert(c)
    <3>1. WithRecord(tx, c, Pending) \in Databases
      BY <1>0, <2>0, <2>4, RecordType DEF Insert, At, Pending
    <3> QED BY <2>4, <3>1 DEF Insert, Goto, Stages
  <2>5. CASE Run(c) \/ RunRefused(c)
    <3>1. PICK kind \in Kinds : tx' = WithEvent(tx, kind, c)
      BY <2>5 DEF Run, RunRefused, Kinds
    <3>2. WithEvent(tx, kind, c) \in Databases
      BY <1>0, <2>0, <2>5, EventType DEF Run, RunRefused, ReadyToRun, At
    <3> QED BY <2>5, <3>1, <3>2 DEF Run, RunRefused, Goto, Stages
  <2>6. CASE Fail(c)
    <3>1. "failed" \in Kinds \cup Errors BY DEF Errors
    <3>2. Answer(c, "failed", 0) BY <2>6 DEF Fail
    <3> QED BY <2>6, <3>1, <3>2, AnswerType DEF Fail, Rollback, EndTransaction
  <2>7. CASE RaiseRefusal(c) \/ Finish(c)
    <3>1. PICK kind \in Kinds : Answer(c, kind, Len(tx.events))
      BY <2>7 DEF RaiseRefusal, Finish, Kinds
    <3>2. Len(tx.events) \in Nat BY DEF Databases
    <3>3. EndTransaction(tx) \/ EndTransaction(db)
      BY <2>7 DEF RaiseRefusal, Finish, Commit, Rollback
    <3> QED BY <2>7, <3>1, <3>2, <3>3, AnswerType DEF RaiseRefusal, Finish, EndTransaction
  <2>8. CASE StoreResponse(c)
    <3>1. WithRecord(tx, c, Len(tx.events)) \in Databases
      <4>1. Len(tx.events) \in Nat BY DEF Databases
      <4> QED BY <1>0, <2>0, <2>8, <4>1, RecordType DEF StoreResponse, At
    <3> QED BY <2>8, <3>1 DEF StoreResponse, Goto, Stages
  <2>9. CASE Return(c)
    BY <2>9 DEF Return, Goto, Stages, NoCall, NoAnswer
  <2> QED BY <1>2, <2>1, <2>2, <2>3, <2>4, <2>5, <2>6, <2>7, <2>8, <2>9 DEF Step
<1>3. ASSUME NEW c \in Callers, Crash(c) PROVE TypeOK'
  BY <1>3 DEF Crash, Goto, Stages, NoCall, NoAnswer, Rollback, EndTransaction
<1>4. ASSUME NEW R \in SUBSET RequestIds, Retain(R) PROVE TypeOK'
  <2>1. db' \in Databases BY <1>4 DEF Retain, Databases, NoRecord
  <2> QED BY <1>4, <2>1 DEF Retain
<1>5. CASE UNCHANGED vars BY <1>5 DEF vars
<1> QED BY <1>1, <1>2, <1>3, <1>4, <1>5 DEF Next

-------------------------------------------------------------------------------
(* The invariant. *)

LEMMA InitInvariant == Init => IInv
<1> SUFFICES ASSUME Init PROVE IInv
  OBVIOUS
<1>1. TypeOK BY InitType
<1>2. RecordsTrue BY DEF Init, RecordsTrue
<1>3. LockHeld BY NoneAssumption DEF Init, LockHeld, InTransaction
<1>4. Unanswered BY DEF Init, Unanswered
<1>5. Staged BY DEF Init, Staged, StagedBy, At
<1>6. AnswersAreTrue /\ NoStuckRequest
  BY DEF Init, AnswersAreTrue, NoStuckRequest, NoAnswer
<1> QED BY <1>1, <1>2, <1>3, <1>4, <1>5, <1>6 DEF IInv

\* A step of c leaves what the other callers are at alone.
Alone(c) ==
    \A d \in Callers \ {c} :
        /\ pc'[d] = pc[d]
        /\ call'[d] = call[d]
        /\ answer'[d] = answer[d]

\* What the invariant says of c itself.
Part(c) ==
    /\ pc[c] # "idle" => call[c].input \in Inputs
    /\ pc[c] # "answered" => answer[c] = NoAnswer
    /\ answer[c].kind = "done" =>
          /\ answer[c].event \in 1..Len(db.events)
          /\ db.events[answer[c].event] = Event("done", c)
    /\ answer[c].kind # "in_progress"
    /\ StagedBy(c)

LEMMA HasParts == IInv => \A c \in Callers : Part(c)
BY DEF IInv, Part, Unanswered, AnswersAreTrue, NoStuckRequest, Staged

LEMMA FromParts ==
    TypeOK' /\ RecordsTrue' /\ LockHeld' /\ (\A c \in Callers : Part(c)') => IInv'
BY DEF IInv, Part, Unanswered, AnswersAreTrue, NoStuckRequest, Staged

\* The committed history only grows.
Grows ==
    \A k \in 1..Len(db.events) :
        /\ k \in 1..Len(db'.events)
        /\ db'.events[k] = db.events[k]

\* A caller outside the transaction keeps its part when the history grows.
LEMMA BystanderPart ==
    ASSUME NEW d, Part(d), Grows, pc'[d] = pc[d], call'[d] = call[d],
           answer'[d] = answer[d],
           pc[d] \notin InTransaction \/ UNCHANGED <<db, tx>>
    PROVE  Part(d)'
<1>1. CASE UNCHANGED <<db, tx>>
  BY <1>1 DEF Part, StagedBy, At, Fresh, Named, WithRecord, WithEvent, Event
<1>2. CASE pc[d] \notin InTransaction
  <2>1. StagedBy(d)'
    BY <1>2 DEF StagedBy, At, InTransaction
  <2> QED BY <2>1 DEF Part, Grows, Event
<1> QED BY <1>1, <1>2

\* A step of c outside the transaction.
LEMMA OutsideStep ==
    ASSUME IInv, TypeOK', NEW c \in Callers, Alone(c), Part(c)',
           UNCHANGED <<db, tx, lock>>,
           pc[c] \notin InTransaction, pc'[c] \notin InTransaction
    PROVE  IInv'
<1>1. RecordsTrue' BY DEF IInv, RecordsTrue, Effect
<1>2. LockHeld' BY DEF IInv, LockHeld, Alone
<1>3. ASSUME NEW d \in Callers PROVE Part(d)'
  <2>1. CASE d = c BY <2>1
  <2>2. CASE d # c
    <3>1. Grows BY DEF Grows
    <3>2. Part(d) BY HasParts
    <3> QED BY <2>2, <3>1, <3>2, BystanderPart DEF Alone
  <2> QED BY <2>1, <2>2
<1> QED BY <1>1, <1>2, <1>3, FromParts

\* A step of c that begins the transaction or goes on with it.
LEMMA InsideStep ==
    ASSUME IInv, TypeOK', NEW c \in Callers, Alone(c), Part(c)',
           lock \in {c, None}, lock' = c, db' = db, pc'[c] \in InTransaction
    PROVE  IInv'
<1>1. RecordsTrue' BY DEF IInv, RecordsTrue, Effect
<1>2. LockHeld' BY NoneAssumption DEF IInv, LockHeld, Alone
<1>3. ASSUME NEW d \in Callers PROVE Part(d)'
  <2>1. CASE d = c BY <2>1
  <2>2. CASE d # c
    <3>1. Grows BY DEF Grows
    <3>2. Part(d) BY HasParts
    <3>3. pc[d] \notin InTransaction BY <2>2, NoneAssumption DEF IInv, LockHeld
    <3> QED BY <2>2, <3>1, <3>2, <3>3, BystanderPart DEF Alone
  <2> QED BY <2>1, <2>2
<1> QED BY <1>1, <1>2, <1>3, FromParts

\* A step of c that ends the transaction.
LEMMA EndStep ==
    ASSUME IInv, TypeOK', RecordsTrue', Grows, NEW c \in Callers, Alone(c), Part(c)',
           lock = c, lock' = None, pc'[c] \notin InTransaction
    PROVE  IInv'
<1>2. LockHeld' BY NoneAssumption DEF IInv, LockHeld, Alone
<1>3. ASSUME NEW d \in Callers PROVE Part(d)'
  <2>1. CASE d = c BY <2>1
  <2>2. CASE d # c
    <3>2. Part(d) BY HasParts
    <3>3. pc[d] \notin InTransaction BY <2>2 DEF IInv, LockHeld
    <3> QED BY <2>2, <3>2, <3>3, BystanderPart DEF Alone
  <2> QED BY <2>1, <2>2
<1> QED BY <1>2, <1>3, FromParts

\* Committing one event, and at most the record that names it, keeps every
\* record true.
LEMMA CommitOneEvent ==
    ASSUME IInv, NEW c \in Callers, NEW kind \in Kinds, call[c].input \in Inputs,
           db'.events = WithEvent(db, kind, c).events,
           \A r \in RequestIds :
              \/ db'.record[r] = db.record[r]
              \/ /\ kind = "done"
                 /\ r = call[c].rid
                 /\ db'.record[r] = [input |-> call[c].input, result |-> Len(db.events) + 1]
    PROVE  /\ Grows
           /\ RecordsTrue'
           /\ Len(db'.events) = Len(db.events) + 1
           /\ db'.events[Len(db.events) + 1] = Event(kind, c)
<1>1. db \in Databases /\ call \in Calls BY DEF IInv, TypeOK, Calls
<1>2. Len(db.events) \in Nat BY <1>1 DEF Databases
<1>3. /\ Len(db'.events) = Len(db.events) + 1
      /\ \A k \in 1..Len(db.events) : db'.events[k] = db.events[k]
      /\ db'.events[Len(db.events) + 1] = Event(kind, c)
  BY <1>1, EventType
<1>4. Grows BY <1>2, <1>3 DEF Grows
<1>5. ASSUME NEW r \in RequestIds, (db.record[r] # NoRecord)'
      PROVE  (/\ db.record[r].input \in Inputs
              /\ db.record[r].result \in 1..Len(db.events)
              /\ db.events[db.record[r].result] = Effect(r, db.record[r].input))'
  <2>1. CASE db'.record[r] = db.record[r]
    BY <1>2, <1>3, <1>5, <2>1 DEF IInv, RecordsTrue, Effect, NoRecord
  <2>2. CASE /\ kind = "done"
             /\ r = call[c].rid
             /\ db'.record[r] = [input |-> call[c].input, result |-> Len(db.events) + 1]
    BY <1>2, <1>3, <2>2 DEF Effect, Event
  <2> QED BY <2>1, <2>2
<1> QED BY <1>3, <1>4, <1>5 DEF RecordsTrue

\* Nothing is committed at all.
LEMMA CommitNothing ==
    ASSUME IInv, db' = db
    PROVE  Grows /\ RecordsTrue'
BY DEF IInv, RecordsTrue, Effect, Grows

LEMMA FinishCommits ==
    ASSUME IInv, NEW c \in Callers, Finish(c)
    PROVE  /\ call[c].input \in Inputs
           /\ db'.events = WithEvent(db, "done", c).events
           /\ \/ /\ Fresh(c)
                 /\ db'.record = [db.record EXCEPT ![call[c].rid] =
                       [input |-> call[c].input, result |-> Len(db.events) + 1]]
              \/ ~Named(c) /\ db'.record = db.record
<1>1. Part(c) BY HasParts
<1>2. call[c].input \in Inputs BY <1>1 DEF Part, Finish, At
<1>3. db' = tx BY DEF Finish, Commit, EndTransaction
<1>4. CASE At(c, "stored")
  BY <1>1, <1>2, <1>3, <1>4 DEF Part, StagedBy, WithRecord, WithEvent
<1>5. CASE At(c, "ran") /\ ~Named(c)
  BY <1>1, <1>2, <1>3, <1>5 DEF Part, StagedBy, WithEvent, Fresh
<1> QED BY <1>4, <1>5 DEF Finish

LEMMA RefusalCommits ==
    ASSUME IInv, NEW c \in Callers, RaiseRefusal(c)
    PROVE  /\ call[c].input \in Inputs
           /\ \/ Named(c) /\ db' = db
              \/ ~Named(c) /\ db' = WithEvent(db, "refused", c)
<1>1. Part(c) BY HasParts
<1>2. call[c].input \in Inputs BY <1>1 DEF Part, RaiseRefusal, At
<1> QED BY <1>1, <1>2 DEF Part, StagedBy, RaiseRefusal, Commit, Rollback, EndTransaction

LEMMA StepKeepsInvariant ==
    ASSUME IInv, TypeOK', NEW c \in Callers, Step(c)
    PROVE  IInv'
<1>0. Part(c) BY HasParts
<1> USE DEF TypeOK, At
<1> TypeOK BY DEF IInv
<1>1. CASE Begin(c)
  <2>1. Part(c)' BY <1>0, <1>1 DEF Part, StagedBy, Begin, Goto, Event, NoAnswer
  <2> QED BY <1>1, <2>1, InsideStep DEF Begin, Goto, Alone, InTransaction
<1>2. CASE TimeOut(c)
  <2>1. Part(c)' BY <1>0, <1>2 DEF Part, StagedBy, TimeOut, Answer, Goto
  <2> QED BY <1>2, <2>1, OutsideStep DEF TimeOut, Answer, Goto, Alone, InTransaction
<1>3. CASE Replay(c)
  <2>1. tx = db BY <1>0, <1>3 DEF Part, StagedBy, Replay
  <2>2. db' = db
    BY <1>3, <2>1 DEF Replay, Commit, Rollback, EndTransaction
  <2>3. lock = c BY <1>3 DEF IInv, LockHeld, Replay, InTransaction
  <2>4. /\ Record(c) = db.record[call[c].rid]
        /\ call[c].rid \in RequestIds
    BY <1>3, <2>1 DEF Record, Replay, Named
  <2>5. /\ Record(c).result \in 1..Len(db.events)
        /\ db.events[Record(c).result] = Effect(call[c].rid, Record(c).input)
    BY <1>3, <2>4 DEF IInv, RecordsTrue, Replay
  <2>6. Record(c).result # Pending BY <2>5 DEF Pending
  <2>7. CASE SameRequest(c) /\ Answer(c, "done", Record(c).result)
    <3>1. Part(c)'
      BY <1>0, <1>3, <2>2, <2>5, <2>7
         DEF Part, StagedBy, Replay, SameRequest, Answer, Goto, Effect, Event
    <3> QED BY <1>3, <2>2, <2>3, <2>7, <3>1, EndStep, CommitNothing
            DEF Replay, Answer, Goto, Alone, InTransaction, Commit, Rollback, EndTransaction
  <2>8. CASE Answer(c, "conflict", 0)
    <3>1. Part(c)'
      BY <1>0, <1>3, <2>2, <2>8 DEF Part, StagedBy, Replay, Answer, Goto
    <3> QED BY <1>3, <2>2, <2>3, <2>8, <3>1, EndStep, CommitNothing
            DEF Replay, Answer, Goto, Alone, InTransaction, Commit, Rollback, EndTransaction
  <2> QED BY <1>3, <2>6, <2>7, <2>8 DEF Replay
<1>4. CASE Insert(c)
  <2>1. lock = c BY <1>4 DEF IInv, LockHeld, Insert, InTransaction
  <2>2. Part(c)'
    BY <1>0, <1>4 DEF Part, StagedBy, Insert, Goto, Fresh, Named, Record, WithRecord, Event, NoAnswer
  <2> QED BY <1>4, <2>1, <2>2, InsideStep DEF Insert, Goto, Alone, InTransaction
<1>5. CASE Run(c) \/ RunRefused(c)
  <2>1. lock = c
    BY <1>5 DEF IInv, LockHeld, Run, RunRefused, ReadyToRun, InTransaction
  <2>2. StagedBy(c)'
    BY <1>0, <1>5
       DEF Part, StagedBy, Run, RunRefused, ReadyToRun, Goto, Fresh, Named, WithRecord, WithEvent, Event
  <2>3. Part(c)'
    BY <1>0, <1>5, <2>2 DEF Part, Run, RunRefused, ReadyToRun, Goto, Event, NoAnswer
  <2> QED BY <1>5, <2>1, <2>3, InsideStep DEF Run, RunRefused, Goto, Alone, InTransaction
<1>6. CASE Fail(c)
  <2>1. lock = c BY <1>6 DEF IInv, LockHeld, Fail, ReadyToRun, InTransaction
  <2>2. Part(c)'
    BY <1>0, <1>6 DEF Part, StagedBy, Fail, ReadyToRun, Answer, Goto
  <2> QED BY <1>6, <2>1, <2>2, EndStep, CommitNothing
          DEF Fail, Answer, Goto, Alone, InTransaction, Rollback, EndTransaction
<1>7. CASE RaiseRefusal(c)
  <2>1. lock = c BY <1>7 DEF IInv, LockHeld, RaiseRefusal, InTransaction
  <2>2. Grows /\ RecordsTrue'
    <3>1. CASE db' = db BY <3>1, CommitNothing
    <3>2. CASE db' = WithEvent(db, "refused", c)
      <4>1. /\ db'.events = WithEvent(db, "refused", c).events
            /\ db'.record = db.record
        BY <3>2 DEF WithEvent
      <4>2. "refused" \in Kinds /\ call[c].input \in Inputs
        BY <1>7, RefusalCommits DEF Kinds
      <4> QED BY <4>1, <4>2, CommitOneEvent
    <3> QED BY <1>7, <3>1, <3>2, RefusalCommits
  <2>3. Part(c)'
    BY <1>0, <1>7, RefusalCommits DEF Part, StagedBy, RaiseRefusal, Answer, Goto
  <2> QED BY <1>7, <2>1, <2>2, <2>3, EndStep
          DEF RaiseRefusal, Answer, Goto, Alone, InTransaction, Commit, Rollback, EndTransaction
<1>8. CASE StoreResponse(c)
  <2>1. lock = c BY <1>8 DEF IInv, LockHeld, StoreResponse, InTransaction
  <2>2. tx = WithEvent(WithRecord(db, c, Pending), "done", c) /\ Fresh(c)
    BY <1>0, <1>8 DEF Part, StagedBy, StoreResponse
  <2>3. call[c].input \in Inputs /\ "done" \in Kinds /\ call \in Calls /\ db \in Databases
    BY <1>0, <1>8 DEF Part, StoreResponse, Kinds, Calls
  <2>4. Len(tx.events) = Len(db.events) + 1
    <3>1. Len(WithEvent(db, "done", c).events) = Len(db.events) + 1
      BY <2>3, EventType
    <3> QED BY <2>2, <3>1 DEF WithEvent, WithRecord
  <2>5. tx' = WithRecord(WithEvent(db, "done", c), c, Len(db.events) + 1)
    BY <1>8, <2>2, <2>3, <2>4 DEF StoreResponse, WithRecord, WithEvent, Databases, Event
  <2>6. StagedBy(c)'
    BY <1>8, <2>2, <2>5
       DEF StagedBy, StoreResponse, Goto, Fresh, Named, WithRecord, WithEvent, Event
  <2>7. Part(c)'
    BY <1>0, <1>8, <2>6 DEF Part, StoreResponse, Goto, Event, NoAnswer
  <2> QED BY <1>8, <2>1, <2>7, InsideStep DEF StoreResponse, Goto, Alone, InTransaction
<1>9. CASE Finish(c)
  <2>1. lock = c BY <1>9 DEF IInv, LockHeld, Finish, InTransaction
  <2>2. "done" \in Kinds BY DEF Kinds
  <2>3. \A r \in RequestIds :
           \/ db'.record[r] = db.record[r]
           \/ /\ r = call[c].rid
              /\ db'.record[r] = [input |-> call[c].input, result |-> Len(db.events) + 1]
    <3>1. db.record \in [RequestIds -> [input : Inputs \cup {None}, result : Nat]]
      BY DEF Databases
    <3>2. CASE db'.record = db.record BY <3>2
    <3>3. CASE db'.record = [db.record EXCEPT ![call[c].rid] =
                              [input |-> call[c].input, result |-> Len(db.events) + 1]]
      BY <3>1, <3>3
    <3> QED BY <1>9, <3>2, <3>3, FinishCommits
  <2>4. /\ Grows
        /\ RecordsTrue'
        /\ Len(db'.events) = Len(db.events) + 1
        /\ db'.events[Len(db.events) + 1] = Event("done", c)
    BY <1>9, <2>2, <2>3, FinishCommits, CommitOneEvent
  <2>5. Len(tx.events) = Len(db.events) + 1
    BY <1>9, <2>4 DEF Finish, Commit, EndTransaction
  <2>6. Len(db.events) \in Nat BY DEF Databases
  <2>7. Part(c)'
    BY <1>0, <1>9, <2>4, <2>5, <2>6 DEF Part, StagedBy, Finish, Answer, Goto, Event
  <2> QED BY <1>9, <2>1, <2>4, <2>7, EndStep
          DEF Finish, Answer, Goto, Alone, InTransaction, Commit, EndTransaction
<1>10. CASE Return(c)
  <2>1. Part(c)' BY <1>10 DEF Part, StagedBy, Return, Goto, NoAnswer
  <2> QED BY <1>10, <2>1, OutsideStep DEF Return, Goto, Alone, InTransaction
<1> QED BY <1>1, <1>2, <1>3, <1>4, <1>5, <1>6, <1>7, <1>8, <1>9, <1>10 DEF Step

LEMMA InvariantStep == IInv /\ [Next]_vars => IInv'
<1> SUFFICES ASSUME IInv, [Next]_vars PROVE IInv'
  OBVIOUS
<1>0. TypeOK' BY TypeStep DEF IInv
<1>1. ASSUME NEW c \in Callers, NEW r \in RequestIds \cup {None}, NEW i \in Inputs,
             Send(c, r, i)
      PROVE  IInv'
  <2>1. Part(c) BY HasParts
  <2>2. TypeOK BY DEF IInv
  <2>3. Part(c)'
    BY <1>1, <2>1, <2>2 DEF TypeOK, Part, StagedBy, At, Send, Goto, NoAnswer
  <2> QED BY <1>0, <1>1, <2>2, <2>3, OutsideStep
          DEF TypeOK, Send, At, Goto, Alone, InTransaction
<1>2. ASSUME NEW c \in Callers, Step(c) PROVE IInv'
  BY <1>0, <1>2, StepKeepsInvariant
<1>3. ASSUME NEW c \in Callers, Crash(c) PROVE IInv'
  <2>1. TypeOK BY DEF IInv
  <2>2. Part(c)' BY <1>3, <2>1 DEF TypeOK, Part, StagedBy, At, Crash, Goto, NoAnswer
  <2>3. CASE lock = c
    BY <1>0, <1>3, <2>1, <2>2, <2>3, EndStep, CommitNothing
       DEF TypeOK, Crash, Goto, Alone, InTransaction, Rollback, EndTransaction
  <2>4. CASE lock # c
    <3>1. pc[c] \notin InTransaction BY <2>4 DEF IInv, LockHeld
    <3> QED BY <1>0, <1>3, <2>1, <2>2, <2>4, <3>1, OutsideStep
            DEF TypeOK, Crash, Goto, Alone, InTransaction
  <2> QED BY <2>3, <2>4
<1>4. ASSUME NEW R \in SUBSET RequestIds, Retain(R) PROVE IInv'
  <2>1. db'.events = db.events BY <1>4 DEF Retain
  <2>2. Grows BY <2>1 DEF Grows
  <2>3. RecordsTrue'
    BY <1>4 DEF IInv, RecordsTrue, Retain, Effect, NoRecord
  <2>4. LockHeld' BY <1>4 DEF IInv, LockHeld, Retain
  <2>5. ASSUME NEW d \in Callers PROVE Part(d)'
    <3>1. Part(d) BY HasParts
    <3>2. pc[d] \notin InTransaction
      BY <1>4, NoneAssumption DEF IInv, LockHeld, Retain
    <3> QED BY <1>4, <2>2, <3>1, <3>2, BystanderPart DEF Retain
  <2> QED BY <1>0, <2>3, <2>4, <2>5, FromParts
<1>5. CASE UNCHANGED vars
  BY <1>0, <1>5 DEF vars, IInv, RecordsTrue, LockHeld, Unanswered, Staged, StagedBy,
     AnswersAreTrue, NoStuckRequest, At, Fresh, Named, WithRecord, WithEvent, Event, Effect
<1> QED BY <1>1, <1>2, <1>3, <1>4, <1>5 DEF Next

\* What the theorems below rest on: records, events and answers agree.
THEOREM InvariantHolds == Spec => []IInv
BY InitInvariant, InvariantStep, PTL DEF Spec

\* Type correctness, for any sets of callers, ids and inputs.
THEOREM WriteTypeCorrect == Spec => []TypeOK
BY InvariantHolds, PTL DEF IInv

\* Every success that is answered, first hand or replayed, names a committed
\* event of the request that is answered.
THEOREM AnswersAlwaysTrue == Spec => []AnswersAreTrue
BY InvariantHolds, PTL DEF IInv

\* No request ever meets an unfinished record: the answer
\* idempotency_in_progress of _execute_idempotent is unreachable.
THEOREM NeverStuck == Spec => []NoStuckRequest
BY InvariantHolds, PTL DEF IInv

-------------------------------------------------------------------------------
(* The refinement. *)

LEMMA InitRefines == Init => Promise!Init
BY DEF Init, Promise!Init, NoRecord, Promise!Forgotten

LEMMA StepRefines == IInv /\ [Next]_vars => [Promise!Next]_Promise!vars
<1> SUFFICES ASSUME IInv, [Next]_vars PROVE [Promise!Next]_Promise!vars
  OBVIOUS
<1> USE DEF Promise!vars
<1>1. CASE UNCHANGED db BY <1>1
<1>2. ASSUME NEW c \in Callers, Finish(c) PROVE Promise!Next
  <2>1. call[c].input \in Inputs BY <1>2, FinishCommits
  <2>2. db'.events = Append(db.events, Event("done", c))
    BY <1>2, FinishCommits DEF WithEvent
  <2>3. CASE Fresh(c) /\ db'.record = [db.record EXCEPT ![call[c].rid] =
                              [input |-> call[c].input, result |-> Len(db.events) + 1]]
    <3>1. call[c].rid \in RequestIds BY <2>3 DEF IInv, TypeOK, Fresh, Named
    <3>2. Promise!Perform(call[c].rid, call[c].input)
      BY <2>2, <2>3
         DEF Promise!Perform, Promise!Forgotten, Promise!Event, Event, Fresh, NoRecord
    <3> QED BY <2>1, <3>1, <3>2 DEF Promise!Next
  <2>4. CASE ~Named(c) /\ db'.record = db.record
    <3>1. Promise!PerformUnnamed(call[c].input)
      BY <2>2, <2>4 DEF Promise!PerformUnnamed, Promise!Event, Event, Named
    <3> QED BY <2>1, <3>1 DEF Promise!Next
  <2> QED BY <1>2, <2>3, <2>4, FinishCommits
<1>3. ASSUME NEW c \in Callers, RaiseRefusal(c), db' # db PROVE Promise!Next
  <2>1. ~Named(c) /\ db' = WithEvent(db, "refused", c) /\ call[c].input \in Inputs
    BY <1>3, RefusalCommits
  <2>2. Promise!Refuse(call[c].input)
    BY <2>1 DEF Promise!Refuse, Promise!Event, WithEvent, Event, Named
  <2> QED BY <2>1, <2>2 DEF Promise!Next
<1>4. ASSUME NEW R \in SUBSET RequestIds, Retain(R) PROVE Promise!Next
  <2>1. Promise!Forget(R)
    BY <1>4 DEF Retain, Promise!Forget, Promise!Forgotten, NoRecord
  <2> QED BY <2>1 DEF Promise!Next
<1>5. ASSUME NEW c \in Callers, Step(c), ~Finish(c), ~RaiseRefusal(c) PROVE db' = db
  <2>1. CASE Replay(c)
    <3>1. tx = db BY <2>1, HasParts DEF Part, StagedBy, Replay
    <3> QED BY <2>1, <3>1 DEF Replay, Commit, Rollback, EndTransaction
  <2>2. CASE ~Replay(c)
    BY <1>5, <2>2 DEF Step, Begin, TimeOut, Insert, Run, Fail, RunRefused, StoreResponse,
       Return, Rollback, EndTransaction
  <2> QED BY <2>1, <2>2
<1>6. ASSUME NEW c \in Callers, Crash(c) PROVE db' = db
  BY <1>6 DEF Crash, Rollback, EndTransaction
<1>7. ASSUME NEW c \in Callers, NEW r \in RequestIds \cup {None}, NEW i \in Inputs,
             Send(c, r, i)
      PROVE  db' = db
  BY <1>7 DEF Send
<1>8. CASE UNCHANGED vars BY <1>8 DEF vars
<1> QED BY <1>1, <1>2, <1>3, <1>4, <1>5, <1>6, <1>7, <1>8 DEF Next

\* The transactions of _execute_idempotent implement the promise: an effect and
\* its record appear in one step and a remembered request has no second effect,
\* for any number of callers that crash, time out, fail, retry and race.
THEOREM ExactlyOnceAlwaysKept == Spec => ExactlyOnceKept
BY InvariantHolds, InitRefines, StepRefines, PTL DEF Spec, ExactlyOnceKept, Promise!Spec
===============================================================================
