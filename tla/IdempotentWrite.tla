--------------------------- MODULE IdempotentWrite ---------------------------
(***************************************************************************)
(* The transaction around every mutating service method: the decorator     *)
(* idempotent_write, _execute_idempotent, database.connect and the         *)
(* retention of idempotency records, step by step, with callers that run   *)
(* concurrently, retry, time out, fail and crash.  The method itself is    *)
(* one event it appends, its response the number of that event.            *)
(***************************************************************************)
EXTENDS Naturals, Sequences

CONSTANTS Callers,     \* request threads, each in a process that may die
          RequestIds,
          Inputs,      \* operation and payload, as far as request_hash tells them apart
          None,
          MaxEvents    \* bound on the events of the Project

ASSUME NoneAssumption == None \notin Callers \cup RequestIds \cup Inputs
ASSUME MaxEventsAssumption == MaxEvents \in Nat

VARIABLES db,      \* what is committed: events and idempotency_records
          tx,      \* what the open write transaction sees; db when none is open
          lock,    \* the caller whose write transaction is open
          pc,
          call,    \* the request a caller executes
          answer   \* what it is about to return

vars == <<db, tx, lock, pc, call, answer>>

\* The row of a request id; the result of a row without response_json is Pending.
NoRecord == [input |-> None, result |-> 0]
Pending == 0
NoCall == [rid |-> None, input |-> None]
NoAnswer == [kind |-> "none", event |-> 0]
Event(kind, c) == [kind |-> kind, rid |-> call[c].rid, input |-> call[c].input]

\* The database with one more event, and with the record of the call of c.
WithEvent(d, kind, c) ==
    [events |-> Append(d.events, Event(kind, c)), record |-> d.record]
WithRecord(d, c, result) ==
    [events |-> d.events,
     record |-> [d.record EXCEPT ![call[c].rid] =
                   [input |-> call[c].input, result |-> result]]]

Kinds == {"done", "refused"}
Events == [kind : Kinds, rid : RequestIds \cup {None}, input : Inputs]
Databases ==
    [events : Seq(Events),
     record : [RequestIds -> [input : Inputs \cup {None}, result : Nat]]]
Stages == {"idle", "queued", "begun", "inserted", "ran", "refused", "stored", "answered"}
InTransaction == {"begun", "inserted", "ran", "refused", "stored"}
Errors == {"conflict", "in_progress", "failed", "locked"}

TypeOK ==
    /\ db \in Databases
    /\ tx \in Databases
    /\ lock \in Callers \cup {None}
    /\ pc \in [Callers -> Stages]
    /\ call \in [Callers -> [rid : RequestIds \cup {None}, input : Inputs \cup {None}]]
    /\ answer \in [Callers -> [kind : Kinds \cup Errors \cup {"none"}, event : Nat]]

Init ==
    /\ db = [events |-> <<>>, record |-> [r \in RequestIds |-> NoRecord]]
    /\ tx = db
    /\ lock = None
    /\ pc = [c \in Callers |-> "idle"]
    /\ call = [c \in Callers |-> NoCall]
    /\ answer = [c \in Callers |-> NoAnswer]

Named(c) == call[c].rid # None
Record(c) == tx.record[call[c].rid]

At(c, stage) == pc[c] = stage
Goto(c, stage) == pc' = [pc EXCEPT ![c] = stage]
Answer(c, kind, event) ==
    /\ answer' = [answer EXCEPT ![c] = [kind |-> kind, event |-> event]]
    /\ Goto(c, "answered")

-------------------------------------------------------------------------------
(* The transaction. *)

\* A request arrives: new, a duplicate, a retry of what failed or was never
\* answered, or another input under a used id.
Send(c, r, i) ==
    /\ At(c, "idle")
    /\ call' = [call EXCEPT ![c] = [rid |-> r, input |-> i]]
    /\ Goto(c, "queued")
    /\ UNCHANGED <<db, tx, lock, answer>>

Begin(c) ==
    /\ At(c, "queued")
    /\ lock = None
    /\ lock' = c
    /\ tx' = db
    /\ Goto(c, "begun")
    /\ UNCHANGED <<db, call, answer>>

\* Fault: no busy_timeout.
TimeOutNever(c) == FALSE

\* busy_timeout has passed with the lock still taken: "database is locked".
TimeOut(c) ==
    /\ At(c, "queued")
    /\ lock # None
    /\ Answer(c, "locked", 0)
    /\ UNCHANGED <<db, tx, lock, call>>

EndTransaction(state) ==
    /\ db' = state
    /\ tx' = state
    /\ lock' = None
Commit == EndTransaction(tx)
Rollback == EndTransaction(db)

\* Fault: the stored request_hash is not compared.
AnyRequest(c) == TRUE

\* The id is remembered: replay, or refuse another input or a half record.
SameRequest(c) == Record(c).input = call[c].input
Replay(c) ==
    /\ At(c, "begun")
    /\ Named(c)
    /\ Record(c) # NoRecord
    /\ \/ /\ ~SameRequest(c)
          /\ Answer(c, "conflict", 0)
          /\ Rollback
       \/ /\ SameRequest(c)
          /\ Record(c).result = Pending
          /\ Answer(c, "in_progress", 0)
          /\ Rollback
       \/ /\ SameRequest(c)
          /\ Record(c).result # Pending
          /\ Answer(c, "done", Record(c).result)
          /\ Commit
    /\ UNCHANGED call

\* Fault: the record is committed at once, in a transaction of its own.
InsertAlone(c) ==
    /\ At(c, "begun")
    /\ Named(c)
    /\ Record(c) = NoRecord
    /\ db' = WithRecord(db, c, Pending)
    /\ tx' = db'
    /\ Goto(c, "inserted")
    /\ UNCHANGED <<lock, call, answer>>

Insert(c) ==
    /\ At(c, "begun")
    /\ Named(c)
    /\ Record(c) = NoRecord
    /\ tx' = WithRecord(tx, c, Pending)
    /\ Goto(c, "inserted")
    /\ UNCHANGED <<db, lock, call, answer>>

\* The method runs once the record is inserted, or at once without an id; its
\* own connect(write=True) joins the open transaction.
ReadyToRun(c) == At(c, "inserted") \/ (At(c, "begun") /\ ~Named(c))

\* Fault: the method commits a transaction of its own.
RunAlone(c) ==
    /\ ReadyToRun(c)
    /\ Len(tx.events) < MaxEvents
    /\ tx' = WithEvent(tx, "done", c)
    /\ db' = [events |-> tx'.events, record |-> db.record]
    /\ Goto(c, "ran")
    /\ UNCHANGED <<lock, call, answer>>

Run(c) ==
    /\ ReadyToRun(c)
    /\ Len(tx.events) < MaxEvents
    /\ tx' = WithEvent(tx, "done", c)
    /\ Goto(c, "ran")
    /\ UNCHANGED <<db, lock, call, answer>>

\* Fault: a transaction that failed is not rolled back.
FailOpen(c) ==
    /\ ReadyToRun(c)
    /\ Answer(c, "failed", 0)
    /\ UNCHANGED <<db, tx, lock, call>>

Fail(c) ==
    /\ ReadyToRun(c)
    /\ Answer(c, "failed", 0)
    /\ Rollback
    /\ UNCHANGED call

\* acquire_lease in a conflict: it emits lease.conflict, leaves its connect
\* block and raises.
RunRefused(c) ==
    /\ ReadyToRun(c)
    /\ Len(tx.events) < MaxEvents
    /\ tx' = WithEvent(tx, "refused", c)
    /\ Goto(c, "refused")
    /\ UNCHANGED <<db, lock, call, answer>>

\* Without an id the block was the transaction and has committed when the error
\* is raised; inside the transaction of an id the error rolls it back.
RaiseRefusal(c) ==
    /\ At(c, "refused")
    /\ IF Named(c) THEN Rollback ELSE Commit
    /\ Answer(c, "refused", Len(tx.events))
    /\ UNCHANGED call

StoreResponse(c) ==
    /\ At(c, "ran")
    /\ Named(c)
    /\ tx' = WithRecord(tx, c, Len(tx.events))
    /\ Goto(c, "stored")
    /\ UNCHANGED <<db, lock, call, answer>>

Finish(c) ==
    /\ At(c, "stored") \/ (At(c, "ran") /\ ~Named(c))
    /\ Commit
    /\ Answer(c, "done", Len(tx.events))
    /\ UNCHANGED call

\* The response leaves, whether or not it arrives.
Return(c) ==
    /\ At(c, "answered")
    /\ Goto(c, "idle")
    /\ call' = [call EXCEPT ![c] = NoCall]
    /\ answer' = [answer EXCEPT ![c] = NoAnswer]
    /\ UNCHANGED <<db, tx, lock>>

-------------------------------------------------------------------------------
(* The environment. *)

\* The caller's process dies: an open transaction is gone with it.
Crash(c) ==
    /\ ~At(c, "idle")
    /\ Goto(c, "idle")
    /\ call' = [call EXCEPT ![c] = NoCall]
    /\ answer' = [answer EXCEPT ![c] = NoAnswer]
    /\ IF lock = c THEN Rollback ELSE UNCHANGED <<db, tx, lock>>

\* enforce_idempotency_retention: the records older than the cutoff go, in a
\* write transaction of its own.
Retain(R) ==
    /\ lock = None
    /\ db' = [events |-> db.events,
              record |-> [r \in RequestIds |-> IF r \in R THEN NoRecord ELSE db.record[r]]]
    /\ tx' = db'
    /\ UNCHANGED <<lock, pc, call, answer>>

Step(c) ==
    \/ Begin(c) \/ TimeOut(c) \/ Replay(c) \/ Insert(c) \/ Run(c) \/ Fail(c)
    \/ RunRefused(c) \/ RaiseRefusal(c) \/ StoreResponse(c) \/ Finish(c) \/ Return(c)

Next ==
    \/ \E c \in Callers, r \in RequestIds \cup {None}, i \in Inputs : Send(c, r, i)
    \/ \E c \in Callers : Step(c) \/ Crash(c)
    \/ \E R \in SUBSET RequestIds : Retain(R)

Spec == Init /\ [][Next]_vars

\* A thread that has a request goes on until it has returned.
FairSpec == Spec /\ \A c \in Callers : WF_vars(Step(c))

-------------------------------------------------------------------------------
(* Properties. *)

\* The committed state implements the promise: an effect and the memory of it
\* appear together, and a remembered request has no second effect, whatever is
\* retried, lost, timed out or crashed.
Promise == INSTANCE ExactlyOnce WITH history <- db.events, memory <- db.record
ExactlyOnceKept == Promise!Spec

\* A success names an event that is committed and is the effect of the very
\* request answered, also when the answer is a replay after failed attempts or
\* after retention forgot an earlier execution.
AnswersAreTrue ==
    \A c \in Callers : answer[c].kind = "done" =>
        /\ answer[c].event \in 1..Len(db.events)
        /\ db.events[answer[c].event] = Event("done", c)

\* No caller meets the unfinished record of another one, so that
\* idempotency_in_progress is never answered and no id is stuck for good.
NoStuckRequest == \A c \in Callers : answer[c].kind # "in_progress"

\* A caller that fails, is refused, commits or dies gives the write lock back.
LockReturns == \A c \in Callers : (lock = c) ~> (lock # c)

\* Every request is answered (with "database is locked" if it waited too long)
\* or dies with its process; it does not wait for ever.
RequestsEnd == \A c \in Callers : At(c, "queued") ~> At(c, "idle")
===============================================================================
