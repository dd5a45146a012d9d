----------------------------- MODULE ExactlyOnce -----------------------------
(***************************************************************************)
(* What the idempotent writes of a Project promise, without transactions,  *)
(* locks, callers or failures.  A request that carries an id takes effect  *)
(* and is remembered in one step; while it is remembered it takes effect   *)
(* no more.                                                                *)
(***************************************************************************)
EXTENDS Naturals, Sequences

CONSTANTS RequestIds, Inputs, None

VARIABLES history,  \* the events of the Project, in the order of their numbers
          memory    \* what each request id is remembered for

Forgotten == [input |-> None, result |-> 0]
Event(kind, r, i) == [kind |-> kind, rid |-> r, input |-> i]

Init ==
    /\ history = <<>>
    /\ memory = [r \in RequestIds |-> Forgotten]

Perform(r, i) ==
    /\ memory[r] = Forgotten
    /\ history' = Append(history, Event("done", r, i))
    /\ memory' = [memory EXCEPT ![r] = [input |-> i, result |-> Len(history) + 1]]

PerformUnnamed(i) ==
    /\ history' = Append(history, Event("done", None, i))
    /\ UNCHANGED memory

\* A refusal leaves a trace only when the request carries no id.
Refuse(i) ==
    /\ history' = Append(history, Event("refused", None, i))
    /\ UNCHANGED memory

Forget(R) ==
    /\ memory' = [r \in RequestIds |-> IF r \in R THEN Forgotten ELSE memory[r]]
    /\ UNCHANGED history

Next ==
    \/ \E r \in RequestIds, i \in Inputs : Perform(r, i)
    \/ \E i \in Inputs : PerformUnnamed(i) \/ Refuse(i)
    \/ \E R \in SUBSET RequestIds : Forget(R)

vars == <<history, memory>>
Spec == Init /\ [][Next]_vars
===============================================================================
