------------------------------- MODULE EventLog -------------------------------
(***************************************************************************)
(* The events of one Project, numbered by project_seq: what the write      *)
(* transactions of services.py append, what retention removes, and the     *)
(* pages the readers select.                                               *)
(***************************************************************************)
EXTENDS Naturals, FiniteSets, FiniteSetsExt

CONSTANTS Sessions,
          None,
          PageLimit,     \* events per page of list_events
          MaxEvents      \* bound on the numbers that are given out

ASSUME LogAssumption ==
    /\ None \notin Sessions
    /\ PageLimit \in Nat \ {0}
    /\ MaxEvents \in Nat

VARIABLES events,      \* the rows that have not been purged
          nextValue    \* the row of event_number_sequences; 0 while there is none

log == <<events, nextValue>>

\* "message": message.message, .decision or .blocker, one that requires an
\* acknowledgement; "notice": whatever else the handlers append.
Kinds == {"message", "notice", "acknowledged", "purged"}
Rows == [seq : Nat \ {0}, kind : Kinds, by : Sessions \cup {None}, of : Nat]

LogTypeOK ==
    /\ events \subseteq Rows
    /\ nextValue \in Nat

LogInit ==
    /\ events = {}
    /\ nextValue = 0

Numbers(rows) == {e.seq : e \in rows}

\* COALESCE(MAX(project_seq), 0)
LatestOf(rows) == IF rows = {} THEN 0 ELSE Max(Numbers(rows))
Latest == LatestOf(events)

\* Fault: every number is derived from the events that are left.
NumberFromMaximum(rows) == LatestOf(rows) + 1

\* The sequence is seeded from the events when the first one is appended.
NextNumber(rows) == IF nextValue = 0 THEN LatestOf(rows) + 1 ELSE nextValue

\* Append one event to the rows that a transaction leaves.
Emit(rows, kind, by, of) ==
    LET n == NextNumber(rows) IN
    /\ n <= MaxEvents
    /\ events' = rows \cup {[seq |-> n, kind |-> kind, by |-> by, of |-> of]}
    /\ nextValue' = n + 1

\* Fault: retention leaves no trace.
PurgeSilently(c) ==
    /\ \E e \in events : e.seq < c
    /\ events' = {e \in events : e.seq >= c}
    /\ UNCHANGED nextValue

\* enforce_audit_retention: events are appended in the order of created_at, so
\* the expired ones come first; the purge that removed some is an event itself.
Purge(c) ==
    /\ \E e \in events : e.seq < c
    /\ Emit({e \in events : e.seq >= c}, "purged", None, 0)

Messages == {e \in events : e.kind = "message"}

\* WHERE project_seq > n ORDER BY project_seq ASC LIMIT PageLimit
PageAfter(n) ==
    {e \in events :
        /\ e.seq > n
        /\ Cardinality({f \in events : n < f.seq /\ f.seq < e.seq}) < PageLimit}

\* Every number that no event has was purged, and a purge that came later than
\* the missing event says so: purges of purge events included, the history has
\* no silent gap.
GapsExplained ==
    \A n \in 1..Latest :
        n \notin Numbers(events) => \E e \in events : e.kind = "purged" /\ e.seq > n
===============================================================================
