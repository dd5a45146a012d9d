---------------------------- MODULE RoomSyncProofs ----------------------------
(***************************************************************************)
(* Theorems of RoomSync for any sessions, requests, page sizes and limits, *)
(* on either database: numbers are never reused, cursors stay behind them, *)
(* retention is always explained and acknowledgements are single.          *)
(***************************************************************************)
EXTENDS RoomSync, FiniteSetTheorems, WellFoundedInduction, TLAPS

\* A bounded set of numbers that is not empty has a maximum.
LEMMA MaxOfNumbers ==
    ASSUME NEW T, T \subseteq Nat, T # {},
           NEW b \in Nat, \A t \in T : t <= b
    PROVE  Max(T) \in T /\ \A t \in T : t <= Max(T)
<1> DEFINE U == {b - t : t \in T}
<1>1. U \subseteq Nat /\ U # {}
  <2>1. \A t \in T : t \in Nat /\ b - t \in Nat
    OBVIOUS
  <2>2. PICK t \in T : TRUE
    OBVIOUS
  <2>3. b - t \in U
    OBVIOUS
  <2> QED
    BY <2>1, <2>3
<1>2. IsWellFoundedOn(OpToRel(<, Nat), Nat)
  BY NatLessThanWellFounded
<1>3. PICK m \in U : \A u \in U : ~(<<u, m>> \in OpToRel(<, Nat))
  <2> HIDE DEF U
  <2> QED
    BY <1>1, <1>2, WFMin
<1>4. PICK x \in T : m = b - x
  OBVIOUS
<1>5. \A t \in T : ~(b - t < m)
  BY <1>1, <1>3 DEF OpToRel
<1>6. \A t \in T : t <= x
  BY <1>4, <1>5
<1> QED
  BY <1>4, <1>6 DEF Max

-------------------------------------------------------------------------------
(* The inductive invariant. *)

\* Every event is numbered below the sequence, and the newest one is still in
\* the log: a purge is younger than all it removes.
Numbered ==
    /\ nextValue = 0 => events = {}
    /\ \A e \in events : e.seq < nextValue
    /\ nextValue # 0 => \E e \in events : e.seq + 1 = nextValue

\* A number that readers hold has been given out.
Given(n) == n = 0 \/ n < nextValue

CursorsGiven ==
    /\ \A s \in Sessions : Given(readCursor[s])
    /\ \A r \in Requests : Given(request[r].cursor) /\ \A n \in request[r].shown : Given(n)
    /\ \A a \in acks : Given(a[1])

Explained ==
    \A n \in Nat \ {0} :
        n < nextValue /\ n \notin Numbers(events)
            => \E e \in events : e.kind = "purged" /\ e.seq > n

Tells(e, n, s) == e.kind = "acknowledged" /\ e.by = s /\ e.of = n

\* An acknowledgement is younger than its message, and recorded as long as the
\* message is there.
AcksRecorded ==
    \A e \in events : e.kind = "acknowledged" =>
        /\ e.of < e.seq
        /\ e.by \in Sessions
        /\ <<e.of, e.by>> \in acks \/ e.of \notin Numbers(events)

AcksTold ==
    \A a \in acks :
        /\ a[1] \in Numbers(Messages)
        /\ \E e \in events : Tells(e, a[1], a[2])

AcksSingle ==
    \A e, f \in events :
        e.kind = "acknowledged" /\ f.kind = "acknowledged" /\ e.by = f.by /\ e.of = f.of
            => e = f

NumbersSingle == \A e, f \in events : e.seq = f.seq => e = f

IInv ==
    /\ TypeOK
    /\ Numbered
    /\ CursorsGiven
    /\ Explained
    /\ NumbersSingle
    /\ AcksRecorded
    /\ AcksTold
    /\ AcksSingle

-------------------------------------------------------------------------------
(* The log. *)

\* The newest number is the one before the next.
LEMMA LatestIs ==
    ASSUME LogTypeOK, Numbered
    PROVE  /\ Latest \in Nat
           /\ Given(Latest)
           /\ nextValue # 0 => Latest + 1 = nextValue
           /\ NextNumber(events) = IF nextValue = 0 THEN 1 ELSE nextValue
<1>1. CASE nextValue = 0
  <2>1. events = {}
    BY <1>1 DEF Numbered
  <2> QED
    BY <1>1, <2>1 DEF Latest, LatestOf, Given, NextNumber
<1>2. CASE nextValue # 0
  <2>1. PICK e \in events : e.seq + 1 = nextValue
    BY <1>2 DEF Numbered
  <2>2. Numbers(events) \subseteq Nat /\ e.seq \in Numbers(events)
    BY DEF Numbers, LogTypeOK, Rows
  <2>3. \A n \in Numbers(events) : n <= e.seq
    <3> TAKE n \in Numbers(events)
    <3>1. PICK f \in events : n = f.seq
      BY DEF Numbers
    <3> QED
      BY <2>1, <3>1 DEF Numbered, LogTypeOK, Rows
  <2>4. Max(Numbers(events)) \in Numbers(events)
        /\ \A n \in Numbers(events) : n <= Max(Numbers(events))
    BY <2>2, <2>3, MaxOfNumbers
  <2>5. Max(Numbers(events)) = e.seq
    BY <2>2, <2>3, <2>4
  <2>6. Latest = e.seq /\ e.seq \in Nat
    BY <2>2, <2>5 DEF Latest, LatestOf, Numbers
  <2> QED
    BY <1>2, <2>1, <2>6 DEF Given, NextNumber, LogTypeOK
<1> QED
  BY <1>1, <1>2

\* What one more event after the removal of those before c does to the log.
LEMMA EmitStep ==
    ASSUME IInv, NEW c \in Nat, NEW kind \in Kinds, NEW by \in Sessions \cup {None},
           NEW of \in Nat,
           Emit({e \in events : e.seq >= c}, kind, by, of),
           c > 1 => nextValue # 0,
           c > 1 => kind = "purged"
    PROVE  /\ LogTypeOK'
           /\ Numbered'
           /\ NumbersSingle'
           /\ Explained'
           /\ nextValue' \in Nat /\ nextValue' # 0
           /\ \A n \in Nat : Given(n) => n < nextValue'
           /\ \E e \in events' : /\ e = [seq |-> NextNumber(events), kind |-> kind,
                                         by |-> by, of |-> of]
                                 /\ e.seq + 1 = nextValue'
                                 /\ \A f \in events : f.seq < e.seq
                                 /\ events' = {f \in events : f.seq >= c} \cup {e}
<1> DEFINE kept == {e \in events : e.seq >= c}
           n == NextNumber(events)
           e == [seq |-> n, kind |-> kind, by |-> by, of |-> of]
<1> USE DEF IInv
<1>1. NextNumber(kept) = n /\ n \in Nat \ {0}
  <2>1. n = IF nextValue = 0 THEN 1 ELSE nextValue
    BY LatestIs DEF TypeOK
  <2>2. CASE nextValue = 0
    <3>1. kept = {} /\ events = {}
      BY <2>2 DEF Numbered
    <3> QED
      BY <2>1, <2>2, <3>1
  <2>3. CASE nextValue # 0
    BY <2>1, <2>3 DEF NextNumber, TypeOK, LogTypeOK
  <2> QED
    BY <2>2, <2>3
<1>2. /\ events' = kept \cup {e}
      /\ nextValue' = n + 1
  BY <1>1 DEF Emit
<1>3. nextValue = 0 \/ n = nextValue
  BY DEF NextNumber
<1>4. \A f \in events : f.seq < n /\ f.seq \in Nat /\ f.seq # 0
  BY <1>3 DEF Numbered, TypeOK, LogTypeOK, Rows
<1>5. e \in Rows /\ e.seq = n
  BY <1>1 DEF Rows
<1>6. LogTypeOK'
  BY <1>1, <1>2, <1>5 DEF TypeOK, LogTypeOK
<1>7. Numbered'
  BY <1>1, <1>2, <1>4, <1>5 DEF Numbered
<1>8. NumbersSingle'
  BY <1>1, <1>2, <1>4, <1>5 DEF NumbersSingle
<1>9. Explained'
  <2> SUFFICES ASSUME NEW i \in Nat \ {0}, i < nextValue', i \notin Numbers(events')
               PROVE  \E f \in events' : f.kind = "purged" /\ f.seq > i
    BY DEF Explained
  <2>1. i # n
    BY <1>2, <1>5 DEF Numbers
  <2>2. i < n
    BY <1>1, <1>2, <2>1
  <2>3. CASE kind = "purged"
    BY <1>2, <1>5, <2>2, <2>3
  <2>4. CASE kind # "purged"
    <3>1. c <= 1
      BY <2>4
    <3>2. kept = events
      BY <1>4, <3>1
    <3>3. i \notin Numbers(events)
      BY <1>2, <3>2 DEF Numbers
    <3>4. i < nextValue
      <4>1. CASE nextValue = 0
        <5>1. n = 1
          BY <4>1, LatestIs DEF TypeOK
        <5> QED
          BY <2>2, <5>1
      <4> QED
        BY <1>3, <2>2, <4>1
    <3> QED
      BY <1>2, <3>2, <3>3, <3>4 DEF Explained
  <2> QED
    BY <2>3, <2>4
<1>10. \A i \in Nat : Given(i) => i < nextValue'
  BY <1>1, <1>2, <1>3 DEF Given, TypeOK, LogTypeOK
<1> QED
  BY <1>1, <1>2, <1>4, <1>5, <1>6, <1>7, <1>8, <1>9, <1>10

\* Without a purge the removal is empty.
LEMMA AllKept ==
    ASSUME LogTypeOK
    PROVE  {e \in events : e.seq >= 0} = events
BY DEF LogTypeOK, Rows

\* Readers' numbers stay given when the sequence moves on.
LEMMA StillGiven ==
    ASSUME IInv, \A n \in Nat : Given(n) => n < nextValue'
    PROVE  \A n \in Nat : Given(n) => Given(n)'
BY DEF Given

\* A handler that appends one event, no acknowledgement, and removes nothing.
LEMMA PlainEmit ==
    ASSUME IInv, NEW kind \in {"message", "notice"},
           Emit(events, kind, None, 0), acks' = acks
    PROVE  /\ LogTypeOK' /\ Numbered' /\ NumbersSingle' /\ Explained'
           /\ AcksRecorded' /\ AcksTold' /\ AcksSingle'
           /\ nextValue' \in Nat /\ nextValue' = NextNumber(events) + 1
           /\ \A n \in Nat : Given(n) => n < nextValue'
<1> USE DEF IInv
<1>1. LogTypeOK
  BY DEF TypeOK
<1>2. Emit({e \in events : e.seq >= 0}, kind, None, 0)
  BY <1>1, AllKept
<1>3. kind \in Kinds /\ kind # "acknowledged"
  BY DEF Kinds
<1>4. /\ LogTypeOK' /\ Numbered' /\ NumbersSingle' /\ Explained'
      /\ nextValue' \in Nat
      /\ \A n \in Nat : Given(n) => n < nextValue'
  BY <1>2, <1>3, EmitStep
<1>5. PICK e \in events' :
        /\ e = [seq |-> NextNumber(events), kind |-> kind, by |-> None, of |-> 0]
        /\ e.seq + 1 = nextValue'
        /\ \A f \in events : f.seq < e.seq
        /\ events' = {f \in events : f.seq >= 0} \cup {e}
  BY <1>2, <1>3, EmitStep
<1>6. events' = events \cup {e} /\ e.kind # "acknowledged"
  BY <1>1, <1>3, <1>5, AllKept
<1>7. AcksSingle'
  BY <1>6 DEF AcksSingle
<1>8. AcksRecorded'
  <2> SUFFICES ASSUME NEW f \in events', f.kind = "acknowledged"
               PROVE  /\ f.of < f.seq
                      /\ f.by \in Sessions
                      /\ <<f.of, f.by>> \in acks \/ f.of \notin Numbers(events')
    BY DEF AcksRecorded
  <2>1. f \in events
    BY <1>6
  <2>2. f.of < f.seq /\ f.seq < e.seq /\ f.of \in Nat /\ f.seq \in Nat /\ e.seq \in Nat
    BY <1>1, <1>4, <1>5, <2>1 DEF AcksRecorded, LogTypeOK, Rows
  <2>3. f.of # e.seq
    BY <2>2
  <2>4. f.of \in Numbers(events') => f.of \in Numbers(events)
    BY <1>6, <2>3 DEF Numbers
  <2> QED
    BY <2>1, <2>4 DEF AcksRecorded
<1>9. AcksTold'
  <2> SUFFICES ASSUME NEW a \in acks
               PROVE  /\ a[1] \in Numbers(Messages)'
                      /\ \E f \in events' : Tells(f, a[1], a[2])
    BY DEF AcksTold, Tells
  <2>1. a[1] \in Numbers(Messages) /\ \E f \in events : Tells(f, a[1], a[2])
    BY DEF AcksTold
  <2> QED
    BY <1>6, <2>1 DEF Numbers, Messages
<1> QED
  BY <1>4, <1>5, <1>7, <1>8, <1>9

LEMMA PostStep == ASSUME IInv, PostMessage PROVE IInv'
<1> USE DEF IInv, PostMessage, members
<1>1. PICK kind \in {"message", "notice"} : Emit(events, kind, None, 0) /\ acks' = acks
  OBVIOUS
<1>2. /\ LogTypeOK' /\ Numbered' /\ NumbersSingle' /\ Explained'
      /\ AcksRecorded' /\ AcksTold' /\ AcksSingle'
      /\ \A n \in Nat : Given(n) => n < nextValue'
  BY <1>1, PlainEmit
<1>3. TypeOK'
  BY <1>2 DEF TypeOK
<1>4. CursorsGiven'
  BY <1>2, StillGiven DEF CursorsGiven, TypeOK, RequestTypes
<1> QED
  BY <1>2, <1>3, <1>4

LEMMA JoinStep == ASSUME IInv, NEW s \in Sessions, JoinRoom(s) PROVE IInv'
<1> USE DEF IInv, JoinRoom
<1>1. PICK kind \in {"message", "notice"} : Emit(events, kind, None, 0) /\ acks' = acks
  OBVIOUS
<1>2. /\ LogTypeOK' /\ Numbered' /\ NumbersSingle' /\ Explained'
      /\ AcksRecorded' /\ AcksTold' /\ AcksSingle'
      /\ nextValue' = NextNumber(events) + 1
      /\ \A n \in Nat : Given(n) => n < nextValue'
  BY <1>1, PlainEmit
<1>3. NextNumber(events) \in Nat
  BY LatestIs DEF TypeOK, LogTypeOK
<1>4. TypeOK'
  BY <1>2, <1>3 DEF TypeOK
<1>5. CursorsGiven'
  <2>1. \A t \in Sessions : Given(readCursor[t])'
    <3> TAKE t \in Sessions
    <3>1. CASE t = s
      <4>1. readCursor'[t] = NextNumber(events)
        BY <3>1 DEF TypeOK
      <4> QED
        BY <1>2, <1>3, <4>1 DEF Given
    <3>2. CASE t # s
      BY <1>2, <3>2, StillGiven DEF CursorsGiven, TypeOK
    <3> QED
      BY <3>1, <3>2
  <2>2. /\ \A r \in Requests : Given(request[r].cursor)' /\ \A n \in request[r].shown : Given(n)'
        /\ \A a \in acks : Given(a[1])'
    BY <1>2, StillGiven DEF CursorsGiven, TypeOK, RequestTypes
  <2> QED
    BY <2>1, <2>2 DEF CursorsGiven
<1> QED
  BY <1>2, <1>4, <1>5

LEMMA AcknowledgeStep ==
    ASSUME IInv, NEW s \in Sessions, NEW n \in Nat, Acknowledge(s, n)
    PROVE  IInv'
<1> USE DEF IInv, Acknowledge
<1>1. LogTypeOK
  BY DEF TypeOK
<1>2. Emit({e \in events : e.seq >= 0}, "acknowledged", s, n)
  BY <1>1, AllKept
<1>3. "acknowledged" \in Kinds
  BY DEF Kinds
<1>4. /\ LogTypeOK' /\ Numbered' /\ NumbersSingle' /\ Explained'
      /\ nextValue' \in Nat
      /\ \A i \in Nat : Given(i) => i < nextValue'
  BY <1>2, <1>3, EmitStep
<1>5. PICK e \in events' :
        /\ e = [seq |-> NextNumber(events), kind |-> "acknowledged", by |-> s, of |-> n]
        /\ e.seq + 1 = nextValue'
        /\ \A f \in events : f.seq < e.seq
        /\ events' = {f \in events : f.seq >= 0} \cup {e}
  BY <1>2, <1>3, EmitStep
<1>6. events' = events \cup {e} /\ Tells(e, n, s) /\ e.seq \in Nat
  BY <1>1, <1>4, <1>5, AllKept DEF Tells, LogTypeOK, Rows
<1>7. PICK m \in events : m.kind = "message" /\ m.seq = n
  BY DEF Numbers, Messages
<1>8. \A f \in events : f.seq \in Nat /\ f.of \in Nat
  BY <1>1 DEF LogTypeOK, Rows
<1>9. AcksRecorded'
  <2> SUFFICES ASSUME NEW f \in events', f.kind = "acknowledged"
               PROVE  /\ f.of < f.seq
                      /\ f.by \in Sessions
                      /\ <<f.of, f.by>> \in acks' \/ f.of \notin Numbers(events')
    BY DEF AcksRecorded
  <2>1. CASE f = e
    BY <1>5, <1>6, <1>7, <2>1
  <2>2. CASE f \in events
    <3>1. f.of < f.seq /\ f.seq < e.seq
      BY <1>5, <2>2 DEF AcksRecorded
    <3>2. f.of # e.seq
      BY <1>6, <1>8, <2>2, <3>1
    <3>3. f.of \in Numbers(events') => f.of \in Numbers(events)
      BY <1>6, <3>2 DEF Numbers
    <3> QED
      BY <2>2, <3>3 DEF AcksRecorded
  <2> QED
    BY <1>6, <2>1, <2>2
<1>10. AcksTold'
  <2> SUFFICES ASSUME NEW a \in acks'
               PROVE  /\ a[1] \in Numbers(Messages)'
                      /\ \E f \in events' : Tells(f, a[1], a[2])
    BY DEF AcksTold, Tells
  <2>1. CASE a = <<n, s>>
    BY <1>6, <1>7, <2>1 DEF Numbers, Messages
  <2>2. CASE a \in acks
    BY <1>6, <2>2 DEF AcksTold, Numbers, Messages
  <2> QED
    BY <2>1, <2>2
<1>11. AcksSingle'
  <2>1. \A f \in events : ~(f.kind = "acknowledged" /\ f.by = s /\ f.of = n)
    BY <1>7 DEF AcksRecorded, Numbers
  <2> QED
    BY <1>5, <1>6, <2>1 DEF AcksSingle
<1>12. TypeOK'
  BY <1>4 DEF TypeOK
<1>13. CursorsGiven'
  <2>1. \A a \in acks' : Given(a[1])'
    <3>1. Given(n)
      BY <1>7 DEF Numbered, Given
    <3> QED
      BY <1>4, <3>1, StillGiven DEF CursorsGiven, TypeOK
  <2>2. /\ \A t \in Sessions : Given(readCursor[t])'
        /\ \A r \in Requests : Given(request[r].cursor)' /\ \A i \in request[r].shown : Given(i)'
    BY <1>4, StillGiven DEF CursorsGiven, TypeOK, RequestTypes
  <2> QED
    BY <2>1, <2>2 DEF CursorsGiven
<1> QED
  BY <1>4, <1>9, <1>10, <1>11, <1>12, <1>13

LEMMA RetainStep == ASSUME IInv, NEW c \in Nat, Retain(c) PROVE IInv'
<1> USE DEF IInv, Retain
<1>1. LogTypeOK
  BY DEF TypeOK
<1>2. PICK old \in events : old.seq < c
  BY DEF Purge
<1>3. Emit({e \in events : e.seq >= c}, "purged", None, 0) /\ nextValue # 0 /\ "purged" \in Kinds
  BY <1>2 DEF Purge, Numbered, Kinds
<1>4. /\ LogTypeOK' /\ Numbered' /\ NumbersSingle' /\ Explained'
      /\ nextValue' \in Nat
      /\ \A i \in Nat : Given(i) => i < nextValue'
  BY <1>3, EmitStep
<1>5. PICK e \in events' :
        /\ e = [seq |-> NextNumber(events), kind |-> "purged", by |-> None, of |-> 0]
        /\ \A f \in events : f.seq < e.seq
        /\ events' = {f \in events : f.seq >= c} \cup {e}
  BY <1>3, EmitStep
<1>6. \A f \in events' : f.kind # "purged" => f \in events /\ f.seq >= c
  BY <1>5
<1>7. AcksRecorded'
  <2> SUFFICES ASSUME NEW f \in events', f.kind = "acknowledged"
               PROVE  /\ f.of < f.seq
                      /\ f.by \in Sessions
                      /\ <<f.of, f.by>> \in acks' \/ f.of \notin Numbers(events')
    BY DEF AcksRecorded
  <2>1. f \in events /\ f.of < f.seq /\ f.seq < e.seq /\ f.of \in Nat /\ f.seq \in Nat /\ e.seq \in Nat
    BY <1>1, <1>4, <1>5, <1>6 DEF AcksRecorded, LogTypeOK, Rows
  <2>2. f.of \in Numbers(events') => f.of \in Numbers(events) /\ f.of >= c
    <3> SUFFICES ASSUME NEW g \in events', g.seq = f.of
                 PROVE  f.of \in Numbers(events) /\ f.of >= c
      BY DEF Numbers
    <3>1. g # e
      BY <2>1
    <3> QED
      BY <1>5, <3>1 DEF Numbers
  <2> QED
    BY <2>1, <2>2 DEF AcksRecorded
<1>8. AcksTold'
  <2> SUFFICES ASSUME NEW a \in acks'
               PROVE  /\ a[1] \in Numbers(Messages)'
                      /\ \E f \in events' : Tells(f, a[1], a[2])
    BY DEF AcksTold, Tells
  <2>1. a \in acks /\ a[1] >= c
    OBVIOUS
  <2>2. PICK m \in events : m.kind = "message" /\ m.seq = a[1]
    BY <2>1 DEF AcksTold, Numbers, Messages
  <2>3. m \in events'
    BY <1>5, <2>1, <2>2
  <2>4. PICK f \in events : Tells(f, a[1], a[2])
    BY <2>1 DEF AcksTold
  <2>5. f.of < f.seq /\ f.of = a[1] /\ f.of \in Nat /\ f.seq \in Nat
    BY <1>1, <2>4 DEF Tells, AcksRecorded, LogTypeOK, Rows
  <2>6. f \in events'
    BY <1>5, <2>1, <2>5
  <2> QED
    BY <2>2, <2>3, <2>4, <2>6 DEF Numbers, Messages
<1>9. AcksSingle'
  BY <1>6 DEF AcksSingle
<1>10. TypeOK'
  BY <1>4 DEF TypeOK
<1>11. CursorsGiven'
  BY <1>4, StillGiven DEF CursorsGiven, TypeOK, RequestTypes
<1> QED
  BY <1>4, <1>7, <1>8, <1>9, <1>10, <1>11

-------------------------------------------------------------------------------
(* The syncs. *)

\* A step that leaves the log and the acknowledgements alone.
LEMMA LogUntouched ==
    ASSUME IInv, UNCHANGED <<events, nextValue, acks>>
    PROVE  /\ LogTypeOK' /\ Numbered' /\ NumbersSingle' /\ Explained'
           /\ AcksRecorded' /\ AcksTold' /\ AcksSingle'
           /\ \A n \in Nat : Given(n)' <=> Given(n)
           /\ \A a \in acks' : Given(a[1])'
<1> USE DEF IInv, TypeOK
<1>1. LogTypeOK' /\ Numbered' /\ NumbersSingle' /\ Explained'
  BY DEF LogTypeOK, Numbered, NumbersSingle, Explained, Numbers
<1>2. AcksRecorded' /\ AcksTold' /\ AcksSingle'
  BY DEF AcksRecorded, AcksTold, AcksSingle, Numbers, Messages, Tells
<1>3. (\A n \in Nat : Given(n)' <=> Given(n)) /\ \A a \in acks' : Given(a[1])'
  BY DEF Given, CursorsGiven
<1> QED
  BY <1>1, <1>2, <1>3

\* What a sync selects are numbers of the log.
LEMMA ShownGiven ==
    ASSUME IInv, NEW mode, NEW n
    PROVE  /\ Numbers(ShownAfter(mode, n)) \subseteq Nat
           /\ \A i \in Numbers(ShownAfter(mode, n)) : Given(i)
<1>1. ShownAfter(mode, n) \subseteq events
  BY DEF ShownAfter, PageAfter, NewestAfter, Messages
<1> QED
  BY <1>1 DEF IInv, TypeOK, LogTypeOK, Rows, Numbers, Numbered, Given

LEMMA SelectEventsStep ==
    ASSUME IInv, NEW r \in Requests, NEW s \in Sessions, NEW mode \in Modes,
           NEW after \in Nat, SelectEvents(r, s, mode, after)
    PROVE  IInv'
<1> USE DEF IInv, SelectEvents, log, members
<1> DEFINE base == EffectiveAfter(s, mode, after)
           q == [stage |-> "selected", sess |-> s, mode |-> mode, after |-> after,
                 base |-> base, shown |-> Numbers(ShownAfter(mode, base)),
                 cursor |-> Latest]
<1>1. base \in Nat
  BY DEF EffectiveAfter, TypeOK
<1>2. Latest \in Nat /\ Given(Latest)
  BY LatestIs DEF TypeOK
<1>3. q \in RequestTypes
  BY <1>1, <1>2, ShownGiven DEF RequestTypes, Stages
<1>4. request' = [request EXCEPT ![r] = q]
  OBVIOUS
<1>5. UNCHANGED <<events, nextValue, acks, readCursor, joinedAt, told>>
  OBVIOUS
<1>6. /\ LogTypeOK' /\ Numbered' /\ NumbersSingle' /\ Explained'
      /\ AcksRecorded' /\ AcksTold' /\ AcksSingle'
      /\ \A n \in Nat : Given(n)' <=> Given(n)
      /\ \A a \in acks' : Given(a[1])'
  BY <1>5, LogUntouched
<1>7. TypeOK'
  BY <1>3, <1>4, <1>5, <1>6 DEF TypeOK
<1>8. \A p \in Requests :
        Given(request[p].cursor)' /\ \A n \in (request[p].shown)' : Given(n)'
  <2> TAKE p \in Requests
  <2>1. CASE p = r
    <3>1. request'[p] = q
      BY <1>4, <2>1 DEF TypeOK
    <3>2. \A n \in q.shown : n \in Nat /\ Given(n)
      BY ShownGiven
    <3> QED
      BY <1>2, <1>6, <3>1, <3>2
  <2>2. CASE p # r
    BY <1>4, <1>6, <2>2 DEF CursorsGiven, TypeOK, RequestTypes
  <2> QED
    BY <2>1, <2>2
<1>9. \A t \in Sessions : Given(readCursor[t])'
  BY <1>5, <1>6 DEF CursorsGiven, TypeOK
<1> QED
  BY <1>6, <1>7, <1>8, <1>9 DEF CursorsGiven

\* The cursor of an answer is a number that has been given out.
LEMMA AnswerGiven ==
    ASSUME IInv, NEW r \in Requests, NEW latest \in Nat, Given(latest)
    PROVE  AnswerCursor(r, latest) \in Nat /\ Given(AnswerCursor(r, latest))
<1> DEFINE q == request[r]
           last == IF q.shown = {} THEN q.after ELSE Max(q.shown)
<1>1. q.shown \subseteq Nat /\ q.after \in Nat /\ nextValue \in Nat
  BY DEF IInv, TypeOK, RequestTypes, LogTypeOK
<1>2. last \in Nat
  <2>1. CASE q.shown = {}
    BY <1>1, <2>1
  <2>2. CASE q.shown # {}
    <3>1. \A n \in q.shown : n <= nextValue
      BY <1>1 DEF IInv, CursorsGiven, Given
    <3>2. Max(q.shown) \in q.shown
      BY <1>1, <2>2, <3>1, MaxOfNumbers
    <3> QED
      BY <1>1, <2>2, <3>2
  <2> QED
    BY <2>1, <2>2
<1>3. last <= latest => Given(last)
  BY <1>1, <1>2 DEF Given
<1>4. AnswerCursor(r, latest) = IF q.mode # "page" THEN latest
                                ELSE IF last <= latest THEN last ELSE latest
  BY DEF AnswerCursor
<1> HIDE DEF last
<1> QED
  BY <1>2, <1>3, <1>4

LEMMA SelectLatestStep ==
    ASSUME IInv, NEW r \in Requests, SelectLatest(r)
    PROVE  IInv'
<1> DEFINE latest == IF SnapshotReads THEN request[r].cursor ELSE Latest
           read == AnswerCursor(r, latest)
<1>1. latest \in Nat /\ Given(latest)
  BY LatestIs DEF IInv, TypeOK, RequestTypes, CursorsGiven
<1>2. read \in Nat /\ Given(read)
  <2> HIDE DEF latest
  <2> QED
    BY <1>1, AnswerGiven
<1>3. request' = [request EXCEPT ![r].stage = "read", ![r].cursor = read]
  BY DEF SelectLatest
<1>4. UNCHANGED <<events, nextValue, acks, readCursor, joinedAt, told>>
  BY DEF SelectLatest, log, members
<1> HIDE DEF read
<1>5. /\ LogTypeOK' /\ Numbered' /\ NumbersSingle' /\ Explained'
      /\ AcksRecorded' /\ AcksTold' /\ AcksSingle'
      /\ \A n \in Nat : Given(n)' <=> Given(n)
      /\ \A a \in acks' : Given(a[1])'
  BY <1>4, LogUntouched
<1>6. TypeOK'
  BY <1>2, <1>3, <1>4, <1>5 DEF IInv, TypeOK, RequestTypes, Stages
<1>7. \A p \in Requests :
        Given(request[p].cursor)' /\ \A n \in (request[p].shown)' : Given(n)'
  <2> TAKE p \in Requests
  <2>1. request'[p].shown = request[p].shown
    BY <1>3 DEF IInv, TypeOK, RequestTypes
  <2>2. request'[p].cursor = IF p = r THEN read ELSE request[p].cursor
    BY <1>3 DEF IInv, TypeOK, RequestTypes
  <2>3. /\ request[p].cursor \in Nat /\ Given(request[p].cursor)
        /\ \A n \in request[p].shown : n \in Nat /\ Given(n)
    BY DEF IInv, TypeOK, RequestTypes, CursorsGiven
  <2> QED
    BY <1>2, <1>5, <2>1, <2>2, <2>3
<1>8. \A t \in Sessions : Given(readCursor[t])'
  BY <1>4, <1>5 DEF IInv, CursorsGiven, TypeOK
<1> QED
  BY <1>5, <1>6, <1>7, <1>8 DEF IInv, CursorsGiven

\* An idle request holds nothing.
LEMMA IdleGiven == Idle \in RequestTypes /\ Idle.shown = {} /\ Given(Idle.cursor)
BY DEF Idle, RequestTypes, Stages, Modes, Given

LEMMA StoreCursorStep ==
    ASSUME IInv, NEW r \in Requests, StoreCursor(r)
    PROVE  IInv'
<1> DEFINE q == request[r]
<1>1. UNCHANGED <<events, nextValue, acks, joinedAt>>
  BY DEF StoreCursor, log
<1>2. /\ readCursor' = [readCursor EXCEPT ![q.sess] = Advanced(@, q.cursor)]
      /\ told' = [told EXCEPT ![q.sess] = @ \cup Covered(q)]
      /\ request' = [request EXCEPT ![r] = Idle]
  BY DEF StoreCursor
<1>3. /\ LogTypeOK' /\ Numbered' /\ NumbersSingle' /\ Explained'
      /\ AcksRecorded' /\ AcksTold' /\ AcksSingle'
      /\ \A n \in Nat : Given(n)' <=> Given(n)
      /\ \A a \in acks' : Given(a[1])'
  BY <1>1, LogUntouched
<1>4. Covered(q) \subseteq Nat
  BY DEF Covered, Messages, IInv, TypeOK, LogTypeOK, Rows
<1>5. \A t \in Sessions : readCursor'[t] \in Nat /\ Given(readCursor'[t])
  <2> TAKE t \in Sessions
  <2>1. readCursor'[t] = IF t = q.sess THEN Advanced(readCursor[t], q.cursor)
                         ELSE readCursor[t]
    BY <1>2 DEF IInv, TypeOK
  <2>2. /\ readCursor[t] \in Nat /\ Given(readCursor[t])
        /\ q.cursor \in Nat /\ Given(q.cursor)
    BY DEF IInv, TypeOK, RequestTypes, CursorsGiven
  <2> QED
    BY <2>1, <2>2 DEF Advanced
<1>6. TypeOK'
  <2>1. readCursor' \in [Sessions -> Nat]
    BY <1>2, <1>5 DEF IInv, TypeOK
  <2>2. told' \in [Sessions -> SUBSET Nat]
    BY <1>2, <1>4 DEF IInv, TypeOK
  <2>3. request' \in [Requests -> RequestTypes]
    BY <1>2, IdleGiven DEF IInv, TypeOK
  <2> QED
    BY <1>1, <1>3, <2>1, <2>2, <2>3 DEF IInv, TypeOK
<1>7. \A p \in Requests :
        Given(request[p].cursor)' /\ \A n \in (request[p].shown)' : Given(n)'
  BY <1>1, <1>2, <1>3, IdleGiven DEF IInv, TypeOK, RequestTypes, CursorsGiven, Given
<1>8. \A t \in Sessions : Given(readCursor[t])'
  BY <1>3, <1>5
<1> QED
  BY <1>3, <1>6, <1>7, <1>8 DEF IInv, CursorsGiven

LEMMA AbandonStep ==
    ASSUME IInv, NEW r \in Requests, Abandon(r)
    PROVE  IInv'
<1>1. UNCHANGED <<events, nextValue, acks, readCursor, joinedAt, told>>
  BY DEF Abandon, log, members
<1>2. request' = [request EXCEPT ![r] = Idle]
  BY DEF Abandon
<1>3. /\ LogTypeOK' /\ Numbered' /\ NumbersSingle' /\ Explained'
      /\ AcksRecorded' /\ AcksTold' /\ AcksSingle'
      /\ \A n \in Nat : Given(n)' <=> Given(n)
      /\ \A a \in acks' : Given(a[1])'
  BY <1>1, LogUntouched
<1>4. TypeOK'
  BY <1>1, <1>2, <1>3, IdleGiven DEF IInv, TypeOK
<1>5. CursorsGiven'
  BY <1>1, <1>2, <1>3, IdleGiven DEF IInv, TypeOK, RequestTypes, CursorsGiven, Given
<1> QED
  BY <1>3, <1>4, <1>5 DEF IInv

-------------------------------------------------------------------------------
(* The theorems. *)

LEMMA InitIInv == Init => IInv
<1> SUFFICES ASSUME Init PROVE IInv
  OBVIOUS
<1> USE DEF Init, LogInit
<1>1. TypeOK
  BY IdleGiven DEF TypeOK, LogTypeOK
<1>2. Numbered /\ NumbersSingle /\ AcksRecorded /\ AcksTold /\ AcksSingle
  BY DEF Numbered, NumbersSingle, AcksRecorded, AcksTold, AcksSingle
<1>3. CursorsGiven
  BY IdleGiven DEF CursorsGiven, Given
<1>4. Explained
  BY DEF Explained
<1> QED
  BY <1>1, <1>2, <1>3, <1>4 DEF IInv

LEMMA NextIInv == IInv /\ [Next]_vars => IInv'
<1> SUFFICES ASSUME IInv, [Next]_vars PROVE IInv'
  OBVIOUS
<1>1. CASE PostMessage
  BY <1>1, PostStep
<1>2. ASSUME NEW s \in Sessions, JoinRoom(s) PROVE IInv'
  BY <1>2, JoinStep
<1>3. ASSUME NEW s \in Sessions, NEW n \in 1..MaxEvents, Acknowledge(s, n) PROVE IInv'
  <2>1. n \in Nat
    BY <1>3, LogAssumption
  <2> QED
    BY <1>3, <2>1, AcknowledgeStep
<1>4. ASSUME NEW c \in 1..(MaxEvents + 1), Retain(c) PROVE IInv'
  <2>1. c \in Nat
    BY <1>4, LogAssumption
  <2> QED
    BY <1>4, <2>1, RetainStep
<1>5. ASSUME NEW r \in Requests, NEW s \in Sessions, NEW mode \in Modes,
             NEW after \in 0..MaxEvents, SelectEvents(r, s, mode, after)
      PROVE  IInv'
  <2>1. after \in Nat
    BY <1>5, LogAssumption
  <2> QED
    BY <1>5, <2>1, SelectEventsStep
<1>6. ASSUME NEW r \in Requests, SelectLatest(r) PROVE IInv'
  BY <1>6, SelectLatestStep
<1>7. ASSUME NEW r \in Requests, StoreCursor(r) PROVE IInv'
  BY <1>7, StoreCursorStep
<1>8. ASSUME NEW r \in Requests, Abandon(r) PROVE IInv'
  BY <1>8, AbandonStep
<1>9. CASE UNCHANGED vars
  <2>1. UNCHANGED <<events, nextValue, acks, readCursor, joinedAt, told, request>>
    BY <1>9 DEF vars
  <2>2. /\ LogTypeOK' /\ Numbered' /\ NumbersSingle' /\ Explained'
        /\ AcksRecorded' /\ AcksTold' /\ AcksSingle'
    BY <2>1, LogUntouched
  <2>3. TypeOK' /\ CursorsGiven'
    BY <2>1, <2>2 DEF IInv, TypeOK, CursorsGiven, Given
  <2> QED
    BY <2>2, <2>3 DEF IInv
<1> QED
  BY <1>1, <1>2, <1>3, <1>4, <1>5, <1>6, <1>7, <1>8, <1>9 DEF Next

\* The number of an event that a step appends is beyond every number given out.
LEMMA AppendedAhead ==
    ASSUME IInv, [Next]_vars, NEW e \in events' \ events
    PROVE  /\ \A i \in Nat : Given(i) => i < e.seq
           /\ \A f \in events : f.seq < e.seq
<1>1. PICK kept \in SUBSET events, kind \in Kinds, by \in Sessions \cup {None}, of \in Nat :
        /\ Emit(kept, kind, by, of)
        /\ nextValue = 0 => kept = events
  <2>1. CASE PostMessage
    BY <2>1 DEF PostMessage, Kinds
  <2>2. CASE \E s \in Sessions : JoinRoom(s)
    BY <2>2 DEF JoinRoom, Kinds
  <2>3. CASE \E s \in Sessions, n \in 1..MaxEvents : Acknowledge(s, n)
    <3>1. PICK s \in Sessions, n \in 1..MaxEvents : Acknowledge(s, n)
      BY <2>3
    <3>2. n \in Nat /\ Emit(events, "acknowledged", s, n)
      BY <3>1, LogAssumption DEF Acknowledge
    <3> QED
      BY <3>2 DEF Kinds
  <2>4. CASE \E c \in 1..(MaxEvents + 1) : Retain(c)
    <3>1. PICK c \in 1..(MaxEvents + 1) : Retain(c)
      BY <2>4
    <3>2. Emit({f \in events : f.seq >= c}, "purged", None, 0) /\ events # {}
      BY <3>1 DEF Retain, Purge
    <3>3. nextValue # 0
      BY <3>2 DEF IInv, Numbered
    <3> QED
      BY <3>2, <3>3 DEF Kinds
  <2>5. CASE UNCHANGED events
    BY <2>5
  <2>6. PostMessage \/ (\E s \in Sessions : JoinRoom(s))
          \/ (\E s \in Sessions, n \in 1..MaxEvents : Acknowledge(s, n))
          \/ (\E c \in 1..(MaxEvents + 1) : Retain(c))
          \/ UNCHANGED events
    BY DEF Next, SelectEvents, SelectLatest, StoreCursor, Abandon, log, vars
  <2> QED
    BY <2>1, <2>2, <2>3, <2>4, <2>5, <2>6
<1>2. e.seq = NextNumber(kept)
  BY <1>1 DEF Emit
<1>3. /\ LogTypeOK /\ Numbered
      /\ \A f \in events : f.seq < nextValue
      /\ nextValue \in Nat
  BY DEF IInv, TypeOK, Numbered, LogTypeOK
<1>4. CASE nextValue = 0
  <2>1. e.seq = 1 /\ events = {}
    BY <1>1, <1>2, <1>3, <1>4, LatestIs DEF Numbered
  <2> QED
    BY <1>3, <1>4, <2>1 DEF Given
<1>5. CASE nextValue # 0
  <2>1. e.seq = nextValue
    BY <1>2, <1>5 DEF NextNumber
  <2> QED
    BY <1>3, <1>5, <2>1 DEF Given
<1> QED
  BY <1>4, <1>5

\* A step leaves a read cursor where it is or moves it on.
LEMMA CursorForward ==
    ASSUME IInv, [Next]_vars, NEW t \in Sessions
    PROVE  readCursor[t] <= readCursor'[t]
<1>1. readCursor \in [Sessions -> Nat] /\ request \in [Requests -> RequestTypes]
  BY DEF IInv, TypeOK
<1>2. CASE UNCHANGED readCursor
  BY <1>1, <1>2
<1>3. ASSUME NEW s \in Sessions, JoinRoom(s) PROVE readCursor[t] <= readCursor'[t]
  <2>1. NextNumber(events) \in Nat
    BY LatestIs DEF IInv, TypeOK, LogTypeOK
  <2> QED
    BY <1>1, <1>3, <2>1 DEF JoinRoom, Joined
<1>4. ASSUME NEW r \in Requests, StoreCursor(r) PROVE readCursor[t] <= readCursor'[t]
  <2>1. readCursor'[t] = IF t = request[r].sess
                         THEN Advanced(readCursor[t], request[r].cursor)
                         ELSE readCursor[t]
    BY <1>1, <1>4 DEF StoreCursor
  <2>2. readCursor[t] \in Nat /\ request[r].cursor \in Nat
    BY <1>1, <1>4 DEF RequestTypes
  <2> QED
    BY <2>1, <2>2 DEF Advanced
<1>5. UNCHANGED readCursor \/ (\E s \in Sessions : JoinRoom(s))
        \/ (\E r \in Requests : StoreCursor(r))
  BY DEF Next, PostMessage, Acknowledge, Retain, SelectEvents, SelectLatest, Abandon,
              members, vars
<1> QED
  BY <1>2, <1>3, <1>4, <1>5

\* The strengthening of the properties below holds in every reachable state.
THEOREM SyncInvariant == Spec => []IInv
BY InitIInv, NextIInv, PTL DEF Spec

\* Rows, cursors, acknowledgements and syncs keep their types: join_room,
\* post_message, acknowledge_event, retention and room_sync.
THEOREM SyncTypeCorrect == Spec => []TypeOK
<1>1. IInv => TypeOK
  BY DEF IInv
<1> QED
  BY <1>1, SyncInvariant, PTL

\* The numbers that _next_event_number gives out are new: to the log, to the
\* stored cursors, to the syncs under way and to the acknowledgements.
THEOREM AlwaysAhead == Spec => NewEventsAhead
<1> DEFINE Ahead ==
        \A e \in events' \ events :
          /\ \A s \in Sessions : readCursor[s] < e.seq
          /\ \A r \in Requests : request[r].cursor < e.seq
          /\ \A f \in events : f.seq < e.seq
          /\ \A a \in acks : a[1] < e.seq
<1>1. ASSUME IInv, [Next]_vars PROVE [Ahead]_vars
  <2>1. /\ \A s \in Sessions : readCursor[s] \in Nat /\ Given(readCursor[s])
        /\ \A r \in Requests : request[r].cursor \in Nat /\ Given(request[r].cursor)
        /\ \A a \in acks : a[1] \in Nat /\ Given(a[1])
    BY <1>1 DEF IInv, TypeOK, CursorsGiven, RequestTypes
  <2> QED
    BY <1>1, <2>1, AppendedAhead
<1>2. (Spec => []IInv) => (Spec => [][Ahead]_vars)
  BY <1>1, PTL DEF Spec
<1> QED
  BY <1>2, SyncInvariant DEF NewEventsAhead

\* Two syncs of a session that overlap never set last_read_cursor back.
THEOREM CursorNeverBack == Spec => ReadCursorMonotone
<1> DEFINE Forward == \A s \in Sessions : readCursor[s] <= readCursor'[s]
<1>1. ASSUME IInv, [Next]_vars PROVE Forward
  BY <1>1, CursorForward
<1>2. (Spec => []IInv) => (Spec => [][Forward]_vars)
  BY <1>1, PTL DEF Spec
<1> QED
  BY <1>2, SyncInvariant DEF ReadCursorMonotone

\* enforce_audit_retention never leaves a gap in the numbers that no surviving
\* audit.purged event follows.
THEOREM GapsAlwaysExplained == Spec => []GapsExplained
<1>1. IInv => GapsExplained
  <2> SUFFICES ASSUME IInv, NEW n \in 1..Latest, n \notin Numbers(events)
               PROVE  \E e \in events : e.kind = "purged" /\ e.seq > n
    BY DEF GapsExplained
  <2>1. Latest \in Nat /\ Given(Latest)
    BY LatestIs DEF IInv, TypeOK
  <2>2. n \in Nat \ {0} /\ n < nextValue
    BY <2>1 DEF Given, IInv, TypeOK, LogTypeOK
  <2> QED
    BY <2>2 DEF IInv, Explained
<1> QED
  BY <1>1, SyncInvariant, PTL

\* acknowledge_event leaves one event for a session and a message, and the row
\* of an acknowledgement has its message and its event, also after retention.
THEOREM AlwaysAcknowledgedOnce == Spec => []AcknowledgedOnce
<1>1. IInv => AcknowledgedOnce
  <2> SUFFICES ASSUME IInv PROVE AcknowledgedOnce
    OBVIOUS
  <2>1. \A e, f \in events :
          e.kind = "acknowledged" /\ e.by = f.by /\ e.of = f.of /\ f.kind = "acknowledged"
            => e = f
    BY DEF IInv, AcksSingle
  <2>2. \A a \in acks :
          /\ a[1] \in Numbers(Messages)
          /\ \E e \in events : e.kind = "acknowledged" /\ e.by = a[2] /\ e.of = a[1]
    BY DEF IInv, AcksTold, Tells
  <2> QED
    BY <2>1, <2>2 DEF AcknowledgedOnce
<1> QED
  BY <1>1, SyncInvariant, PTL

-------------------------------------------------------------------------------
(* What an answer leaves out.                                              *)

\* The log is finite, and as many numbers as events are in any part of it.
LEMMA NumbersCount ==
    ASSUME IInv, NEW T \in SUBSET events
    PROVE  IsFiniteSet(T) /\ Cardinality(Numbers(T)) = Cardinality(T)
<1> DEFINE f == [e \in T |-> e.seq]
<1>1. /\ Numbers(T) \in SUBSET Nat
      /\ \A n \in Numbers(T) : n <= nextValue
      /\ nextValue \in Nat
  BY DEF IInv, TypeOK, LogTypeOK, Rows, Numbered, Numbers
<1>2. IsFiniteSet(Numbers(T))
  BY <1>1, FS_BoundedSetOfNaturals
<1>3. f \in Bijection(T, Numbers(T))
  <2>1. f \in [T -> Numbers(T)]
    BY DEF Numbers
  <2>2. \A a, b \in T : f[a] = f[b] => a = b
    BY DEF IInv, NumbersSingle
  <2>3. \A n \in Numbers(T) : \E e \in T : f[e] = n
    BY DEF Numbers
  <2> QED
    BY <2>1, <2>2, <2>3 DEF Bijection, Injection, Surjection, IsInjective
<1>4. IsFiniteSet(T)
  BY <1>2, <1>3, FS_Injection DEF Bijection
<1>5. ExistsBijection(T, Numbers(T))
  BY <1>3 DEF ExistsBijection
<1> QED
  BY <1>4, <1>5, FS_Bijection

\* The messages that are newer than a message, and how many they are.
Newer(e) == {f \in Messages : f.seq > e.seq}
Above(e) == Cardinality(Newer(e))

\* A select of the newest messages that misses one which is new to the reader
\* has found MessageLimit of them, all of them newer.
LEMMA NewestFull ==
    ASSUME IInv, NEW n \in Nat, NEW m \in Messages, n < m.seq, m \notin NewestAfter(n)
    PROVE  /\ Cardinality(Numbers(NewestAfter(n))) = MessageLimit
           /\ \A i \in Numbers(NewestAfter(n)) : m.seq < i
<1> DEFINE cut == {e \in Messages : Above(e) >= MessageLimit}
<1>1. Messages \subseteq events /\ \A e \in Messages : e.seq \in Nat /\ e.seq <= nextValue
  BY DEF Messages, IInv, TypeOK, LogTypeOK, Rows, Numbered
<1>2. \A e \in Messages : Newer(e) \in SUBSET events
  BY <1>1 DEF Newer
<1>3. \A e \in Messages : IsFiniteSet(Newer(e)) /\ Above(e) \in Nat
  BY <1>2, NumbersCount, FS_CardinalityType DEF Above
<1>4. \A e, f \in Messages : e.seq <= f.seq => Above(f) <= Above(e)
  <2> TAKE e, f \in Messages
  <2> HAVE e.seq <= f.seq
  <2>1. Newer(f) \in SUBSET Newer(e)
    BY <1>1 DEF Newer
  <2> QED
    BY <1>3, <2>1, FS_Subset DEF Above
<1>5. m \in cut
  <2>1. ~(Above(m) < MessageLimit)
    BY DEF NewestAfter, Above, Newer
  <2> QED
    BY <1>3, <2>1, SyncAssumption
\* The newest of those that enough others are newer than.
<1>6. PICK last \in cut : \A e \in cut : e.seq <= last.seq
  <2>1. Numbers(cut) \subseteq Nat /\ Numbers(cut) # {} /\ nextValue \in Nat
    BY <1>1, <1>5 DEF Numbers, IInv, TypeOK, LogTypeOK
  <2>2. \A i \in Numbers(cut) : i <= nextValue
    BY <1>1 DEF Numbers
  <2>3. /\ Max(Numbers(cut)) \in Numbers(cut)
        /\ \A i \in Numbers(cut) : i <= Max(Numbers(cut))
    BY <2>1, <2>2, MaxOfNumbers
  <2> HIDE DEF cut
  <2>4. PICK e \in cut : e.seq = Max(Numbers(cut))
    BY <2>3 DEF Numbers
  <2>5. \A f \in cut : f.seq <= e.seq
    BY <2>3, <2>4 DEF Numbers
  <2> QED
    BY <2>5
<1>7. \A e \in Messages : e.seq > last.seq <=> Above(e) < MessageLimit
  <2> TAKE e \in Messages
  <2>1. Above(e) < MessageLimit <=> e \notin cut
    BY <1>3, SyncAssumption
  <2>2. e \in cut => e.seq <= last.seq
    BY <1>6
  <2>3. e.seq <= last.seq => Above(last) <= Above(e)
    BY <1>4
  <2>4. last \in Messages /\ Above(last) >= MessageLimit
    OBVIOUS
  <2> HIDE DEF cut
  <2> QED
    BY <1>1, <1>3, <2>1, <2>2, <2>3, <2>4, SyncAssumption
<1>8. NewestAfter(n) = Newer(last)
  <2>1. NewestAfter(n) = {e \in Messages : e.seq > n /\ Above(e) < MessageLimit}
    BY DEF NewestAfter, Above, Newer
  <2>2. last \in Messages /\ m.seq <= last.seq
    BY <1>5, <1>6
  <2> HIDE DEF cut
  <2> QED
    BY <1>1, <1>7, <2>1, <2>2 DEF Newer
<1>9. Above(last) = MessageLimit
  <2> SUFFICES ASSUME Above(last) # MessageLimit PROVE FALSE
    OBVIOUS
  <2>1. Above(last) > MessageLimit /\ last \in Messages
    BY <1>3, SyncAssumption
  <2>2. Newer(last) # {}
    BY <2>1, FS_EmptySet, SyncAssumption DEF Above
  \* The oldest of the newer ones has one event less above it.
  <2>3. PICK first \in Newer(last) : \A e \in Newer(last) : first.seq <= e.seq
    <3>1. Numbers(Newer(last)) \subseteq Nat /\ Numbers(Newer(last)) # {}
      BY <1>1, <2>2 DEF Numbers, Newer
    <3>2. PICK i \in Numbers(Newer(last)) :
            \A j \in Numbers(Newer(last)) : ~(<<j, i>> \in OpToRel(<, Nat))
      BY <3>1, NatLessThanWellFounded, WFMin
    <3>3. PICK e \in Newer(last) : e.seq = i
      BY DEF Numbers
    <3>4. \A f \in Newer(last) : ~(f.seq < i)
      BY <1>1, <3>1, <3>2 DEF Numbers, OpToRel
    <3> QED
      BY <1>1, <3>3, <3>4 DEF Newer
  <2>4. Newer(first) = Newer(last) \ {first}
    <3>1. \A e \in Newer(last) : e # first => e.seq # first.seq
      BY <1>1, <2>3 DEF IInv, NumbersSingle, Newer
    <3> QED
      BY <1>1, <2>1, <2>3, <3>1 DEF Newer
  <2>5. Above(first) = Above(last) - 1
    BY <1>3, <2>1, <2>3, <2>4, FS_RemoveElement DEF Above
  <2>6. first \in Messages /\ first.seq > last.seq
    BY <2>3 DEF Newer
  <2> HIDE DEF cut
  <2> QED
    BY <1>3, <1>7, <2>1, <2>5, <2>6, SyncAssumption
<1>10. Newer(last) \in SUBSET events /\ m.seq <= last.seq /\ last \in Messages
  BY <1>2, <1>5, <1>6
<1>11. Cardinality(Numbers(Newer(last))) = MessageLimit
  BY <1>9, <1>10, NumbersCount DEF Above
<1>12. \A i \in Numbers(Newer(last)) : m.seq < i
  BY <1>1, <1>10 DEF Numbers, Newer
<1> QED
  BY <1>8, <1>11, <1>12

\* A page has no hole: it holds what lies between its begin and its last event.
LEMMA PageFull ==
    ASSUME IInv, NEW n \in Nat, NEW e \in PageAfter(n),
           NEW m \in events, n < m.seq, m.seq <= e.seq
    PROVE  m \in PageAfter(n)
<1> DEFINE before(g) == {f \in events : n < f.seq /\ f.seq < g.seq}
<1>1. \A f \in events : f.seq \in Nat
  BY DEF IInv, TypeOK, LogTypeOK, Rows
<1>2. e \in events /\ Cardinality(before(e)) < PageLimit
  BY DEF PageAfter
<1>3. before(e) \in SUBSET events /\ before(m) \in SUBSET before(e)
  BY <1>1, <1>2
<1>4. /\ Cardinality(before(m)) <= Cardinality(before(e))
      /\ Cardinality(before(m)) \in Nat /\ Cardinality(before(e)) \in Nat
  BY <1>3, NumbersCount, FS_Subset, FS_CardinalityType
<1>5. Cardinality(before(m)) < PageLimit
  <2> HIDE DEF before
  <2> QED
    BY <1>2, <1>4, LogAssumption
<1> QED
  BY <1>1, <1>5 DEF PageAfter

-------------------------------------------------------------------------------
(* Answers are complete.  On PostgreSQL the two selects of a sync see two  *)
(* states, and what is said of messages holds under SnapshotReads alone;   *)
(* pages are complete on either database.                                  *)

\* The last event of a page, and how far a sync under way speaks for the log.
LastShown(q) == IF q.shown = {} THEN q.after ELSE Max(q.shown)
Bound(q) == IF q.mode = "page" /\ q.stage = "selected" THEN LastShown(q) ELSE q.cursor

\* The answer q shows number i, or leaves it out as older than a full page.
Covers(q, i) ==
    \/ i \in q.shown
    \/ /\ q.mode # "page"
       /\ q.base < i
       /\ Cardinality(q.shown) = MessageLimit
       /\ \A n \in q.shown : i < n

RequestHeld(q) ==
    q.stage # "idle" =>
        /\ q.sess \in Sessions
        /\ q.base <= readCursor[q.sess]
        /\ q.after <= readCursor[q.sess]
        /\ q.mode = "page" => q.base = q.after

\* What a sync speaks for: a page for every event, the others for messages.
Subject(q) == IF q.mode = "page" THEN events ELSE IF SnapshotReads THEN Messages ELSE {}

ShownComplete(q) ==
    q.stage # "idle" =>
        \A m \in Subject(q) : q.base < m.seq /\ m.seq <= Bound(q) => Covers(q, m.seq)

CompleteInv ==
    /\ \A r \in Requests : RequestHeld(request[r])
    /\ \A r \in Requests : ShownComplete(request[r])
    /\ SnapshotReads => ReadIsTold

LEMMA CoveredIs ==
    ASSUME NEW q, NEW m \in Messages
    PROVE  m.seq \in Covered(q) <=> Covers(q, m.seq)
BY DEF Covered, Covers

\* An event is there before a step, or beyond every number given out.
LEMMA OldOrAhead ==
    ASSUME IInv, [Next]_vars, NEW e \in events'
    PROVE  /\ e.seq \in Nat
           /\ e \in events \/ \A i \in Nat : Given(i) => i < e.seq
<1>1. e.seq \in Nat
  BY NextIInv DEF IInv, TypeOK, LogTypeOK, Rows
<1> QED
  BY <1>1, AppendedAhead

\* What a step makes of a sync.
LEMMA RequestStep ==
    ASSUME IInv, [Next]_vars, NEW r \in Requests
    PROVE  \/ request'[r] = request[r]
           \/ request'[r] = Idle
           \/ \E s \in Sessions, mode \in Modes, after \in Nat : SelectEvents(r, s, mode, after)
           \/ SelectLatest(r)
<1>1. request \in [Requests -> RequestTypes]
  BY DEF IInv, TypeOK
<1>2. CASE UNCHANGED request
  BY <1>2
<1>3. ASSUME NEW p \in Requests, NEW s \in Sessions, NEW mode \in Modes,
             NEW after \in 0..MaxEvents, SelectEvents(p, s, mode, after)
      PROVE  \/ request'[r] = request[r]
             \/ \E t \in Sessions, md \in Modes, af \in Nat : SelectEvents(r, t, md, af)
  <2>1. after \in Nat
    BY <1>3, LogAssumption
  <2>2. p # r => request'[r] = request[r]
    BY <1>1, <1>3 DEF SelectEvents
  <2> QED
    BY <1>3, <2>1, <2>2
<1>4. ASSUME NEW p \in Requests, SelectLatest(p)
      PROVE  request'[r] = request[r] \/ SelectLatest(r)
  BY <1>1, <1>4 DEF SelectLatest
<1>5. ASSUME NEW p \in Requests, StoreCursor(p) \/ Abandon(p)
      PROVE  request'[r] = request[r] \/ request'[r] = Idle
  BY <1>1, <1>5 DEF StoreCursor, Abandon
<1>6. \/ UNCHANGED request
      \/ \E p \in Requests, s \in Sessions, mode \in Modes, after \in 0..MaxEvents :
            SelectEvents(p, s, mode, after)
      \/ \E p \in Requests : SelectLatest(p) \/ StoreCursor(p) \/ Abandon(p)
  BY DEF Next, PostMessage, JoinRoom, Acknowledge, Retain, vars
<1> QED
  BY <1>2, <1>3, <1>4, <1>5, <1>6

\* The first select leaves the sync as its definition says.
LEMMA Selected ==
    ASSUME IInv, NEW r \in Requests, NEW s \in Sessions, NEW mode \in Modes, NEW after \in Nat,
           SelectEvents(r, s, mode, after)
    PROVE  /\ UNCHANGED <<events, nextValue, readCursor>>
           /\ after <= readCursor[s]
           /\ mode = "inject" => after = 0
           /\ request'[r].stage = "selected"
           /\ request'[r].sess = s
           /\ request'[r].mode = mode
           /\ request'[r].after = after
           /\ request'[r].base = EffectiveAfter(s, mode, after)
           /\ request'[r].shown = Numbers(ShownAfter(mode, EffectiveAfter(s, mode, after)))
           /\ request'[r].cursor = Latest
BY DEF SelectEvents, IInv, TypeOK, log, members

\* The second select settles the cursor.
LEMMA Settled ==
    ASSUME IInv, NEW r \in Requests, SelectLatest(r)
    PROVE  /\ UNCHANGED <<events, nextValue, readCursor>>
           /\ request[r].stage = "selected" /\ request'[r].stage = "read"
           /\ request'[r].sess = request[r].sess
           /\ request'[r].mode = request[r].mode
           /\ request'[r].after = request[r].after
           /\ request'[r].base = request[r].base
           /\ request'[r].shown = request[r].shown
           /\ request'[r].cursor =
                AnswerCursor(r, IF SnapshotReads THEN request[r].cursor ELSE Latest)
BY DEF SelectLatest, IInv, TypeOK, RequestTypes, log, members

LEMMA HeldStep ==
    ASSUME IInv, \A p \in Requests : RequestHeld(request[p]), [Next]_vars, NEW r \in Requests
    PROVE  RequestHeld(request[r])'
<1>1. /\ readCursor \in [Sessions -> Nat] /\ readCursor' \in [Sessions -> Nat]
      /\ request[r] \in RequestTypes
      /\ \A s \in Sessions : readCursor[s] <= readCursor'[s]
  BY NextIInv, CursorForward DEF IInv, TypeOK
<1>2. CASE request'[r] = request[r]
  <2>1. request[r].base \in Nat /\ request[r].after \in Nat
    BY <1>1 DEF RequestTypes
  <2> QED
    BY <1>1, <1>2, <2>1 DEF RequestHeld
<1>3. CASE request'[r] = Idle
  BY <1>3 DEF RequestHeld, Idle
<1>4. ASSUME NEW s \in Sessions, NEW mode \in Modes, NEW after \in Nat,
             SelectEvents(r, s, mode, after)
      PROVE  RequestHeld(request[r])'
  <2>1. /\ EffectiveAfter(s, mode, after) <= readCursor[s]
        /\ mode = "page" => EffectiveAfter(s, mode, after) = after
    BY <1>1, <1>4, Selected DEF EffectiveAfter
  <2> QED
    BY <1>4, <2>1, Selected DEF RequestHeld
<1>5. CASE SelectLatest(r)
  BY <1>5, Settled DEF RequestHeld
<1> QED
  BY <1>2, <1>3, <1>4, <1>5, RequestStep

\* A sync speaks for numbers that have been given out.
LEMMA BoundGiven ==
    ASSUME IInv, NEW r \in Requests, RequestHeld(request[r]), request[r].stage # "idle"
    PROVE  Bound(request[r]) \in Nat /\ Given(Bound(request[r]))
<1> DEFINE q == request[r]
<1>1. /\ q.shown \subseteq Nat /\ q.after \in Nat /\ q.cursor \in Nat /\ Given(q.cursor)
      /\ \A n \in q.shown : Given(n)
      /\ nextValue \in Nat
  BY DEF IInv, TypeOK, RequestTypes, LogTypeOK, CursorsGiven
<1>2. LastShown(q) \in Nat /\ Given(LastShown(q))
  <2>1. CASE q.shown = {}
    <3>1. q.after <= readCursor[q.sess] /\ readCursor[q.sess] \in Nat /\ Given(readCursor[q.sess])
      BY DEF RequestHeld, IInv, TypeOK, CursorsGiven
    <3> QED
      BY <1>1, <2>1, <3>1 DEF LastShown, Given
  <2>2. CASE q.shown # {}
    <3>1. \A n \in q.shown : n <= nextValue
      BY <1>1 DEF Given
    <3>2. Max(q.shown) \in q.shown
      BY <1>1, <2>2, <3>1, MaxOfNumbers
    <3> QED
      BY <1>1, <2>2, <3>2 DEF LastShown
  <2> QED
    BY <2>1, <2>2
<1> QED
  BY <1>1, <1>2 DEF Bound

\* The first select: a page is gapless up to its last event, and the newest
\* messages reach down to the reader or fill the page.
LEMMA SelectedComplete ==
    ASSUME IInv, NEW r \in Requests, NEW s \in Sessions, NEW mode \in Modes, NEW after \in Nat,
           SelectEvents(r, s, mode, after)
    PROVE  ShownComplete(request[r])'
<1> DEFINE base == EffectiveAfter(s, mode, after)
           q == request'[r]
<1>1. /\ UNCHANGED events /\ q.mode = mode /\ q.base = base /\ q.after = after
      /\ q.stage = "selected" /\ q.shown = Numbers(ShownAfter(mode, base))
  BY Selected
<1>2. base \in Nat /\ (mode = "page" => base = after)
  BY DEF EffectiveAfter, IInv, TypeOK
<1>3. Messages' = Messages /\ Messages \subseteq events
  BY <1>1 DEF Messages
<1>4. \A m \in events : m.seq \in Nat /\ m.seq <= nextValue
  BY DEF IInv, TypeOK, LogTypeOK, Rows, Numbered
<1> SUFFICES ASSUME NEW m \in events, mode # "page" => m \in Messages,
                    base < m.seq, m.seq <= Bound(q)
             PROVE  Covers(q, m.seq)
  BY <1>1, <1>3 DEF ShownComplete, Subject, Covers, Bound, LastShown
<1> HIDE DEF base, q
<1>5. CASE mode = "page"
  <2>1. q.shown = Numbers(PageAfter(base)) /\ Bound(q) = LastShown(q)
    BY <1>1, <1>5 DEF ShownAfter, Bound
  <2>2. q.shown # {}
    <3> SUFFICES ASSUME q.shown = {} PROVE FALSE
      OBVIOUS
    <3>1. Bound(q) = base
      BY <1>1, <1>2, <1>5, <2>1 DEF LastShown
    <3> QED
      BY <1>2, <1>3, <1>4, <3>1
  <2>3. Bound(q) = Max(q.shown)
    BY <2>1, <2>2 DEF LastShown
  <2>4. /\ q.shown \subseteq Nat /\ nextValue \in Nat
        /\ \A i \in q.shown : i <= nextValue
    BY <1>4, <2>1 DEF Numbers, PageAfter, IInv, TypeOK, LogTypeOK
  <2>5. Max(q.shown) \in q.shown
    BY <2>2, <2>4, MaxOfNumbers
  <2>6. PICK e \in PageAfter(base) : e.seq = Max(q.shown)
    BY <2>1, <2>5 DEF Numbers
  <2>7. m \in PageAfter(base)
    BY <1>2, <1>3, <2>3, <2>6, PageFull
  <2> QED
    BY <2>1, <2>7 DEF Covers, Numbers
<1>6. CASE mode # "page"
  <2>1. q.shown = Numbers(NewestAfter(base)) /\ q.mode # "page"
    BY <1>1, <1>6 DEF ShownAfter
  <2>2. CASE m \in NewestAfter(base)
    BY <2>1, <2>2 DEF Covers, Numbers
  <2>3. CASE m \notin NewestAfter(base)
    <3>1. /\ Cardinality(q.shown) = MessageLimit
          /\ \A i \in q.shown : m.seq < i
      BY <1>2, <1>6, <2>1, <2>3, NewestFull
    <3> QED
      BY <1>1, <2>1, <3>1 DEF Covers
  <2> QED
    BY <2>2, <2>3
<1> QED
  BY <1>5, <1>6

\* The second select never lets a sync speak for more than it has shown.
LEMMA SettledComplete ==
    ASSUME IInv, NEW r \in Requests, RequestHeld(request[r]), ShownComplete(request[r]),
           SelectLatest(r)
    PROVE  ShownComplete(request[r])'
<1> DEFINE q == request[r]
           p == request'[r]
<1>1. /\ UNCHANGED events /\ q.stage = "selected" /\ p.stage = "read" /\ p.mode = q.mode
      /\ p.base = q.base /\ p.shown = q.shown
      /\ p.cursor = AnswerCursor(r, IF SnapshotReads THEN q.cursor ELSE Latest)
  BY Settled
<1>2. Messages' = Messages
  BY <1>1 DEF Messages
<1> SUFFICES ASSUME NEW m \in Subject(q), q.base < m.seq, m.seq <= p.cursor
             PROVE  Covers(q, m.seq)
  BY <1>1, <1>2 DEF ShownComplete, Subject, Covers, Bound
<1>3. /\ Bound(q) \in Nat /\ m.seq \in Nat
  BY <1>1, BoundGiven DEF Subject, Messages, IInv, TypeOK, LogTypeOK, Rows
<1>4. m.seq <= Bound(q)
  <2>1. CASE q.mode = "page"
    <3>1. Bound(q) = LastShown(q)
      BY <1>1, <2>1 DEF Bound
    <3>2. \A n \in Nat : AnswerCursor(r, n) <= LastShown(q) /\ AnswerCursor(r, n) \in Nat
      BY <1>3, <2>1, <3>1 DEF AnswerCursor, LastShown
    <3>3. (IF SnapshotReads THEN q.cursor ELSE Latest) \in Nat
      BY LatestIs DEF IInv, TypeOK, RequestTypes
    <3>4. p.cursor <= LastShown(q) /\ p.cursor \in Nat
      BY <1>1, <3>2, <3>3
    <3> QED
      BY <1>3, <3>1, <3>4
  <2>2. CASE q.mode # "page"
    <3>1. p.cursor = q.cursor /\ Bound(q) = q.cursor
      BY <1>1, <2>2 DEF AnswerCursor, Bound, Subject
    <3> QED
      BY <3>1
  <2> QED
    BY <2>1, <2>2
<1> QED
  BY <1>1, <1>4 DEF ShownComplete

LEMMA CompleteStep ==
    ASSUME IInv, CompleteInv, [Next]_vars, NEW r \in Requests
    PROVE  ShownComplete(request[r])'
<1>1. RequestHeld(request[r]) /\ ShownComplete(request[r])
  BY DEF CompleteInv
<1>2. CASE request'[r] = request[r]
  <2> DEFINE q == request[r]
  <2> SUFFICES ASSUME q.stage # "idle", NEW m \in Subject(q)', q.base < m.seq,
                      m.seq <= Bound(q)
               PROVE  Covers(q, m.seq)
    BY <1>2 DEF ShownComplete, Covers, Bound, LastShown
  <2>1. Bound(q) \in Nat /\ Given(Bound(q))
    BY <1>1, BoundGiven
  <2>2. m \in Subject(q)
    <3>1. m \in events' /\ (m \in events => m \in Subject(q))
      BY <1>2 DEF Subject, Messages
    <3> QED
      BY <2>1, <3>1, OldOrAhead
  <2> QED
    BY <1>1, <2>2 DEF ShownComplete
<1>3. CASE request'[r] = Idle
  BY <1>3 DEF ShownComplete, Idle
<1>4. ASSUME NEW s \in Sessions, NEW mode \in Modes, NEW after \in Nat,
             SelectEvents(r, s, mode, after)
      PROVE  ShownComplete(request[r])'
  BY <1>4, SelectedComplete
<1>5. CASE SelectLatest(r)
  BY <1>1, <1>5, SettledComplete
<1> QED
  BY <1>2, <1>3, <1>4, <1>5, RequestStep

LEMMA ToldStep ==
    ASSUME IInv, CompleteInv, [Next]_vars, SnapshotReads
    PROVE  ReadIsTold'
<1> SUFFICES ASSUME NEW t \in Sessions, NEW m \in Messages',
                    joinedAt'[t] < m.seq, m.seq <= readCursor'[t]
             PROVE  m.seq \in told'[t]
  BY DEF ReadIsTold
<1>1. /\ readCursor \in [Sessions -> Nat] /\ request \in [Requests -> RequestTypes]
      /\ joinedAt \in [Sessions -> Nat] /\ told \in [Sessions -> SUBSET Nat]
      /\ readCursor[t] \in Nat /\ Given(readCursor[t])
      /\ NextNumber(events) \in Nat
      /\ m \in events' /\ m.seq \in Nat /\ (m \in events => m \in Messages)
  BY LatestIs, OldOrAhead DEF IInv, TypeOK, LogTypeOK, CursorsGiven, Messages
<1>2. CASE UNCHANGED <<readCursor, joinedAt, told>>
  <2>1. m \in Messages
    BY <1>1, <1>2, OldOrAhead
  <2> QED
    BY <1>2, <2>1 DEF CompleteInv, ReadIsTold
<1>3. ASSUME NEW s \in Sessions, JoinRoom(s) PROVE m.seq \in told'[t]
  <2>1. CASE t = s
    BY <1>1, <1>3, <2>1 DEF JoinRoom
  <2>2. CASE t # s
    <3>1. readCursor'[t] = readCursor[t] /\ joinedAt'[t] = joinedAt[t] /\ told' = told
      BY <1>1, <1>3, <2>2 DEF JoinRoom
    <3>2. m \in Messages
      BY <1>1, <3>1, OldOrAhead
    <3> QED
      BY <3>1, <3>2 DEF CompleteInv, ReadIsTold
  <2> QED
    BY <2>1, <2>2
<1>4. ASSUME NEW r \in Requests, StoreCursor(r) PROVE m.seq \in told'[t]
  <2> DEFINE q == request[r]
  <2>1. /\ q.stage = "read" /\ UNCHANGED events /\ joinedAt' = joinedAt
        /\ readCursor'[t] = IF t = q.sess THEN Advanced(readCursor[t], q.cursor)
                            ELSE readCursor[t]
        /\ told'[t] = IF t = q.sess THEN told[t] \cup Covered(q) ELSE told[t]
    BY <1>1, <1>4 DEF StoreCursor, log
  <2>2. m \in Messages
    BY <2>1 DEF Messages
  <2>3. CASE m.seq <= readCursor[t]
    BY <2>1, <2>2, <2>3 DEF CompleteInv, ReadIsTold
  <2>4. CASE ~(m.seq <= readCursor[t])
    <3>1. t = q.sess /\ m.seq <= q.cursor
      BY <2>1, <2>4 DEF Advanced
    <3>2. q.base <= readCursor[t] /\ q.base \in Nat
      BY <1>1, <2>1, <3>1 DEF CompleteInv, RequestHeld, RequestTypes
    <3>3. q.base < m.seq /\ Bound(q) = q.cursor
      BY <1>1, <2>1, <2>4, <3>2 DEF Bound
    <3>4. Covers(q, m.seq)
      BY <2>1, <2>2, <3>1, <3>3 DEF CompleteInv, ShownComplete, Subject, Messages
    <3> QED
      BY <2>1, <2>2, <3>1, <3>4, CoveredIs
  <2> QED
    BY <2>3, <2>4
<1>5. UNCHANGED <<readCursor, joinedAt, told>> \/ (\E s \in Sessions : JoinRoom(s))
        \/ (\E r \in Requests : StoreCursor(r))
  BY DEF Next, PostMessage, Acknowledge, Retain, SelectEvents, SelectLatest, Abandon,
         members, vars
<1> QED
  BY <1>2, <1>3, <1>4, <1>5

\* Syncs hold to their session's cursor and cover what they speak for, in every
\* reachable state.
THEOREM CompletenessInvariant == Spec => [](IInv /\ CompleteInv)
<1>1. Init => CompleteInv
  <2> SUFFICES ASSUME Init PROVE CompleteInv
    OBVIOUS
  <2>1. \A r \in Requests : request[r].stage = "idle"
    BY DEF Init, Idle
  <2>2. events = {} /\ Messages = {}
    BY DEF Init, LogInit, Messages
  <2> QED
    BY <2>1, <2>2 DEF CompleteInv, RequestHeld, ShownComplete, ReadIsTold
<1>2. ASSUME IInv, CompleteInv, [Next]_vars PROVE CompleteInv'
  <2>1. \A r \in Requests : RequestHeld(request[r])'
    BY <1>2, HeldStep DEF CompleteInv
  <2>2. \A r \in Requests : ShownComplete(request[r])'
    BY <1>2, CompleteStep
  <2>3. SnapshotReads => ReadIsTold'
    BY <1>2, ToldStep
  <2> QED
    BY <2>1, <2>2, <2>3 DEF CompleteInv
<1> QED
  BY <1>1, <1>2, SyncInvariant, PTL DEF Spec

\* room_sync on SQLite, whose read transactions see one state: a message behind
\* the cursor of an answer is in the answer or older than a full page of it.
THEOREM AnswersAlwaysComplete == SnapshotReads => (Spec => []AnswersComplete)
<1> SUFFICES ASSUME SnapshotReads PROVE Spec => []AnswersComplete
  OBVIOUS
<1>1. IInv /\ CompleteInv => AnswersComplete
  <2> SUFFICES ASSUME CompleteInv, NEW r \in Requests, NEW m \in Messages,
                      request[r].stage = "read", request[r].base < m.seq,
                      m.seq <= request[r].cursor
               PROVE  m.seq \in Covered(request[r])
    BY DEF AnswersComplete
  <2>1. Covers(request[r], m.seq)
    BY DEF CompleteInv, ShownComplete, Bound, Subject, Messages
  <2> QED
    BY <2>1, CoveredIs
<1> QED
  BY <1>1, CompletenessInvariant, PTL

\* last_read_cursor does not run ahead of its reader on SQLite, however syncs
\* overlap, fail half way and repeat while retention removes events.
THEOREM ReadIsAlwaysTold == SnapshotReads => (Spec => []ReadIsTold)
<1> SUFFICES ASSUME SnapshotReads PROVE Spec => []ReadIsTold
  OBVIOUS
<1>1. IInv /\ CompleteInv => ReadIsTold
  BY DEF CompleteInv
<1> QED
  BY <1>1, CompletenessInvariant, PTL

\* An answer of the page mode leaves nothing out on either database: its cursor
\* is never beyond its last event.
PagesComplete ==
    \A r \in Requests : request[r].mode = "page" /\ request[r].stage = "read" =>
        \A e \in events :
            request[r].base < e.seq /\ e.seq <= request[r].cursor
                => e.seq \in request[r].shown

\* A cursor page of room_sync is complete whatever the isolation level: events
\* that are appended between its two selects are left to the next page.
THEOREM PagesAlwaysComplete == Spec => []PagesComplete
<1>1. IInv /\ CompleteInv => PagesComplete
  BY DEF CompleteInv, PagesComplete, ShownComplete, Bound, Covers, Subject
<1> QED
  BY <1>1, CompletenessInvariant, PTL
===============================================================================
