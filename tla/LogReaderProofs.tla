---------------------------- MODULE LogReaderProofs ----------------------------
(***************************************************************************)
(* Theorems of the readers of the log.  EventStream: the slots and the     *)
(* order of what is received, for any clients, addresses, limits and page  *)
(* sizes.  LogViews: the windows that are read page by page.               *)
(***************************************************************************)
EXTENDS EventStream, LogViews, FiniteSetTheorems, SequenceTheorems, WellFoundedInduction, TLAPS

-------------------------------------------------------------------------------
(* The slots of the event stream. *)

Held == {k \in Clients : ~released[k]}
HeldAt(i) == {k \in Held : IpOf[k] = i}

SlotTypes ==
    /\ stage \in [Clients -> Stages]
    /\ released \in [Clients -> BOOLEAN]
    /\ projectCount \in Nat
    /\ ipCount \in [Ips -> Nat]

\* A slot is held exactly while its stream is reserved or open.
HeldWhileStreaming ==
    \A k \in Clients : released[k] <=> stage[k] \in {"off", "closing"}

\* The counters count the slots that are held, and the limits bound them.
Counted ==
    /\ projectCount = Cardinality(Held)
    /\ \A i \in Ips : ipCount[i] = Cardinality(HeldAt(i))

Bounded ==
    /\ projectCount <= MaxPerProject
    /\ \A i \in Ips : ipCount[i] <= MaxPerIp

SlotInv == SlotTypes /\ HeldWhileStreaming /\ Counted /\ Bounded

LEMMA HeldFinite ==
    /\ IsFiniteSet(Held)
    /\ \A i : IsFiniteSet(HeldAt(i))
<1>1. IsFiniteSet(Clients)
  BY StreamAssumption
<1>2. Held \subseteq Clients /\ \A i : HeldAt(i) \subseteq Clients
  BY DEF Held, HeldAt
<1> QED
  BY <1>1, <1>2, FS_Subset

LEMMA InitSlots == Init => SlotInv
<1> SUFFICES ASSUME Init PROVE SlotInv
  OBVIOUS
<1>1. SlotTypes /\ HeldWhileStreaming
  BY DEF Init, SlotTypes, HeldWhileStreaming, Stages
<1>2. Held = {} /\ \A i : HeldAt(i) = {}
  BY DEF Init, Held, HeldAt
<1>3. Counted
  BY <1>2, FS_EmptySet DEF Init, Counted
<1>4. Bounded
  BY StreamAssumption DEF Init, Bounded
<1> QED
  BY <1>1, <1>3, <1>4 DEF SlotInv

\* A step that leaves the slots alone keeps everything that is said of them.
LEMMA SlotsUntouched == SlotInv /\ UNCHANGED slots => SlotInv'
  BY DEF SlotInv, SlotTypes, HeldWhileStreaming, Counted, Bounded, Held, HeldAt, slots

\* Admission takes one slot that was free, within both limits.
LEMMA AcquireKeepsSlots ==
    ASSUME NEW k \in Clients, NEW after, NEW header, SlotInv, Connect(k, after, header)
    PROVE  SlotInv'
<1> USE DEF SlotInv, SlotTypes
<1> DEFINE i == IpOf[k]
<1>1. i \in Ips
  BY DEF Ips
<1>2. /\ stage[k] = "off"
      /\ stage' = [stage EXCEPT ![k] = "reserved"]
      /\ released' = [released EXCEPT ![k] = FALSE]
      /\ projectCount' = projectCount + 1
      /\ ipCount' = [ipCount EXCEPT ![i] = ipCount[i] + 1]
      /\ projectCount < MaxPerProject
      /\ ipCount[i] < MaxPerIp
  BY DEF Connect, At, Goto
<1>3. SlotTypes'
  BY <1>1, <1>2 DEF Stages
<1>4. HeldWhileStreaming'
  BY <1>2 DEF HeldWhileStreaming
<1>5. k \notin Held
  BY <1>2 DEF HeldWhileStreaming, Held
<1>6. Held' = Held \cup {k}
  BY <1>2 DEF Held
<1>7. /\ HeldAt(i)' = HeldAt(i) \cup {k}
      /\ \A j : j # i => HeldAt(j)' = HeldAt(j)
  BY <1>6 DEF HeldAt
<1>8. Cardinality(Held') = Cardinality(Held) + 1
  BY <1>5, <1>6, HeldFinite, FS_AddElement
<1>9. Cardinality(HeldAt(i)') = Cardinality(HeldAt(i)) + 1
  <2>1. k \notin HeldAt(i)
    BY <1>5 DEF HeldAt
  <2> QED
    BY <2>1, <1>7, HeldFinite, FS_AddElement
<1>10. Counted'
  <2>1. projectCount' = Cardinality(Held')
    BY <1>2, <1>8 DEF Counted
  <2>2. ASSUME NEW j \in Ips PROVE ipCount'[j] = Cardinality(HeldAt(j)')
    <3>1. CASE j = i
      BY <3>1, <1>1, <1>2, <1>9 DEF Counted
    <3>2. CASE j # i
      BY <3>2, <1>2, <1>7 DEF Counted
    <3> QED
      BY <3>1, <3>2
  <2> QED
    BY <2>1, <2>2 DEF Counted, HeldAt
<1>11. Bounded'
  BY <1>1, <1>2, StreamAssumption DEF Bounded
<1> QED
  BY <1>3, <1>4, <1>10, <1>11

\* Release gives back one slot that was held, or does nothing at all.
LEMMA ReleaseKeepsSlots ==
    ASSUME NEW k \in Clients, SlotInv, Release(k),
           NEW st \in {"off", "closing"}, stage' = [stage EXCEPT ![k] = st]
    PROVE  SlotInv'
<1> USE DEF SlotInv, SlotTypes
<1> DEFINE i == IpOf[k]
<1>1. i \in Ips
  BY DEF Ips
<1>2. stage' \in [Clients -> Stages]
  BY DEF Stages
<1>3. CASE released[k]
  <2>1. UNCHANGED <<released, projectCount, ipCount>>
    BY <1>3 DEF Release
  <2>2. HeldWhileStreaming'
    BY <1>3, <2>1 DEF HeldWhileStreaming
  <2> QED
    BY <1>2, <2>1, <2>2 DEF Counted, Bounded, Held, HeldAt
<1>4. CASE ~released[k]
  <2>1. /\ released' = [released EXCEPT ![k] = TRUE]
        /\ projectCount' = OneLess(projectCount)
        /\ ipCount' = [ipCount EXCEPT ![i] = OneLess(ipCount[i])]
    BY <1>4 DEF Release
  <2>2. HeldWhileStreaming'
    BY <2>1 DEF HeldWhileStreaming
  <2>3. k \in Held /\ k \in HeldAt(i)
    BY <1>4 DEF Held, HeldAt
  <2>4. Held' = Held \ {k}
    BY <2>1 DEF Held
  <2>5. /\ HeldAt(i)' = HeldAt(i) \ {k}
        /\ \A j : j # i => HeldAt(j)' = HeldAt(j)
    BY <2>4 DEF HeldAt
  <2>6. /\ Cardinality(Held') = projectCount - 1
        /\ projectCount > 0
    <3>1. Cardinality(Held') = Cardinality(Held) - 1
      BY <2>3, <2>4, HeldFinite, FS_RemoveElement
    <3>2. Cardinality(Held') \in Nat
      BY <2>4, HeldFinite, FS_RemoveElement, FS_CardinalityType
    <3> QED
      BY <3>1, <3>2 DEF Counted
  <2>7. /\ Cardinality(HeldAt(i)') = ipCount[i] - 1
        /\ ipCount[i] > 0
    <3> DEFINE H == HeldAt(i)
    <3>1. Cardinality(HeldAt(i)') = Cardinality(HeldAt(i)) - 1
      <4>1. IsFiniteSet(H) /\ k \in H
        BY <2>3, HeldFinite
      <4>2. Cardinality(H \ {k}) = Cardinality(H) - 1
        <5> HIDE DEF H
        <5> QED
          BY <4>1, FS_RemoveElement
      <4> QED
        BY <4>2, <2>5
    <3>2. Cardinality(HeldAt(i)') \in Nat
      BY <2>5, HeldFinite, FS_RemoveElement, FS_CardinalityType
    <3> QED
      BY <1>1, <3>1, <3>2 DEF Counted
  <2>8. /\ projectCount' = projectCount - 1
        /\ ipCount' = [ipCount EXCEPT ![i] = ipCount[i] - 1]
    BY <2>1, <2>6, <2>7 DEF OneLess
  <2>9. SlotTypes'
    BY <1>1, <1>2, <2>1, <2>6, <2>7, <2>8
  <2>10. Counted'
    <3>1. projectCount' = Cardinality(Held')
      BY <2>6, <2>8
    <3>2. ASSUME NEW j \in Ips PROVE ipCount'[j] = Cardinality(HeldAt(j)')
      <4>1. CASE j = i
        BY <4>1, <1>1, <2>7, <2>8
      <4>2. CASE j # i
        BY <4>2, <2>5, <2>8 DEF Counted
      <4> QED
        BY <4>1, <4>2
    <3> QED
      BY <3>1, <3>2 DEF Counted, HeldAt
  <2>11. Bounded'
    BY <1>1, <2>8, StreamAssumption DEF Bounded
  <2> QED
    BY <2>2, <2>9, <2>10, <2>11
<1> QED
  BY <1>3, <1>4

LEMMA NextKeepsSlots == SlotInv /\ [Next]_vars => SlotInv'
<1> SUFFICES ASSUME SlotInv, [Next]_vars PROVE SlotInv'
  OBVIOUS
<1>1. CASE AppendEvent \/ (\E c \in 1..(MaxEvents + 1) : Retain(c))
  BY <1>1, SlotsUntouched DEF AppendEvent, Retain
<1>2. ASSUME NEW k \in Clients, NEW after, NEW header, Connect(k, after, header)
      PROVE  SlotInv'
  BY <1>2, AcquireKeepsSlots
<1>3. ASSUME NEW k \in Clients, Start(k) PROVE SlotInv'
  <2>1. /\ stage[k] = "reserved"
        /\ stage' = [stage EXCEPT ![k] = "open"]
        /\ UNCHANGED <<released, projectCount, ipCount>>
    BY <1>3 DEF Start, At, Goto
  <2> QED
    BY <2>1 DEF SlotInv, SlotTypes, Stages, HeldWhileStreaming, Counted, Bounded, Held, HeldAt
<1>4. ASSUME NEW k \in Clients, Disconnect(k) PROVE SlotInv'
  BY <1>4, ReleaseKeepsSlots DEF Disconnect, Goto
<1>5. ASSUME NEW k \in Clients, EndResponse(k) PROVE SlotInv'
  BY <1>5, ReleaseKeepsSlots DEF EndResponse, Goto
<1>6. ASSUME NEW k \in Clients, Fetch(k) \/ Yield(k) \/ Receive(k) PROVE SlotInv'
  BY <1>6, SlotsUntouched DEF Fetch, Yield, Receive
<1>7. CASE UNCHANGED vars
  BY <1>7, SlotsUntouched DEF vars
<1> QED
  BY <1>1, <1>2, <1>3, <1>4, <1>5, <1>6, <1>7 DEF Next

\* What the counters count is exactly what is streaming.
LEMMA SlotInvImplies == SlotInv => WithinLimits /\ SlotsReturn
<1> SUFFICES ASSUME SlotInv PROVE WithinLimits /\ SlotsReturn
  OBVIOUS
<1> USE DEF SlotInv, SlotTypes
<1>1. Held = {k \in Clients : At(k, "reserved") \/ At(k, "open")}
  BY DEF Held, HeldWhileStreaming, At, Stages
<1>2. ASSUME NEW i
      PROVE  HeldAt(i) = {k \in {c \in Clients : IpOf[c] = i} :
                             At(k, "reserved") \/ At(k, "open")}
  BY <1>1 DEF HeldAt
<1>3. WithinLimits
  <2>1. Streaming(Clients) <= MaxPerProject
    BY <1>1 DEF Streaming, Counted, Bounded
  <2>2. ASSUME NEW i \in Ips
        PROVE  Streaming({k \in Clients : IpOf[k] = i}) <= MaxPerIp
    <3>1. Streaming({k \in Clients : IpOf[k] = i}) = Cardinality(HeldAt(i))
      BY <1>2 DEF Streaming
    <3> QED
      BY <3>1 DEF Counted, Bounded
  <2> QED
    BY <2>1, <2>2 DEF WithinLimits
<1>4. SlotsReturn
  <2> SUFFICES ASSUME \A k \in Clients : At(k, "off")
               PROVE  projectCount = 0 /\ \A i \in Ips : ipCount[i] = 0
    BY DEF SlotsReturn
  <2>1. Held = {} /\ \A i : HeldAt(i) = {}
    BY DEF Held, HeldAt, HeldWhileStreaming, At
  <2> QED
    BY <2>1, FS_EmptySet DEF Counted
<1> QED
  BY <1>3, <1>4

\* The counters of SSELimiter are the slots that are held (api.py).
THEOREM SlotInvariant == Spec => []SlotInv
<1>1. Init => SlotInv
  BY InitSlots
<1>2. SlotInv /\ [Next]_vars => SlotInv'
  BY NextKeepsSlots
<1> QED
  BY <1>1, <1>2, PTL DEF Spec

\* No more streams run in a Project, or for an address, than the limits allow.
THEOREM AlwaysWithinLimits == Spec => []WithinLimits
<1>1. SlotInv => WithinLimits
  BY SlotInvImplies
<1> QED
  BY <1>1, SlotInvariant, PTL

\* With no stream left no slot is taken.
THEOREM SlotsAlwaysReturn == Spec => []SlotsReturn
<1>1. SlotInv => SlotsReturn
  BY SlotInvImplies
<1> QED
  BY <1>1, SlotInvariant, PTL

-------------------------------------------------------------------------------
(* The order of what is received. *)

\* Numbers that no event has yet are above every event's.
Numbered ==
    /\ nextValue = 0 => events = {}
    /\ \A e \in events : e.seq < nextValue
    /\ \A e, f \in events : e.seq = f.seq => e = f

LogInv == LogTypeOK /\ IsFiniteSet(events) /\ Numbered

\* n was given to an event of rows already, or is no event's.
Given(n) == n = 0 \/ n < nextValue

StreamTypes ==
    /\ cursor \in [Clients -> Nat]
    /\ page \in [Clients -> SUBSET Nat]
    /\ wire \in [Clients -> Seq(Nat)]
    /\ seen \in [Clients -> Nat]

\* A stream that is not open holds nothing and one that starts has not sent.
Quiet(k) ==
    /\ stage[k] # "open" => page[k] = {} /\ wire[k] = <<>>
    /\ stage[k] = "reserved" => cursor[k] = seen[k]

\* Received, on the way, fetched: each comes before the next, and none was
\* numbered by a transaction to come.
Sorted(k) ==
    /\ Given(seen[k]) /\ Given(cursor[k]) /\ \A n \in page[k] : Given(n)
    /\ stage[k] = "open" => seen[k] <= cursor[k]
    /\ \A i \in 1..Len(wire[k]) : seen[k] < wire[k][i] /\ wire[k][i] <= cursor[k]
    /\ \A i, j \in 1..Len(wire[k]) : i < j => wire[k][i] < wire[k][j]
    /\ \A n \in page[k] : cursor[k] < n

\* What the client has not received up to the cursor is on the way, and the
\* page has no hole.
NothingSkipped(k) ==
    /\ stage[k] = "open" =>
         \A e \in events : seen[k] < e.seq /\ e.seq <= cursor[k] =>
            \E i \in 1..Len(wire[k]) : wire[k][i] = e.seq
    /\ \A n \in page[k] : \A e \in events :
         cursor[k] < e.seq /\ e.seq < n => e.seq \in page[k]

OrderInv ==
    /\ LogInv
    /\ stage \in [Clients -> Stages]
    /\ StreamTypes
    /\ \A k \in Clients : Quiet(k) /\ Sorted(k) /\ NothingSkipped(k)

\* A set of numbers that is not empty has a minimum.
LEMMA LeastOfNumbers ==
    ASSUME NEW T, T \subseteq Nat, T # {}
    PROVE  Min(T) \in T /\ \A t \in T : Min(T) <= t
<1>1. IsWellFoundedOn(OpToRel(<, Nat), Nat)
  BY NatLessThanWellFounded
<1>2. PICK m \in T : \A t \in T : ~(<<t, m>> \in OpToRel(<, Nat))
  BY <1>1, WFMin
<1>3. \A t \in T : ~(t < m)
  BY <1>2 DEF OpToRel
<1>4. m \in T /\ \A t \in T : m <= t
  BY <1>3
<1> QED
  BY <1>4 DEF Min

\* One more event, after the removal of those before c, is above every number
\* that was given out.
LEMMA LogGrows ==
    ASSUME LogInv, NEW c \in Nat, NEW kind \in Kinds,
           Emit({e \in events : e.seq >= c}, kind, None, 0),
           c = 0 \/ nextValue # 0
    PROVE  /\ LogInv'
           /\ \A n \in Nat : Given(n) => Given(n)'
           /\ \A e \in events' : e \in events \/ \A n \in Nat : Given(n) => n < e.seq
<1> DEFINE kept == {e \in events : e.seq >= c}
           n == NextNumber(kept)
           new == [seq |-> n, kind |-> kind, by |-> None, of |-> 0]
<1> USE DEF LogInv
<1>1. kept \subseteq events
  OBVIOUS
<1>2. n \in Nat \ {0} /\ n = IF nextValue = 0 THEN 1 ELSE nextValue
  <2>1. CASE nextValue = 0
    <3>1. kept = {}
      BY <2>1 DEF Numbered
    <3> QED
      BY <2>1, <3>1 DEF NextNumber, LatestOf
  <2>2. CASE nextValue # 0
    BY <2>2 DEF NextNumber, LogTypeOK
  <2> QED
    BY <2>1, <2>2
<1>3. events' = kept \cup {new} /\ nextValue' = n + 1
  BY DEF Emit
<1> HIDE DEF n
<1>4. new \in Rows /\ new.seq = n
  BY <1>2 DEF Rows
<1>5. \A e \in events : e.seq \in Nat /\ e.seq < n
  BY <1>2 DEF Numbered, LogTypeOK, Rows
<1>6. LogTypeOK'
  BY <1>1, <1>2, <1>3, <1>4 DEF LogTypeOK
<1>7. IsFiniteSet(events')
  BY <1>1, <1>3, FS_Subset, FS_AddElement
<1>8. Numbered'
  BY <1>1, <1>2, <1>3, <1>4, <1>5 DEF Numbered
<1>9. \A i \in Nat : Given(i) => Given(i)' /\ i < n
  BY <1>2, <1>3 DEF Given, LogTypeOK
<1> QED
  BY <1>1, <1>3, <1>4, <1>6, <1>7, <1>8, <1>9

\* What a page brings has not been sent, and an event that it leaves out is
\* beyond it.
LEMMA PageJoins ==
    ASSUME LogInv, NEW n \in Nat
    PROVE  LET fetched == Numbers(PageAfter(n)) IN
           /\ fetched \subseteq Nat
           /\ \A x \in fetched : n < x /\ Given(x)
           /\ \A x \in fetched : \A e \in events : n < e.seq /\ e.seq < x => e.seq \in fetched
<1> DEFINE Between(e) == {f \in events : n < f.seq /\ f.seq < e.seq}
<1>1. PageAfter(n) \subseteq events
      /\ \A e \in PageAfter(n) : e.seq \in Nat /\ n < e.seq /\ Given(e.seq)
  BY DEF PageAfter, LogInv, LogTypeOK, Rows, Numbered, Given
<1>2. ASSUME NEW g \in PageAfter(n), NEW e \in events, n < e.seq, e.seq < g.seq
      PROVE  e \in PageAfter(n)
  <2>1. IsFiniteSet(Between(g)) /\ IsFiniteSet(Between(e))
    BY FS_Subset DEF LogInv
  <2>2. Between(e) \subseteq Between(g)
    BY <1>1, <1>2 DEF LogInv, LogTypeOK, Rows
  <2>3. Cardinality(Between(e)) <= Cardinality(Between(g))
    BY <2>1, <2>2, FS_Subset
  <2>4. Cardinality(Between(e)) \in Nat /\ Cardinality(Between(g)) \in Nat
    BY <2>1, FS_CardinalityType
  <2>5. Cardinality(Between(g)) < PageLimit
    BY <1>2 DEF PageAfter
  <2>6. Cardinality(Between(e)) < PageLimit
    BY <2>3, <2>4, <2>5, LogAssumption
  <2> QED
    BY <1>2, <2>6 DEF PageAfter
<1> QED
  BY <1>1, <1>2 DEF Numbers

LEMMA InitOrder == Init => OrderInv
BY FS_EmptySet DEF Init, LogInit, OrderInv, LogInv, LogTypeOK, Numbered, StreamTypes, Quiet, Sorted,
   NothingSkipped, Given, Stages

\* What a transaction appends is beyond every stream, and what it removes need
\* not be sent.
LEMMA WritesKeepOrder ==
    ASSUME OrderInv, UNCHANGED <<streams, slots>>, NEW c \in Nat, NEW kind \in Kinds,
           Emit({e \in events : e.seq >= c}, kind, None, 0),
           c = 0 \/ nextValue # 0
    PROVE  OrderInv'
<1> USE DEF streams, slots
<1>1. /\ LogInv'
      /\ \A n \in Nat : Given(n) => Given(n)'
      /\ \A e \in events' : e \in events \/ \A n \in Nat : Given(n) => n < e.seq
  BY LogGrows DEF OrderInv
<1>2. StreamTypes' /\ stage' \in [Clients -> Stages]
  BY DEF OrderInv, StreamTypes
<1>3. ASSUME NEW k \in Clients
      PROVE  Quiet(k)' /\ Sorted(k)' /\ NothingSkipped(k)'
  <2>1. /\ seen[k] \in Nat /\ cursor[k] \in Nat /\ page[k] \subseteq Nat
        /\ Quiet(k) /\ Sorted(k) /\ NothingSkipped(k)
    BY DEF OrderInv, StreamTypes
  <2>2. Quiet(k)' /\ Sorted(k)'
    BY <1>1, <2>1 DEF Quiet, Sorted
  <2>3. \A e \in events' : e \in events \/ (cursor[k] < e.seq /\ \A n \in page[k] : n < e.seq)
    <3>1. Given(cursor[k]) /\ \A n \in page[k] : n \in Nat /\ Given(n)
      BY <2>1 DEF Sorted
    <3> QED
      BY <1>1, <2>1, <3>1
  <2>4. \A e \in events' : e.seq \in Nat
    BY <1>1 DEF LogInv, LogTypeOK, Rows
  <2>5. NothingSkipped(k)'
    <3>1. \A e \in events' : seen[k] < e.seq /\ e.seq <= cursor[k] => e \in events
      BY <2>1, <2>3, <2>4
    <3>2. \A n \in page[k] : \A e \in events' : cursor[k] < e.seq /\ e.seq < n => e \in events
      BY <2>1, <2>3, <2>4
    <3> QED
      BY <2>1, <3>1, <3>2 DEF NothingSkipped
  <2> QED
    BY <2>2, <2>5
<1> QED
  BY <1>1, <1>2, <1>3 DEF OrderInv

\* Steps of one client leave the log and the others alone.
LEMMA OneClient ==
    ASSUME OrderInv, NEW k \in Clients, UNCHANGED log,
           stage' \in [Clients -> Stages], StreamTypes',
           \A o \in Clients \ {k} :
               /\ stage'[o] = stage[o] /\ cursor'[o] = cursor[o] /\ page'[o] = page[o]
               /\ wire'[o] = wire[o] /\ seen'[o] = seen[o],
           Quiet(k)' /\ Sorted(k)' /\ NothingSkipped(k)'
    PROVE  OrderInv'
<1>1. LogInv' /\ \A n : Given(n)' <=> Given(n)
  BY DEF OrderInv, LogInv, LogTypeOK, Numbered, log, Given
<1>2. ASSUME NEW o \in Clients \ {k}
      PROVE  Quiet(o)' /\ Sorted(o)' /\ NothingSkipped(o)'
  <2>1. Quiet(o) /\ Sorted(o) /\ NothingSkipped(o)
    BY DEF OrderInv
  <2>2. events' = events
    BY DEF log
  <2>3. Quiet(o)' /\ Sorted(o)'
    BY <1>1, <2>1 DEF Quiet, Sorted
  <2>4. NothingSkipped(o)'
    BY <2>1, <2>2 DEF NothingSkipped
  <2> QED
    BY <2>3, <2>4
<1> QED
  BY <1>1, <1>2 DEF OrderInv

LEMMA ConnectKeepsOrder ==
    ASSUME OrderInv, NEW k \in Clients, NEW after \in {0, seen[k]}, NEW header \in {0, seen[k]},
           Connect(k, after, header)
    PROVE  OrderInv'
<1> USE DEF OrderInv, Connect, At, Goto
<1>1. seen[k] \in Nat /\ ResumeAt(after, header) = seen[k]
  BY DEF StreamTypes, ResumeAt
<1>2. /\ stage' = [stage EXCEPT ![k] = "reserved"]
      /\ cursor' = [cursor EXCEPT ![k] = seen[k]]
      /\ UNCHANGED <<log, page, wire, seen>>
  BY <1>1
<1>3. Quiet(k)' /\ Sorted(k)' /\ NothingSkipped(k)'
  BY <1>1, <1>2 DEF StreamTypes, Quiet, Sorted, NothingSkipped, Given, log
<1>4. StreamTypes' /\ stage' \in [Clients -> Stages]
  BY <1>1, <1>2 DEF StreamTypes, Stages
<1> QED
  BY <1>2, <1>3, <1>4, OneClient DEF StreamTypes

LEMMA StartKeepsOrder ==
    ASSUME OrderInv, NEW k \in Clients, Start(k)
    PROVE  OrderInv'
<1> USE DEF OrderInv, Start, At, Goto
<1>1. Quiet(k)' /\ Sorted(k)' /\ NothingSkipped(k)'
  <2>1. /\ page[k] = {} /\ wire[k] = <<>> /\ cursor[k] = seen[k] /\ seen[k] \in Nat
        /\ Sorted(k) /\ stage'[k] = "open"
    BY DEF Quiet, StreamTypes
  <2>2. \A e \in events : e.seq \in Nat
    BY DEF LogInv, LogTypeOK, Rows
  <2>3. UNCHANGED <<events, nextValue, page, wire, cursor, seen>>
    BY DEF log, streams
  <2>4. Quiet(k)'
    BY <2>1 DEF Quiet
  <2>5. Sorted(k)'
    BY <2>1, <2>3 DEF Sorted, Given
  <2>6. NothingSkipped(k)'
    BY <2>1, <2>2, <2>3 DEF NothingSkipped
  <2> QED
    BY <2>4, <2>5, <2>6
<1>2. StreamTypes' /\ stage' \in [Clients -> Stages]
  BY DEF StreamTypes, Stages, streams
<1> QED
  BY <1>1, <1>2, OneClient DEF StreamTypes, streams

\* A stream that ends, in the generator or in the response.
LEMMA EndKeepsOrder ==
    ASSUME OrderInv, NEW k \in Clients, Disconnect(k) \/ EndResponse(k)
    PROVE  OrderInv'
<1> USE DEF OrderInv, Disconnect, EndResponse, At, Goto
<1>1. /\ UNCHANGED log /\ UNCHANGED seen
      /\ stage' \in [Clients -> Stages] /\ stage'[k] \in {"off", "closing"}
      /\ cursor' = [cursor EXCEPT ![k] = 0]
      /\ \A o \in Clients \ {k} :
           stage'[o] = stage[o] /\ page'[o] = page[o] /\ wire'[o] = wire[o]
  <2>1. CASE Disconnect(k)
    BY <2>1 DEF Stages, StreamTypes
  <2>2. CASE EndResponse(k)
    BY <2>2 DEF Stages
  <2> QED
    BY <2>1, <2>2
<1>2. StreamTypes' /\ page'[k] = {} /\ wire'[k] = <<>>
  <2>1. CASE Disconnect(k)
    BY <2>1 DEF StreamTypes
  <2>2. CASE EndResponse(k)
    BY <2>2 DEF StreamTypes, Quiet
  <2> QED
    BY <2>1, <2>2
<1>3. cursor'[k] = 0 /\ seen'[k] = seen[k]
  BY <1>1 DEF StreamTypes
<1>4. Quiet(k)' /\ Sorted(k)' /\ NothingSkipped(k)'
  BY <1>1, <1>2, <1>3 DEF StreamTypes, Quiet, Sorted, NothingSkipped, Given, log
<1> QED
  BY <1>1, <1>2, <1>4, OneClient DEF StreamTypes

LEMMA FetchKeepsOrder ==
    ASSUME OrderInv, NEW k \in Clients, Fetch(k)
    PROVE  OrderInv'
<1> DEFINE fetched == Numbers(PageAfter(cursor[k]))
<1> USE DEF OrderInv, Fetch, At, slots
<1>1. /\ UNCHANGED <<log, cursor, wire, seen, stage>>
      /\ page' = [page EXCEPT ![k] = fetched]
  OBVIOUS
<1>2. /\ fetched \subseteq Nat
      /\ \A x \in fetched : cursor[k] < x /\ Given(x)
      /\ \A x \in fetched : \A e \in events :
           cursor[k] < e.seq /\ e.seq < x => e.seq \in fetched
  BY PageJoins DEF StreamTypes
<1>3. stage[k] = "open"
  OBVIOUS
<1> HIDE DEF fetched
<1>4. StreamTypes' /\ page'[k] = fetched
  BY <1>1, <1>2 DEF StreamTypes
<1>5. Quiet(k)' /\ Sorted(k)' /\ NothingSkipped(k)'
  <2>1. Quiet(k) /\ Sorted(k) /\ NothingSkipped(k) /\ UNCHANGED <<events, nextValue>>
    BY <1>1 DEF log
  <2>2. Quiet(k)'
    BY <1>1, <1>3, <2>1 DEF Quiet
  <2>3. Sorted(k)'
    BY <1>1, <1>2, <1>4, <2>1 DEF Sorted, Given
  <2>4. NothingSkipped(k)'
    BY <1>1, <1>2, <1>4, <2>1 DEF NothingSkipped
  <2> QED
    BY <2>2, <2>3, <2>4
<1> QED
  BY <1>1, <1>4, <1>5, OneClient DEF StreamTypes

\* The least number of the page: nothing in the log is between the cursor and it.
LEMMA YieldKeepsOrder ==
    ASSUME OrderInv, NEW k \in Clients, Yield(k)
    PROVE  OrderInv'
<1> DEFINE n == Min(page[k])
<1> USE DEF OrderInv, Yield, slots
<1>1. /\ UNCHANGED <<log, seen, stage>>
      /\ cursor' = [cursor EXCEPT ![k] = n]
      /\ page' = [page EXCEPT ![k] = page[k] \ {n}]
      /\ wire' = [wire EXCEPT ![k] = Append(wire[k], n)]
  OBVIOUS
<1>2. /\ page[k] \subseteq Nat /\ page[k] # {} /\ wire[k] \in Seq(Nat)
      /\ seen[k] \in Nat /\ cursor[k] \in Nat
      /\ Quiet(k) /\ Sorted(k) /\ NothingSkipped(k)
  BY DEF StreamTypes
<1>3. n \in page[k] /\ \A t \in page[k] : n <= t
  BY <1>2, LeastOfNumbers
<1> HIDE DEF n
<1>4. stage[k] = "open" /\ n \in Nat /\ cursor[k] < n /\ Given(n)
  BY <1>2, <1>3 DEF Quiet, Sorted
<1>5. StreamTypes'
  BY <1>1, <1>2, <1>4 DEF StreamTypes
<1>6. /\ cursor'[k] = n /\ page'[k] = page[k] \ {n} /\ wire'[k] = Append(wire[k], n)
      /\ seen'[k] = seen[k] /\ stage'[k] = "open" /\ events' = events /\ nextValue' = nextValue
  BY <1>1, <1>4 DEF StreamTypes, log
<1> DEFINE l == Len(wire[k])
<1>7. /\ l \in Nat /\ Len(Append(wire[k], n)) = l + 1
      /\ \A i \in 1..l : Append(wire[k], n)[i] = wire[k][i]
      /\ Append(wire[k], n)[l + 1] = n
      /\ \A i \in 1..l : wire[k][i] \in Nat
  BY <1>2, <1>4
<1>8. Quiet(k)'
  BY <1>6 DEF Quiet
<1>9. Sorted(k)'
  <2>1. Given(seen[k]) /\ Given(n) /\ \A t \in page[k] \ {n} : Given(t) /\ n < t
    BY <1>2, <1>3, <1>4 DEF Sorted
  <2>2. seen[k] < n
    BY <1>2, <1>4 DEF Sorted
  <2>3. \A i \in 1..(l + 1) : seen[k] < wire'[k][i] /\ wire'[k][i] <= n
    <3> TAKE i \in 1..(l + 1)
    <3>1. CASE i = l + 1
      BY <1>4, <1>6, <1>7, <2>2, <3>1
    <3>2. CASE i \in 1..l
      <4>1. seen[k] < wire[k][i] /\ wire[k][i] <= cursor[k]
        BY <1>2, <3>2 DEF Sorted
      <4> QED
        BY <1>2, <1>4, <1>6, <1>7, <3>2, <4>1
    <3> QED
      BY <1>7, <3>1, <3>2
  <2>4. \A i, j \in 1..(l + 1) : i < j => wire'[k][i] < wire'[k][j]
    <3> SUFFICES ASSUME NEW i \in 1..(l + 1), NEW j \in 1..(l + 1), i < j
                 PROVE  wire'[k][i] < wire'[k][j]
      OBVIOUS
    <3>1. i \in 1..l /\ wire'[k][i] = wire[k][i]
      BY <1>6, <1>7
    <3>2. CASE j = l + 1
      <4>1. wire[k][i] <= cursor[k]
        BY <1>2, <3>1 DEF Sorted
      <4> QED
        BY <1>2, <1>4, <1>6, <1>7, <3>1, <3>2, <4>1
    <3>3. CASE j \in 1..l
      BY <1>2, <1>6, <1>7, <3>1, <3>3 DEF Sorted
    <3> QED
      BY <1>7, <3>2, <3>3
  <2>5. Len(wire'[k]) = l + 1
    BY <1>6, <1>7
  <2>6. Given(seen[k])' /\ Given(cursor[k])' /\ \A t \in (page[k])' : Given(t)'
    BY <1>6, <2>1 DEF Given
  <2> HIDE DEF l
  <2> QED
    BY <1>2, <1>4, <1>6, <2>1, <2>2, <2>3, <2>4, <2>5, <2>6 DEF Sorted
<1>10. NothingSkipped(k)'
  <2>1. ASSUME NEW e \in events, seen[k] < e.seq, e.seq <= n
        PROVE  \E i \in 1..(l + 1) : wire'[k][i] = e.seq
    <3>1. e.seq \in Nat
      BY DEF LogInv, LogTypeOK, Rows
    <3>2. CASE e.seq <= cursor[k]
      <4>1. PICK i \in 1..l : wire[k][i] = e.seq
        BY <1>2, <1>4, <2>1, <3>2 DEF NothingSkipped
      <4> QED
        BY <1>6, <1>7, <4>1
    <3>3. CASE cursor[k] < e.seq
      <4>1. e.seq = n
        BY <1>2, <1>3, <1>4, <2>1, <3>1, <3>3 DEF NothingSkipped
      <4> QED
        BY <1>6, <1>7, <4>1
    <3> QED
      BY <1>2, <3>1, <3>2, <3>3
  <2>2. ASSUME NEW t \in page[k] \ {n}, NEW e \in events, n < e.seq, e.seq < t
        PROVE  e.seq \in page[k] \ {n}
    <3>1. e.seq \in Nat
      BY DEF LogInv, LogTypeOK, Rows
    <3>2. cursor[k] < e.seq /\ e.seq # n /\ t \in page[k]
      BY <1>2, <1>4, <2>2, <3>1
    <3>3. e.seq \in page[k]
      BY <1>2, <2>2, <3>2 DEF NothingSkipped
    <3> QED
      BY <3>2, <3>3
  <2>3. Len(wire'[k]) = l + 1
    BY <1>6, <1>7
  <2> HIDE DEF l
  <2> QED
    BY <1>6, <2>1, <2>2, <2>3 DEF NothingSkipped
<1> QED
  BY <1>1, <1>5, <1>8, <1>9, <1>10, OneClient DEF StreamTypes

\* What a client receives is next: it was sent after what came before it, and
\* the events up to what follows are on the way.
LEMMA ReceiveKeepsOrder ==
    ASSUME OrderInv, NEW k \in Clients, Receive(k)
    PROVE  /\ OrderInv'
           /\ seen[k] < seen'[k]
           /\ \A e \in events : ~(seen[k] < e.seq /\ e.seq < seen'[k])
<1> DEFINE n == Head(wire[k])
           l == Len(wire[k])
<1> USE DEF OrderInv, Receive, slots
<1>1. /\ UNCHANGED <<log, cursor, page, stage>>
      /\ seen' = [seen EXCEPT ![k] = n]
      /\ wire' = [wire EXCEPT ![k] = Tail(wire[k])]
  OBVIOUS
<1>2. /\ page[k] \subseteq Nat /\ wire[k] \in Seq(Nat) /\ wire[k] # <<>>
      /\ seen[k] \in Nat /\ cursor[k] \in Nat
      /\ Quiet(k) /\ Sorted(k) /\ NothingSkipped(k)
  BY DEF StreamTypes
<1>3. /\ l \in Nat \ {0} /\ n = wire[k][1] /\ Len(Tail(wire[k])) = l - 1
      /\ \A i \in 1..(l - 1) : Tail(wire[k])[i] = wire[k][i + 1]
      /\ \A i \in 1..l : wire[k][i] \in Nat
  BY <1>2
<1>4. n \in Nat /\ Tail(wire[k]) \in Seq(Nat)
  BY <1>2
<1>5. StreamTypes'
  BY <1>1, <1>4 DEF StreamTypes
<1>6. /\ seen'[k] = n /\ wire'[k] = Tail(wire[k]) /\ cursor'[k] = cursor[k] /\ page'[k] = page[k]
      /\ stage'[k] = stage[k] /\ events' = events /\ nextValue' = nextValue
  BY <1>1 DEF StreamTypes, log
<1> HIDE DEF n, l
<1>7. stage[k] = "open"
  BY <1>2 DEF Quiet
<1>8. seen[k] < n /\ n <= cursor[k] /\ Given(n)
  BY <1>2, <1>3, <1>4 DEF Sorted, Given, l, LogInv, LogTypeOK
<1>9. Quiet(k)'
  BY <1>6, <1>7 DEF Quiet
<1>10. \A i \in 1..(l - 1) : /\ wire'[k][i] = wire[k][i + 1] /\ i + 1 \in 1..l
                             /\ n < wire[k][i + 1] /\ wire[k][i + 1] <= cursor[k]
  <2> TAKE i \in 1..(l - 1)
  <2>1. i + 1 \in 1..l /\ 1 \in 1..l /\ 1 < i + 1
    BY <1>3
  <2>2. wire[k][1] < wire[k][i + 1] /\ wire[k][i + 1] <= cursor[k]
    BY <1>2, <2>1 DEF Sorted, l
  <2> QED
    BY <1>3, <1>6, <2>1, <2>2
<1>11. \A i, j \in 1..(l - 1) : i < j => wire'[k][i] < wire'[k][j]
  <2> SUFFICES ASSUME NEW i \in 1..(l - 1), NEW j \in 1..(l - 1), i < j
               PROVE  wire'[k][i] < wire'[k][j]
    OBVIOUS
  <2>1. i + 1 \in 1..l /\ j + 1 \in 1..l /\ i + 1 < j + 1
    BY <1>3
  <2>2. wire[k][i + 1] < wire[k][j + 1]
    BY <1>2, <2>1 DEF Sorted, l
  <2> QED
    BY <1>10, <2>2
<1>12. Sorted(k)'
  BY <1>2, <1>3, <1>6, <1>8, <1>10, <1>11 DEF Sorted, Given
<1>13. \A e \in events : e.seq \in Nat
  BY DEF LogInv, LogTypeOK, Rows
<1>14. ASSUME NEW e \in events, seen[k] < e.seq, e.seq <= cursor[k]
       PROVE  e.seq = n \/ (n < e.seq /\ \E i \in 1..(l - 1) : wire'[k][i] = e.seq)
  <2>1. PICK i \in 1..l : wire[k][i] = e.seq
    BY <1>2, <1>7, <1>14 DEF NothingSkipped, l
  <2>2. CASE i = 1
    <3>1. e.seq = wire[k][1]
      BY <2>1, <2>2
    <3> QED
      BY <1>3, <3>1
  <2>3. CASE i # 1
    <3>1. i - 1 \in 1..(l - 1) /\ (i - 1) + 1 = i
      BY <1>3, <2>3
    <3> QED
      BY <1>10, <2>1, <3>1
  <2> QED
    BY <2>2, <2>3
<1>15. NothingSkipped(k)'
  <2>1. \A e \in events : n < e.seq /\ e.seq <= cursor[k] =>
            \E i \in 1..(l - 1) : wire'[k][i] = e.seq
    <3> SUFFICES ASSUME NEW e \in events, n < e.seq, e.seq <= cursor[k]
                 PROVE  \E i \in 1..(l - 1) : wire'[k][i] = e.seq
      OBVIOUS
    <3>1. e.seq \in Nat /\ seen[k] < e.seq /\ e.seq # n
      BY <1>2, <1>4, <1>8, <1>13
    <3> QED
      BY <1>14, <3>1
  <2>2. Len(wire'[k]) = l - 1
    BY <1>3, <1>6
  <2>3. \A t \in page[k] : \A e \in events :
            cursor[k] < e.seq /\ e.seq < t => e.seq \in page[k]
    BY <1>2 DEF NothingSkipped
  <2> QED
    BY <1>6, <2>1, <2>2, <2>3 DEF NothingSkipped
<1>16. OrderInv'
  BY <1>1, <1>5, <1>9, <1>12, <1>15, OneClient DEF StreamTypes
<1> QED
  BY <1>2, <1>4, <1>6, <1>8, <1>13, <1>14, <1>16

LEMMA NextKeepsOrder == OrderInv /\ [Next]_vars => OrderInv'
<1> SUFFICES ASSUME OrderInv, [Next]_vars PROVE OrderInv'
  OBVIOUS
<1>1. CASE AppendEvent
  <2>1. {e \in events : e.seq >= 0} = events
    BY DEF OrderInv, LogInv, LogTypeOK, Rows
  <2> QED
    BY <1>1, <2>1, WritesKeepOrder DEF AppendEvent, Kinds
<1>2. ASSUME NEW c \in 1..(MaxEvents + 1), Retain(c) PROVE OrderInv'
  <2>1. nextValue # 0 /\ "purged" \in Kinds /\ c \in Nat
    BY <1>2, LogAssumption DEF Retain, Purge, OrderInv, LogInv, Numbered, Kinds
  <2> QED
    BY <1>2, <2>1, WritesKeepOrder DEF Retain, Purge
<1>3. ASSUME NEW k \in Clients, NEW after \in {0, seen[k]}, NEW header \in {0, seen[k]},
             Connect(k, after, header)
      PROVE  OrderInv'
  BY <1>3, ConnectKeepsOrder
<1>4. ASSUME NEW k \in Clients,
             \/ Start(k) \/ Disconnect(k) \/ EndResponse(k)
             \/ Fetch(k) \/ Yield(k) \/ Receive(k)
      PROVE  OrderInv'
  BY <1>4, StartKeepsOrder, EndKeepsOrder, FetchKeepsOrder, YieldKeepsOrder, ReceiveKeepsOrder
<1>5. CASE UNCHANGED vars
  BY <1>5 DEF vars, log, streams, slots, OrderInv, LogInv, LogTypeOK, Numbered, StreamTypes, Quiet,
     Sorted, NothingSkipped, Given
<1> QED
  BY <1>1, <1>2, <1>3, <1>4, <1>5 DEF Next

\* For any clients and page size, a stream loses nothing between what its
\* client has received and what its generator will fetch next.
THEOREM OrderInvariant == Spec => []OrderInv
<1> QED
  BY InitOrder, NextKeepsOrder, PTL DEF Spec

\* Every variable of the stream endpoint has its type, always.
THEOREM StreamTypeCorrect == Spec => []TypeOK
<1>1. OrderInv /\ SlotInv => TypeOK
  BY DEF OrderInv, LogInv, StreamTypes, SlotInv, SlotTypes, TypeOK
<1> QED
  BY <1>1, OrderInvariant, SlotInvariant, PTL

\* Each client receives the events in the order of their numbers, none twice,
\* and passes over none that the log holds, across pages, purges, lost
\* connections and resumptions.
THEOREM AlwaysReceivedInOrder == Spec => ReceivedInOrder
<1> DEFINE Ordered ==
        \A k \in Clients : seen'[k] # seen[k] =>
          /\ seen[k] < seen'[k]
          /\ \A e \in events : ~(seen[k] < e.seq /\ e.seq < seen'[k])
<1>1. OrderInv /\ [Next]_vars => [Ordered]_vars
  <2> SUFFICES ASSUME OrderInv, Next, NEW k \in Clients, seen'[k] # seen[k]
               PROVE  /\ seen[k] < seen'[k]
                      /\ \A e \in events : ~(seen[k] < e.seq /\ e.seq < seen'[k])
    OBVIOUS
  <2>1. PICK o \in Clients : Receive(o)
    BY DEF Next, AppendEvent, Retain, Connect, Start, Disconnect, EndResponse, Fetch, Yield, streams
  <2>2. o = k
    BY <2>1 DEF Receive, OrderInv, StreamTypes
  <2> QED
    BY <2>1, <2>2, ReceiveKeepsOrder
<1> QED
  BY <1>1, OrderInvariant, PTL DEF Spec, ReceivedInOrder

-------------------------------------------------------------------------------
(* Windows that are read page by page.  Of the fetches of a window one is      *)
(* under way at a time.                                                        *)

OneAtATime == \A f, g \in Fetches : f = g

\* A row, or a position among the rows, that a transaction has given out.
Past(n) == IF view \in Snapshot THEN n <= reported ELSE Given(n)

NoHole(rows, shown) ==
    \A m \in rows : (\E a, b \in shown : a <= m /\ m <= b) => m \in shown

NothingBelow(rows, shown) == \A m \in rows : \E a \in shown : a <= m

\* What follows was given out after the answer.
NothingAbove(rows, shown, asOf) ==
    \A m \in rows : m > asOf \/ \E a \in shown : m <= a

SomethingBelow(rows, shown) == \E m \in rows : \A a \in shown : m < a

\* What a window says is true of the rows.
WindowJoins(rows, w) ==
    /\ NoHole(rows, w.shown)
    /\ w.shown # {} =>
         /\ ~w.older => NothingBelow(rows, w.shown)
         /\ view # "audit" /\ ~w.newer => NothingAbove(rows, w.shown, w.asOf)
         /\ view = "reports" /\ w.older => SomethingBelow(rows, w.shown)

Leftmost(shown, n) == n \in shown /\ \A a \in shown : n <= a
Rightmost(shown, n) == n \in shown /\ \A a \in shown : a <= n

\* A fetch is bounded by the edge of the window that it goes on from.
Asked(w, q) ==
    /\ q.want = "older" => Leftmost(w.shown, q.edge)
    /\ q.want \in {"newer", "refresh"} => Rightmost(w.shown, q.edge)
    /\ q.want = "refresh" => view = "audit"

OlderJoins(rows, q) ==
    /\ \A p \in q.page : p < q.edge
    /\ \A m \in rows : m < q.edge /\ (\E p \in q.page : p <= m) => m \in q.page
    /\ ~q.older \/ q.page = {} => NothingBelow(rows, q.page \cup {q.edge})

NewerJoins(rows, q) ==
    /\ \A p \in q.page : q.edge < p
    /\ \A m \in rows : q.edge < m /\ (\E p \in q.page : m <= p) => m \in q.page
    /\ view # "audit" /\ ~q.newer => NothingAbove(rows, q.page \cup {q.edge}, q.asOf)

TailJoins(rows, q) ==
    q.page # {} =>
       /\ ~q.older => NothingBelow(rows, q.page)
       /\ view # "audit" /\ ~q.newer => NothingAbove(rows, q.page, q.asOf)

\* An answer joins the window at its edge, and what it says of the rows beyond
\* it is true.
Answered(rows, q) ==
    /\ NoHole(rows, q.page)
    /\ q.want = "older" => OlderJoins(rows, q)
    /\ q.want \in {"newer", "refresh"} => NewerJoins(rows, q)
    /\ q.want = "tail" => TailJoins(rows, q)
    /\ view = "reports" /\ q.want \in {"tail", "older"} /\ q.older =>
         q.page # {} /\ SomethingBelow(rows, q.page)

\* Everything that is held was given out.
HeldPast ==
    /\ Past(window.asOf) /\ \A n \in window.shown : Past(n)
    /\ \A f \in Fetches :
         Past(fetch[f].asOf) /\ \A n \in fetch[f].page : Past(n)

ViewsInv ==
    /\ LogInv
    /\ ViewsTypeOK
    /\ HeldPast
    /\ WindowJoins(Matching, window)
    /\ \A f \in Fetches :
         /\ fetch[f].stage # "idle" => Asked(window, fetch[f])
         /\ fetch[f].stage = "probe" => fetch[f].want = "tail"
         /\ fetch[f].stage = "answered" => Answered(Matching, fetch[f])

\* A bounded set of numbers that is not empty has a maximum.
LEMMA GreatestOfNumbers ==
    ASSUME NEW T, T \subseteq Nat, T # {},
           NEW b \in Nat, \A t \in T : t <= b
    PROVE  Max(T) \in T /\ \A t \in T : t <= Max(T)
<1> DEFINE U == {b - t : t \in T}
<1>1. U \subseteq Nat /\ U # {}
  <2>1. \A t \in T : b - t \in Nat
    OBVIOUS
  <2>2. PICK t \in T : TRUE
    OBVIOUS
  <2>3. b - t \in U
    OBVIOUS
  <2> QED
    BY <2>1, <2>3
<1> HIDE DEF U
<1>2. Min(U) \in U /\ \A u \in U : Min(U) <= u
  BY <1>1, LeastOfNumbers
<1>3. PICK x \in T : Min(U) = b - x
  BY <1>2 DEF U
<1>4. \A t \in T : b - x <= b - t
  BY <1>2, <1>3 DEF U
<1>5. \A t \in T : t <= x
  BY <1>4
<1> QED
  BY <1>3, <1>5 DEF Max

\* The highest rows of a bounded set: all above one of them are among them.
LEMMA HighestIs ==
    ASSUME NEW T, T \subseteq Nat, NEW b \in Nat, \A t \in T : t <= b
    PROVE  /\ Highest(T) \subseteq T
           /\ \A h \in Highest(T) : \A t \in T : h <= t => t \in Highest(T)
           /\ T # {} => Max(T) \in Highest(T)
           /\ Cardinality(T) <= ViewSize => Highest(T) = T
<1> DEFINE Over(m) == {k \in T : k > m}
<1>1. IsFiniteSet(T)
  BY FS_BoundedSetOfNaturals
<1>2. \A m : IsFiniteSet(Over(m)) /\ Cardinality(Over(m)) \in Nat
  BY <1>1, FS_Subset, FS_CardinalityType
<1>3. \A h, t \in T : h <= t => Over(t) \subseteq Over(h)
  <2> SUFFICES ASSUME NEW h \in T, NEW t \in T, h <= t, NEW k \in T, k > t
               PROVE  k > h
    OBVIOUS
  <2>1. h \in Nat /\ t \in Nat /\ k \in Nat
    OBVIOUS
  <2> QED
    BY <2>1
<1>4. Highest(T) = {m \in T : Cardinality(Over(m)) < ViewSize}
  BY DEF Highest
<1>5. ViewSize \in Nat \ {0}
  BY ViewsAssumption
<1>6. \A h \in Highest(T) : \A t \in T : h <= t => t \in Highest(T)
  <2> SUFFICES ASSUME NEW h \in Highest(T), NEW t \in T, h <= t
               PROVE  Cardinality(Over(t)) < ViewSize
    BY <1>4
  <2>1. Over(t) \subseteq Over(h)
    BY <1>3, <1>4
  <2>2. Cardinality(Over(t)) <= Cardinality(Over(h))
    BY <1>2, <2>1, FS_Subset
  <2>3. Cardinality(Over(h)) < ViewSize
    BY <1>4
  <2> QED
    BY <1>2, <1>5, <2>2, <2>3
<1>7. ASSUME T # {} PROVE Max(T) \in Highest(T)
  <2>1. Max(T) \in T /\ \A t \in T : t <= Max(T)
    BY <1>7, GreatestOfNumbers
  <2>2. \A k \in T : ~(k > Max(T))
    <3> SUFFICES ASSUME NEW k \in T PROVE ~(k > Max(T))
      OBVIOUS
    <3>1. k \in Nat /\ Max(T) \in Nat
      BY <2>1
    <3> QED
      BY <2>1, <3>1
  <2>3. Over(Max(T)) = {}
    BY <2>2
  <2>4. Cardinality(Over(Max(T))) = 0
    BY <2>3, FS_EmptySet
  <2> QED
    BY <1>4, <1>5, <2>1, <2>4
<1>8. ASSUME Cardinality(T) <= ViewSize PROVE Highest(T) = T
  <2> SUFFICES ASSUME NEW t \in T PROVE Cardinality(Over(t)) < ViewSize
    BY <1>4
  <2>1. Over(t) \subseteq T /\ Over(t) # T
    OBVIOUS
  <2>2. Cardinality(Over(t)) <= Cardinality(T) /\ Cardinality(Over(t)) # Cardinality(T)
    BY <1>1, <2>1, FS_Subset
  <2>3. Cardinality(T) \in Nat
    BY <1>1, FS_CardinalityType
  <2> QED
    BY <1>2, <1>5, <1>8, <2>2, <2>3
<1> QED
  BY <1>4, <1>6, <1>7, <1>8

\* The lowest rows: all below one of them are among them.
LEMMA LowestIs ==
    ASSUME NEW T, T \subseteq Nat, NEW b \in Nat, \A t \in T : t <= b
    PROVE  /\ Lowest(T) \subseteq T
           /\ \A h \in Lowest(T) : \A t \in T : t <= h => t \in Lowest(T)
           /\ T # {} => Min(T) \in Lowest(T)
<1> DEFINE Under(m) == {k \in T : k < m}
<1>1. IsFiniteSet(T)
  BY FS_BoundedSetOfNaturals
<1>2. \A m : IsFiniteSet(Under(m)) /\ Cardinality(Under(m)) \in Nat
  BY <1>1, FS_Subset, FS_CardinalityType
<1>3. \A h, t \in T : t <= h => Under(t) \subseteq Under(h)
  <2> SUFFICES ASSUME NEW h \in T, NEW t \in T, t <= h, NEW k \in T, k < t
               PROVE  k < h
    OBVIOUS
  <2>1. h \in Nat /\ t \in Nat /\ k \in Nat
    OBVIOUS
  <2> QED
    BY <2>1
<1>4. Lowest(T) = {m \in T : Cardinality(Under(m)) < ViewSize}
  BY DEF Lowest
<1>5. ViewSize \in Nat \ {0}
  BY ViewsAssumption
<1>6. \A h \in Lowest(T) : \A t \in T : t <= h => t \in Lowest(T)
  <2> SUFFICES ASSUME NEW h \in Lowest(T), NEW t \in T, t <= h
               PROVE  Cardinality(Under(t)) < ViewSize
    BY <1>4
  <2>1. Under(t) \subseteq Under(h)
    BY <1>3, <1>4
  <2>2. Cardinality(Under(t)) <= Cardinality(Under(h))
    BY <1>2, <2>1, FS_Subset
  <2>3. Cardinality(Under(h)) < ViewSize
    BY <1>4
  <2> QED
    BY <1>2, <1>5, <2>2, <2>3
<1>7. ASSUME T # {} PROVE Min(T) \in Lowest(T)
  <2>1. Min(T) \in T /\ \A t \in T : Min(T) <= t
    BY <1>7, LeastOfNumbers
  <2>2. \A k \in T : ~(k < Min(T))
    <3> SUFFICES ASSUME NEW k \in T PROVE ~(k < Min(T))
      OBVIOUS
    <3>1. k \in Nat /\ Min(T) \in Nat
      BY <2>1
    <3> QED
      BY <2>1, <3>1
  <2>3. Under(Min(T)) = {}
    BY <2>2
  <2>4. Cardinality(Under(Min(T))) = 0
    BY <2>3, FS_EmptySet
  <2> QED
    BY <1>4, <1>5, <2>1, <2>4
<1> QED
  BY <1>4, <1>6, <1>7

\* What is past is bounded, and so are the rows of a view.
LEMMA RowsArePast ==
    ASSUME LogInv, ViewsTypeOK
    PROVE  /\ \E b \in Nat : \A n \in Nat : Past(n) => n <= b
           /\ Matching \subseteq Nat \ {0}
           /\ \A m \in Matching : Past(m)
           /\ LatestSeen \in Nat /\ Past(LatestSeen)
<1>1. CASE view \in Snapshot
  <2>1. reported \in Nat /\ reports \subseteq 1..reported
    BY ViewsAssumption DEF ViewsTypeOK
  <2>2. Matching = reports /\ LatestSeen = reported /\ \A n : Past(n) <=> n <= reported
    BY <1>1 DEF Matching, LatestSeen, Past
  <2> QED
    BY <2>1, <2>2
<1>2. CASE view \notin Snapshot
  <2>1. nextValue \in Nat /\ \A n : Past(n) <=> (n = 0 \/ n < nextValue)
    BY <1>2 DEF Past, Given, LogInv, LogTypeOK
  <2>2. Numbers(events) \subseteq Nat \ {0} /\ \A n \in Numbers(events) : n < nextValue
    BY DEF Numbers, LogInv, LogTypeOK, Rows, Numbered
  <2>3. Matching \subseteq Numbers(events)
    BY <1>2 DEF Matching, Messages, Numbers
  <2>4. LatestSeen = LatestOf(events)
    BY <1>2 DEF LatestSeen, Latest
  <2>5. LatestOf(events) \in Nat /\ Past(LatestOf(events))
    <3>1. CASE events = {}
      BY <2>1, <3>1 DEF LatestOf
    <3>2. CASE events # {}
      <4>1. Numbers(events) # {} /\ \A n \in Numbers(events) : n <= nextValue
        BY <2>1, <2>2, <3>2 DEF Numbers
      <4>2. Max(Numbers(events)) \in Numbers(events)
        BY <2>1, <2>2, <4>1, GreatestOfNumbers
      <4> QED
        BY <2>1, <2>2, <3>2, <4>2 DEF LatestOf
    <3> QED
      BY <3>1, <3>2
  <2>6. \A n \in Nat : Past(n) => n <= nextValue
    BY <2>1
  <2>7. \A m \in Matching : Past(m)
    BY <2>1, <2>2, <2>3
  <2> QED
    BY <2>1, <2>2, <2>3, <2>4, <2>5, <2>6, <2>7
<1> QED
  BY <1>1, <1>2

-------------------------------------------------------------------------------
(* The answers. *)

\* Which rows a page has.
LEMMA AnswerPage ==
    ASSUME view \in Views, NEW edge,
           NEW want \in {"tail", "older", "newer", "refresh"},
           want = "refresh" => view = "audit"
    PROVE  Answer(want, edge).page =
               IF want \in {"newer", "refresh"} THEN Later(edge)
               ELSE IF want = "older" \/ view = "audit" THEN Earlier(edge)
               ELSE Highest(Matching)
<1>1. CASE view = "audit"
  BY <1>1 DEF Answer, AuditAnswer, Snapshot
<1>2. CASE view = "timeline"
  BY <1>2 DEF Answer, TimelineAnswer, Snapshot
<1>3. CASE view \in Snapshot
  BY <1>3 DEF Answer, ReportsAnswer, Snapshot
<1> QED
  BY <1>1, <1>2, <1>3 DEF Views, Snapshot

\* What the flags of an answer say of the rows beyond its page.
LEMMA FlagsTrue ==
    ASSUME LogInv, ViewsTypeOK, NEW edge, NEW want,
           Answer(want, edge).page \subseteq Matching
    PROVE  LET r == Answer(want, edge) IN
           /\ r.older \in BOOLEAN /\ r.newer \in BOOLEAN
           /\ r.page = {} => ~r.older /\ ~r.newer
           /\ r.page # {} =>
                /\ want \notin {"newer", "refresh"} /\ ~r.older => NothingBelow(Matching, r.page)
                /\ ~r.newer => \A m \in Matching : \E p \in r.page : m <= p
                /\ view = "reports" /\ r.older => SomethingBelow(Matching, r.page)
<1> DEFINE r == Answer(want, edge)
           P == r.page
<1>1. PICK b \in Nat : \A n \in Nat : Past(n) => n <= b
  BY RowsArePast
<1>2. Matching \subseteq Nat \ {0} /\ \A m \in Matching : m <= b
  BY <1>1, RowsArePast
<1>3. P \subseteq Nat /\ \A p \in P : p <= b
  BY <1>2
<1> HIDE DEF r, P
<1>4. ASSUME P # {}
      PROVE  /\ Min(P) \in P /\ \A p \in P : Min(P) <= p
             /\ Max(P) \in P /\ \A p \in P : p <= Max(P)
             /\ Max(Matching) \in Matching /\ \A m \in Matching : m <= Max(Matching)
             /\ Min(P) \in Nat /\ Max(P) \in Nat /\ Max(Matching) \in Nat
  <2>1. Matching # {} /\ Matching \subseteq Nat
    BY <1>2, <1>4 DEF P, r
  <2>2. Min(P) \in P /\ \A p \in P : Min(P) <= p
    BY <1>3, <1>4, LeastOfNumbers
  <2>3. Max(P) \in P /\ \A p \in P : p <= Max(P)
    BY <1>3, <1>4, GreatestOfNumbers
  <2>4. Max(Matching) \in Matching /\ \A m \in Matching : m <= Max(Matching)
    BY <1>2, <2>1, GreatestOfNumbers
  <2>5. Min(P) \in Nat /\ Max(P) \in Nat /\ Max(Matching) \in Nat
    BY <1>3, <2>1, <2>2, <2>3, <2>4
  <2> QED
    BY <2>2, <2>3, <2>4, <2>5
\* The flags are probed at the first and last row of the page.
<1>5. ASSUME P # {}, Below(Min(P)) = {} PROVE NothingBelow(Matching, P)
  <2>1. \A m \in Matching : ~(m < Min(P))
    BY <1>5 DEF Below
  <2>2. \A m \in Matching : Min(P) <= m
    BY <1>2, <1>3, <1>4, <1>5, <2>1
  <2> QED
    BY <1>4, <1>5, <2>2 DEF NothingBelow
<1>6. ASSUME P # {}, Above(Max(P)) = {} PROVE \A m \in Matching : \E p \in P : m <= p
  <2>1. \A m \in Matching : ~(m > Max(P))
    BY <1>6 DEF Above
  <2>2. \A m \in Matching : m <= Max(P)
    BY <1>2, <1>3, <1>4, <1>6, <2>1
  <2> QED
    BY <1>4, <1>6, <2>2
<1>7. ASSUME P # {}, Below(Min(P)) # {} PROVE SomethingBelow(Matching, P)
  <2>1. PICK m \in Matching : m < Min(P)
    BY <1>7 DEF Below
  <2>2. \A p \in P : m < p
    BY <1>2, <1>3, <1>4, <1>7, <2>1
  <2> QED
    BY <2>2 DEF SomethingBelow
<1>8. CASE view = "audit"
  <2>1. /\ r.older <=> (want \notin {"newer", "refresh"} /\ P # {} /\ Below(Min(P)) # {})
        /\ r.newer <=> (P # {} /\ Above(Max(P)) # {})
        /\ r.older \in BOOLEAN /\ r.newer \in BOOLEAN
    BY <1>8 DEF Answer, AuditAnswer, Snapshot, r, P
  <2> QED
    BY <1>5, <1>6, <1>8, <2>1 DEF r, P
\* The timeline counts: as many rows as there are have no other below them.
<1>9. CASE view = "timeline"
  <2>1. /\ r.older <=> (P # {} /\ Min(P) > 1 /\ Cardinality(Matching) > Cardinality(P))
        /\ r.newer <=> (P # {} /\ Max(P) < Max(Matching))
        /\ r.older \in BOOLEAN /\ r.newer \in BOOLEAN
    BY <1>9 DEF Answer, TimelineAnswer, Snapshot, r, P
  <2>2. ASSUME P # {}, ~r.older PROVE NothingBelow(Matching, P)
    <3>1. ASSUME Min(P) <= 1 PROVE NothingBelow(Matching, P)
      <4>1. \A m \in Matching : Min(P) <= m
        BY <1>2, <1>3, <1>4, <2>2, <3>1
      <4> QED
        BY <1>4, <2>2, <4>1 DEF NothingBelow
    <3>2. IsFiniteSet(Matching)
      BY <1>2, FS_BoundedSetOfNaturals
    <3>3. /\ Cardinality(P) <= Cardinality(Matching) /\ IsFiniteSet(P)
          /\ (Cardinality(Matching) = Cardinality(P) => Matching = P)
      BY <3>2, FS_Subset DEF P, r
    <3>4. Cardinality(P) \in Nat /\ Cardinality(Matching) \in Nat
      BY <3>2, <3>3, FS_CardinalityType
    <3>5. ASSUME Matching = P PROVE NothingBelow(Matching, P)
      BY <1>2, <3>5 DEF NothingBelow
    <3>6. Min(P) \in Nat
      BY <1>3, <1>4, <2>2
    <3>7. Min(P) <= 1 \/ Cardinality(Matching) <= Cardinality(P)
      BY <2>1, <2>2, <3>4, <3>6
    <3> QED
      BY <3>1, <3>3, <3>4, <3>5, <3>7
  <2>3. ASSUME P # {}, ~r.newer PROVE \A m \in Matching : \E p \in P : m <= p
    <3>1. Max(Matching) <= Max(P)
      BY <1>2, <1>3, <1>4, <2>1, <2>3
    <3>2. \A m \in Matching : m <= Max(P)
      <4> TAKE m \in Matching
      <4>1. m <= Max(Matching) /\ m \in Nat /\ Max(Matching) \in Nat /\ Max(P) \in Nat
        BY <1>2, <1>4, <2>3
      <4> QED
        BY <3>1, <4>1
    <3> QED
      BY <1>4, <2>3, <3>2
  <2> QED
    BY <1>9, <2>1, <2>2, <2>3 DEF r, P
<1>10. CASE view \in Snapshot
  <2>1. /\ r.older <=> (P # {} /\ Below(Min(P)) # {})
        /\ r.newer <=> (P # {} /\ Above(Max(P)) # {})
        /\ r.older \in BOOLEAN /\ r.newer \in BOOLEAN
    BY <1>10 DEF Answer, ReportsAnswer, Snapshot, r, P
  <2> QED
    BY <1>5, <1>6, <1>7, <2>1 DEF r, P
<1> QED
  BY <1>8, <1>9, <1>10 DEF ViewsTypeOK, Views, Snapshot

\* The server's answer joins the edge that it was asked for.
LEMMA AnswerJoins ==
    ASSUME LogInv, ViewsTypeOK, NEW q, q.edge \in Nat,
           q.want \in {"tail", "older", "newer", "refresh"},
           q.want = "refresh" => view = "audit",
           q.page = Answer(q.want, q.edge).page,
           q.older = Answer(q.want, q.edge).older,
           q.newer = Answer(q.want, q.edge).newer
    PROVE  q.page \subseteq Matching /\ Answered(Matching, q)
           /\ q.older \in BOOLEAN /\ q.newer \in BOOLEAN
<1> DEFINE P == q.page
<1>1. PICK b \in Nat : \A n \in Nat : Past(n) => n <= b
  BY RowsArePast
<1>2. Matching \subseteq Nat /\ \A m \in Matching : m <= b
  BY <1>1, RowsArePast
<1>3. P = IF q.want \in {"newer", "refresh"} THEN Later(q.edge)
          ELSE IF q.want = "older" \/ view = "audit" THEN Earlier(q.edge)
          ELSE Highest(Matching)
  BY AnswerPage DEF ViewsTypeOK
<1> HIDE DEF P
<1>4. ASSUME q.want \in {"newer", "refresh"}
      PROVE  /\ P \subseteq Matching /\ NoHole(Matching, P)
             /\ \A p \in P : q.edge < p
             /\ \A m \in Matching : q.edge < m /\ (\E p \in P : m <= p) => m \in P
             /\ P = {} => \A m \in Matching : m <= q.edge
  <2>1. Above(q.edge) \subseteq Nat /\ \A m \in Above(q.edge) : m <= b
    BY <1>2 DEF Above
  <2>2. /\ P \subseteq Above(q.edge)
        /\ \A h \in P : \A t \in Above(q.edge) : t <= h => t \in P
        /\ Above(q.edge) # {} => P # {}
    BY <1>3, <1>4, <2>1, LowestIs DEF Later
  <2>3. \A m \in Matching : m \in Above(q.edge) <=> q.edge < m
    BY <1>2 DEF Above
  <2>4. P \subseteq Matching /\ \A p \in P : q.edge < p /\ p \in Nat
    BY <2>1, <2>2 DEF Above
  <2>5. NoHole(Matching, P)
    <3> SUFFICES ASSUME NEW m \in Matching, NEW a \in P, NEW z \in P, a <= m, m <= z
                 PROVE  m \in P
      BY DEF NoHole
    <3>1. q.edge < m
      BY <1>2, <2>4
    <3> QED
      BY <2>2, <2>3, <3>1
  <2>6. P = {} => \A m \in Matching : m <= q.edge
    BY <1>2, <2>2, <2>3
  <2> QED
    BY <2>2, <2>3, <2>4, <2>5, <2>6
<1>5. ASSUME q.want \notin {"newer", "refresh"}, q.want = "older" \/ view = "audit"
      PROVE  /\ P \subseteq Matching /\ NoHole(Matching, P)
             /\ \A p \in P : p < q.edge
             /\ \A m \in Matching : m < q.edge /\ (\E p \in P : p <= m) => m \in P
             /\ P = {} => \A m \in Matching : q.edge <= m
  <2>1. Below(q.edge) \subseteq Nat /\ \A m \in Below(q.edge) : m <= b
    BY <1>2 DEF Below
  <2>2. /\ P \subseteq Below(q.edge)
        /\ \A h \in P : \A t \in Below(q.edge) : h <= t => t \in P
        /\ Below(q.edge) # {} => P # {}
    BY <1>3, <1>5, <2>1, HighestIs DEF Earlier
  <2>3. \A m \in Matching : m \in Below(q.edge) <=> m < q.edge
    BY <1>2 DEF Below
  <2>4. P \subseteq Matching /\ \A p \in P : p < q.edge /\ p \in Nat
    BY <2>1, <2>2 DEF Below
  <2>5. NoHole(Matching, P)
    <3> SUFFICES ASSUME NEW m \in Matching, NEW a \in P, NEW z \in P, a <= m, m <= z
                 PROVE  m \in P
      BY DEF NoHole
    <3>1. m < q.edge
      BY <1>2, <2>4
    <3> QED
      BY <2>2, <2>3, <3>1
  <2>6. P = {} => \A m \in Matching : q.edge <= m
    BY <1>2, <2>2, <2>3
  <2> QED
    BY <2>2, <2>3, <2>4, <2>5, <2>6
<1>6. ASSUME q.want = "tail", view # "audit"
      PROVE  P \subseteq Matching /\ NoHole(Matching, P)
  <2>1. /\ P \subseteq Matching
        /\ \A h \in P : \A t \in Matching : h <= t => t \in P
    BY <1>2, <1>3, <1>6, HighestIs
  <2> QED
    BY <2>1 DEF NoHole
<1>7. P \subseteq Matching /\ NoHole(Matching, P)
  BY <1>4, <1>5, <1>6
<1>8. /\ q.older \in BOOLEAN /\ q.newer \in BOOLEAN
      /\ P = {} => ~q.older /\ ~q.newer
      /\ P # {} =>
           /\ q.want \notin {"newer", "refresh"} /\ ~q.older => NothingBelow(Matching, P)
           /\ ~q.newer => \A m \in Matching : \E p \in P : m <= p
           /\ view = "reports" /\ q.older => SomethingBelow(Matching, P)
  BY <1>7, FlagsTrue DEF P
<1>9. q.want = "older" => OlderJoins(Matching, q)
  <2> SUFFICES ASSUME q.want = "older", ~q.older \/ P = {}
               PROVE  NothingBelow(Matching, P \cup {q.edge})
    BY <1>5 DEF OlderJoins, P
  <2>1. CASE P = {}
    BY <1>5, <2>1 DEF NothingBelow
  <2>2. CASE P # {}
    <3>1. NothingBelow(Matching, P)
      BY <1>8, <2>2
    <3> QED
      BY <3>1 DEF NothingBelow
  <2> QED
    BY <2>1, <2>2
<1>10. q.want \in {"newer", "refresh"} => NewerJoins(Matching, q)
  <2> SUFFICES ASSUME q.want \in {"newer", "refresh"}, ~q.newer
               PROVE  NothingAbove(Matching, P \cup {q.edge}, q.asOf)
    BY <1>4 DEF NewerJoins, P
  <2> QED
    BY <1>4, <1>8 DEF NothingAbove
<1>11. q.want = "tail" => TailJoins(Matching, q)
  BY <1>8 DEF TailJoins, NothingAbove, P
<1> QED
  BY <1>7, <1>8, <1>9, <1>10, <1>11 DEF Answered, P

-------------------------------------------------------------------------------
(* The writers. *)

\* Rows that are removed, and one that was not given out before, change nothing
\* of what a window says.
LEMMA WindowStays ==
    ASSUME NEW rows, NEW more, rows \subseteq Nat, more \subseteq Nat,
           \A m \in more : m \in rows \/ \A n \in Nat : Past(n) => n < m,
           view = "reports" => rows \subseteq more,
           NEW w, w.shown \subseteq Nat, w.asOf \in Nat,
           Past(w.asOf), \A n \in w.shown : Past(n),
           WindowJoins(rows, w)
    PROVE  WindowJoins(more, w)
<1>1. \A m \in more : m \in rows \/ (m > w.asOf /\ \A n \in w.shown : n < m)
  OBVIOUS
<1>2. NoHole(more, w.shown)
  BY <1>1 DEF WindowJoins, NoHole
<1>3. ASSUME w.shown # {}, ~w.older PROVE NothingBelow(more, w.shown)
  BY <1>1, <1>3 DEF WindowJoins, NothingBelow
<1>4. ASSUME w.shown # {}, view # "audit", ~w.newer PROVE NothingAbove(more, w.shown, w.asOf)
  BY <1>1, <1>4 DEF WindowJoins, NothingAbove
<1>5. ASSUME w.shown # {}, view = "reports", w.older PROVE SomethingBelow(more, w.shown)
  BY <1>5 DEF WindowJoins, SomethingBelow
<1> QED
  BY <1>2, <1>3, <1>4, <1>5 DEF WindowJoins

\* Nor of what an answer says that is on its way.
LEMMA AnswerStays ==
    ASSUME NEW rows, NEW more, rows \subseteq Nat, more \subseteq Nat,
           \A m \in more : m \in rows \/ \A n \in Nat : Past(n) => n < m,
           view = "reports" => rows \subseteq more,
           NEW q, q.page \subseteq Nat, q.asOf \in Nat, q.edge \in Nat,
           Past(q.asOf), \A n \in q.page : Past(n), q.want # "tail" => Past(q.edge),
           Answered(rows, q)
    PROVE  Answered(more, q)
<1>1. \A m \in more :
        m \in rows \/ (/\ m > q.asOf /\ \A n \in q.page : n < m
                       /\ q.want # "tail" => q.edge < m)
  OBVIOUS
<1>2. NoHole(more, q.page)
  BY <1>1 DEF Answered, NoHole
<1>3. ASSUME q.want = "older" PROVE OlderJoins(more, q)
  <2>1. OlderJoins(rows, q)
    BY <1>3 DEF Answered
  <2>2. \A m \in more : m < q.edge => m \in rows
    <3> SUFFICES ASSUME NEW m \in more, m < q.edge PROVE m \in rows
      OBVIOUS
    <3>1. m \in Nat /\ q.want # "tail"
      BY <1>3
    <3> QED
      BY <1>1, <3>1
  <2>3. ASSUME ~q.older \/ q.page = {} PROVE NothingBelow(more, q.page \cup {q.edge})
    BY <1>1, <1>3, <2>1, <2>3 DEF OlderJoins, NothingBelow
  <2> QED
    BY <2>1, <2>2, <2>3 DEF OlderJoins
<1>4. ASSUME q.want \in {"newer", "refresh"} PROVE NewerJoins(more, q)
  <2>1. NewerJoins(rows, q)
    BY <1>4 DEF Answered
  <2>2. \A m \in more : (\E p \in q.page : m <= p) => m \in rows
    <3> SUFFICES ASSUME NEW m \in more, NEW p \in q.page, m <= p PROVE m \in rows
      OBVIOUS
    <3>1. m \in Nat /\ p \in Nat
      OBVIOUS
    <3> QED
      BY <1>1, <3>1
  <2>3. ASSUME view # "audit", ~q.newer PROVE NothingAbove(more, q.page \cup {q.edge}, q.asOf)
    BY <1>1, <2>1, <2>3 DEF NewerJoins, NothingAbove
  <2> QED
    BY <2>1, <2>2, <2>3 DEF NewerJoins
<1>5. ASSUME q.want = "tail", q.page # {} PROVE TailJoins(more, q)
  <2>1. TailJoins(rows, q)
    BY <1>5 DEF Answered
  <2>2. ASSUME ~q.older PROVE NothingBelow(more, q.page)
    BY <1>1, <1>5, <2>1, <2>2 DEF TailJoins, NothingBelow
  <2>3. ASSUME view # "audit", ~q.newer PROVE NothingAbove(more, q.page, q.asOf)
    BY <1>1, <1>5, <2>1, <2>3 DEF TailJoins, NothingAbove
  <2> QED
    BY <2>2, <2>3 DEF TailJoins
<1>6. ASSUME view = "reports", q.want \in {"tail", "older"}, q.older
      PROVE  q.page # {} /\ SomethingBelow(more, q.page)
  BY <1>6 DEF Answered, SomethingBelow
<1> QED
  BY <1>2, <1>3, <1>4, <1>5, <1>6 DEF Answered, TailJoins

\* A transaction that adds one row at most, above all that were given out.
LEMMA WritesKeepJoined ==
    ASSUME ViewsInv, UNCHANGED <<view, window, fetch>>, LogInv', ViewsTypeOK',
           \A m \in Matching' : m \in Matching \/ \A n \in Nat : Past(n) => n < m,
           view = "reports" => Matching \subseteq Matching',
           \A n \in Nat : Past(n) => Past(n)'
    PROVE  ViewsInv'
<1> USE DEF ViewsInv
<1>1. /\ Matching \subseteq Nat /\ Matching' \subseteq Nat
      /\ window.shown \subseteq Nat /\ window.asOf \in Nat
  <2>1. Matching \subseteq Nat
    BY RowsArePast
  <2>2. reports' \subseteq Nat /\ events' \subseteq Rows
    BY DEF ViewsTypeOK, LogInv, LogTypeOK
  <2>3. Messages' \subseteq Rows
    BY <2>2 DEF Messages
  <2>4. Numbers(Messages)' \subseteq Nat
    BY <2>3 DEF Numbers, Rows
  <2>5. Matching' \subseteq Nat
    BY <2>2, <2>4 DEF Matching
  <2> QED
    BY <2>1, <2>5 DEF ViewsTypeOK
<1>2. \A f \in Fetches : fetch[f].page \subseteq Nat /\ fetch[f].asOf \in Nat /\ fetch[f].edge \in Nat
                         /\ fetch[f].want \in {"tail", "older", "newer", "refresh"}
  BY DEF ViewsTypeOK
<1>3. HeldPast'
  BY <1>1, <1>2 DEF HeldPast
<1> DEFINE rows == Matching
           more == Matching'
<1>4. WindowJoins(more, window)
  <2>1. /\ WindowJoins(rows, window) /\ Past(window.asOf) /\ \A n \in window.shown : Past(n)
        /\ rows \subseteq Nat /\ more \subseteq Nat
        /\ \A m \in more : m \in rows \/ \A n \in Nat : Past(n) => n < m
        /\ view = "reports" => rows \subseteq more
    BY <1>1 DEF HeldPast
  <2> HIDE DEF rows, more
  <2> QED
    BY <1>1, <2>1, WindowStays
<1>5. WindowJoins(Matching, window)'
  BY <1>4 DEF WindowJoins, NoHole, NothingBelow, NothingAbove, SomethingBelow
<1>6. ASSUME NEW f \in Fetches, fetch[f].stage = "answered"
      PROVE  Answered(more, fetch[f])
  <2>1. fetch[f].want # "tail" => fetch[f].edge \in window.shown
    BY <1>2, <1>6 DEF Asked, Leftmost, Rightmost
  <2>2. /\ Answered(rows, fetch[f]) /\ Past(fetch[f].asOf) /\ \A n \in fetch[f].page : Past(n)
        /\ fetch[f].want # "tail" => Past(fetch[f].edge)
        /\ rows \subseteq Nat /\ more \subseteq Nat
        /\ \A m \in more : m \in rows \/ \A n \in Nat : Past(n) => n < m
        /\ view = "reports" => rows \subseteq more
    BY <1>1, <1>6, <2>1 DEF HeldPast
  <2> HIDE DEF rows, more
  <2> DEFINE q == fetch[f]
  <2>3. q.page \subseteq Nat /\ q.asOf \in Nat /\ q.edge \in Nat
    BY <1>2
  <2> HIDE DEF q
  <2>4. Answered(more, q)
    BY <2>2, <2>3, AnswerStays DEF q
  <2> QED
    BY <2>4 DEF q
<1>7. ASSUME NEW f \in Fetches
      PROVE  /\ (fetch[f].stage # "idle" => Asked(window, fetch[f]))'
             /\ (fetch[f].stage = "probe" => fetch[f].want = "tail")'
             /\ (fetch[f].stage = "answered" => Answered(Matching, fetch[f]))'
  <2>1. (fetch[f].stage # "idle" => Asked(window, fetch[f]))'
        /\ (fetch[f].stage = "probe" => fetch[f].want = "tail")'
    BY DEF Asked, Leftmost, Rightmost
  <2>2. (fetch[f].stage = "answered" => Answered(Matching, fetch[f]))'
    BY <1>6 DEF Answered, OlderJoins, NewerJoins, TailJoins, NoHole, NothingBelow, NothingAbove,
       SomethingBelow
  <2> QED
    BY <2>1, <2>2
<1> QED
  BY <1>3, <1>5, <1>7

\* The writers of LogViews.
LEMMA WriteStep ==
    ASSUME ViewsInv,
           \/ \E kind \in {"message", "notice"} : Write(kind)
           \/ \E c \in 1..(MaxEvents + 1) : Expire(c)
           \/ Report
    PROVE  ViewsInv'
<1> USE DEF ViewsInv
<1>1. ASSUME NEW c \in Nat, NEW kind \in Kinds \ {"acknowledged"},
             Emit({e \in events : e.seq >= c}, kind, None, 0), c = 0 \/ nextValue # 0,
             UNCHANGED <<view, window, fetch, reported>>,
             reports' \subseteq reports, view # "acks" => reports' = reports
      PROVE  ViewsInv'
  <2>1. /\ LogInv'
        /\ \A n \in Nat : Given(n) => Given(n)'
        /\ \A e \in events' : e \in events \/ \A n \in Nat : Given(n) => n < e.seq
    BY <1>1, LogGrows
  <2>2. ViewsTypeOK'
    BY <1>1, <2>1 DEF ViewsTypeOK, LogInv
  <2>3. \A n \in Nat : Past(n) => Past(n)'
    BY <1>1, <2>1 DEF Past
  <2>4. \A m \in Matching' : m \in Matching \/ \A n \in Nat : Past(n) => n < m
    <3>1. CASE view \in Snapshot
      BY <1>1, <3>1 DEF Matching
    <3>2. CASE view \notin Snapshot
      <4> SUFFICES ASSUME NEW e \in events', e.kind = "message", e \notin events
                   PROVE  \A n \in Nat : Past(n) => n < e.seq
        BY <1>1, <3>2 DEF Matching, Numbers, Messages
      <4> QED
        BY <2>1, <3>2 DEF Past
    <3> QED
      BY <3>1, <3>2
  <2>5. view = "reports" => Matching \subseteq Matching'
    BY <1>1 DEF Matching, Snapshot
  <2> QED
    BY <1>1, <2>1, <2>2, <2>3, <2>4, <2>5, WritesKeepJoined
<1>2. CASE \E kind \in {"message", "notice"} : Write(kind)
  <2>1. {e \in events : e.seq >= 0} = events
    BY DEF LogInv, LogTypeOK, Rows
  <2>2. PICK kind \in {"message", "notice"} : Write(kind)
    BY <1>2
  <2>3. kind \in Kinds \ {"acknowledged"}
    BY DEF Kinds
  <2> QED
    BY <1>1, <2>1, <2>2, <2>3 DEF Write
<1>3. CASE \E c \in 1..(MaxEvents + 1) : Expire(c)
  <2>1. PICK c \in 1..(MaxEvents + 1) : Expire(c)
    BY <1>3
  <2>2. c \in Nat /\ "purged" \in Kinds \ {"acknowledged"}
    BY LogAssumption DEF Kinds
  <2>3. nextValue # 0
    BY <2>1 DEF Expire, Purge, LogInv, Numbered
  <2>4. reports' \subseteq reports /\ (view # "acks" => reports' = reports)
    BY <2>1 DEF Expire
  <2> QED
    BY <1>1, <2>1, <2>2, <2>3, <2>4 DEF Expire, Purge
<1>4. CASE Report
  <2>1. /\ view \in Snapshot /\ reported' = reported + 1 /\ reports' = reports \cup {reported + 1}
        /\ UNCHANGED <<events, nextValue, view, window, fetch>> /\ reported < MaxReports
    BY <1>4 DEF Report, log
  <2>2. reported \in Nat /\ reported' \in 0..MaxReports /\ reports \subseteq 1..reported
    BY <2>1, ViewsAssumption DEF ViewsTypeOK
  <2>3. LogInv' /\ ViewsTypeOK'
    <3>1. LogInv' /\ LogTypeOK'
      BY <2>1 DEF LogInv, LogTypeOK, Numbered
    <3>2. reports' \subseteq 1..reported'
      <4> SUFFICES ASSUME NEW n \in reports' PROVE n \in 1..(reported + 1)
        BY <2>1
      <4>1. n \in 1..reported \/ n = reported + 1
        BY <2>1, <2>2
      <4> QED
        BY <2>2, <4>1
    <3> QED
      BY <2>1, <2>2, <3>1, <3>2 DEF ViewsTypeOK
  <2>4. \A n \in Nat : Past(n) => Past(n)'
    BY <2>1, <2>2 DEF Past
  <2>5. \A m \in Matching' : m \in Matching \/ \A n \in Nat : Past(n) => n < m
    BY <2>1, <2>2 DEF Matching, Past
  <2>6. view = "reports" => Matching \subseteq Matching'
    BY <2>1 DEF Matching
  <2> QED
    BY <2>1, <2>3, <2>4, <2>5, <2>6, WritesKeepJoined
<1> QED
  BY <1>2, <1>3, <1>4

-------------------------------------------------------------------------------
(* The readers. *)

\* A step of one fetch that leaves the log and the window alone.
LEMMA FetchStep ==
    ASSUME ViewsInv, UNCHANGED <<log, view, window, reports, reported>>,
           NEW f \in Fetches, NEW q, fetch' = [fetch EXCEPT ![f] = q],
           q \in [stage : {"idle", "probe", "asked", "answered"},
                  want : {"tail", "older", "newer", "refresh"},
                  edge : Nat, live : BOOLEAN, page : SUBSET Nat,
                  older : BOOLEAN, newer : BOOLEAN, asOf : Nat],
           Past(q.asOf), \A n \in q.page : Past(n),
           q.stage # "idle" => Asked(window, q),
           q.stage = "probe" => q.want = "tail",
           q.stage = "answered" => Answered(Matching, q)
    PROVE  ViewsInv'
<1> USE DEF ViewsInv, log
<1>1. /\ events' = events /\ nextValue' = nextValue /\ Matching' = Matching
      /\ LogInv' /\ LogTypeOK'
  BY DEF LogInv, LogTypeOK, Numbered, Matching, Numbers, Messages
<1>2. ViewsTypeOK'
  BY <1>1 DEF ViewsTypeOK
<1>3. \A n : Past(n)' <=> Past(n)
  BY <1>1 DEF Past, Given
<1>4. \A g \in Fetches : fetch'[g] = IF g = f THEN q ELSE fetch[g]
  BY DEF ViewsTypeOK
<1>5. HeldPast'
  BY <1>3, <1>4 DEF HeldPast
<1>6. WindowJoins(Matching, window)'
  BY <1>1 DEF WindowJoins, NoHole, NothingBelow, NothingAbove, SomethingBelow
<1>7. ASSUME NEW g \in Fetches
      PROVE  /\ (fetch[g].stage # "idle" => Asked(window, fetch[g]))'
             /\ (fetch[g].stage = "probe" => fetch[g].want = "tail")'
             /\ (fetch[g].stage = "answered" => Answered(Matching, fetch[g]))'
  <2> DEFINE p == fetch'[g]
  <2>1. /\ p.stage # "idle" => Asked(window, p)
        /\ p.stage = "probe" => p.want = "tail"
        /\ p.stage = "answered" => Answered(Matching, p)
    BY <1>4
  <2> HIDE DEF p
  <2>2. (p.stage # "idle" => Asked(window', p)) /\ (p.stage = "answered" => Answered(Matching', p))
    BY <1>1, <2>1
  <2>3. view' = view
    OBVIOUS
  <2> QED
    BY <2>1, <2>2, <2>3 DEF p, Asked, Leftmost, Rightmost, Answered, OlderJoins, NewerJoins,
       TailJoins, NoHole, NothingBelow, NothingAbove, SomethingBelow
<1> QED
  BY <1>1, <1>2, <1>5, <1>6, <1>7

\* Nothing is held, and the numbers of a fetch are zero, before the first.
LEMMA NothingHeld ==
    ASSUME LogInv, ViewsTypeOK
    PROVE  Past(0)
BY DEF Past, Given, ViewsTypeOK

LEMMA AskStep ==
    ASSUME ViewsInv, NEW f \in Fetches, NEW want \in {"tail", "older", "newer", "refresh"},
           NEW st \in {"probe", "asked"}, NEW edge \in Nat, Ask(f, want, st, edge),
           st = "probe" => want = "tail",
           want = "older" => Leftmost(window.shown, edge),
           want \in {"newer", "refresh"} => Rightmost(window.shown, edge),
           want = "refresh" => view = "audit"
    PROVE  ViewsInv'
<1>0. PICK live \in BOOLEAN : live = ~window.newer
  OBVIOUS
<1> DEFINE q == [NoFetch EXCEPT !.stage = st, !.want = want, !.edge = edge, !.live = live]
<1>1. fetch' = [fetch EXCEPT ![f] = q] /\ UNCHANGED <<log, view, window, reports, reported>>
  BY <1>0 DEF Ask
<1>2. /\ NoFetch \in [stage : {"idle", "probe", "asked", "answered"},
                      want : {"tail", "older", "newer", "refresh"},
                      edge : Nat, live : BOOLEAN, page : SUBSET Nat,
                      older : BOOLEAN, newer : BOOLEAN, asOf : Nat]
      /\ NoFetch.asOf = 0 /\ NoFetch.page = {}
  BY DEF NoFetch
<1>3. q \in [stage : {"idle", "probe", "asked", "answered"},
             want : {"tail", "older", "newer", "refresh"},
             edge : Nat, live : BOOLEAN, page : SUBSET Nat,
             older : BOOLEAN, newer : BOOLEAN, asOf : Nat]
  BY <1>2
<1>4. q.asOf = 0 /\ q.page = {} /\ q.stage = st /\ q.want = want /\ q.edge = edge
  BY <1>2
<1> HIDE DEF q
<1>5. Past(0)
  BY NothingHeld DEF ViewsInv
<1>6. Asked(window, q)
  BY <1>4 DEF Asked
<1> QED
  BY <1>1, <1>3, <1>4, <1>5, <1>6, FetchStep

LEMMA AskSteps ==
    ASSUME ViewsInv, NEW f \in Fetches, Open(f) \/ LoadOlder(f) \/ LoadNewer(f) \/ Refresh(f)
    PROVE  ViewsInv'
<1>1. PICK b \in Nat : \A n \in Nat : Past(n) => n <= b
  BY RowsArePast DEF ViewsInv
<1>2. window.shown \subseteq Nat /\ \A n \in window.shown : n <= b
  BY <1>1 DEF ViewsInv, ViewsTypeOK, HeldPast
<1>3. ASSUME window.shown # {}
      PROVE  /\ Min(window.shown) \in Nat /\ Leftmost(window.shown, Min(window.shown))
             /\ Max(window.shown) \in Nat /\ Rightmost(window.shown, Max(window.shown))
  <2>1. Min(window.shown) \in window.shown /\ \A n \in window.shown : Min(window.shown) <= n
    BY <1>2, <1>3, LeastOfNumbers
  <2>2. Max(window.shown) \in window.shown /\ \A n \in window.shown : n <= Max(window.shown)
    BY <1>2, <1>3, GreatestOfNumbers
  <2> QED
    BY <1>2, <2>1, <2>2 DEF Leftmost, Rightmost
<1>4. CASE Open(f)
  BY <1>4, AskStep DEF Open
<1>5. CASE LoadOlder(f)
  BY <1>3, <1>5, AskStep DEF LoadOlder
<1>6. CASE LoadNewer(f)
  BY <1>3, <1>6, AskStep DEF LoadNewer
<1>7. CASE Refresh(f)
  BY <1>3, <1>7, AskStep DEF Refresh
<1> QED
  BY <1>4, <1>5, <1>6, <1>7

LEMMA ProbeStep == ASSUME ViewsInv, NEW f \in Fetches, Probe(f) PROVE ViewsInv'
<1> DEFINE edge == LatestSeen + 1
           q == [fetch[f] EXCEPT !.stage = "asked", !.edge = edge]
<1>1. edge \in Nat
  BY RowsArePast DEF ViewsInv
<1> HIDE DEF edge
<1>2. fetch[f] \in [stage : {"idle", "probe", "asked", "answered"},
                    want : {"tail", "older", "newer", "refresh"},
                    edge : Nat, live : BOOLEAN, page : SUBSET Nat,
                    older : BOOLEAN, newer : BOOLEAN, asOf : Nat]
  BY DEF ViewsInv, ViewsTypeOK
<1>3. /\ q \in [stage : {"idle", "probe", "asked", "answered"},
                want : {"tail", "older", "newer", "refresh"},
                edge : Nat, live : BOOLEAN, page : SUBSET Nat,
                older : BOOLEAN, newer : BOOLEAN, asOf : Nat]
      /\ q.stage = "asked" /\ q.want = fetch[f].want /\ q.page = fetch[f].page
      /\ q.asOf = fetch[f].asOf
  BY <1>1, <1>2
<1>4. fetch' = [fetch EXCEPT ![f] = q] /\ UNCHANGED <<log, view, window, reports, reported>>
  BY DEF Probe, ViewsInv, ViewsTypeOK, edge
<1> HIDE DEF q
<1>5. q.want = "tail"
  BY <1>3 DEF Probe, ViewsInv
<1>6. Past(q.asOf) /\ (\A n \in q.page : Past(n)) /\ Asked(window, q)
  BY <1>3, <1>5 DEF ViewsInv, HeldPast, Asked
<1> QED
  BY <1>3, <1>4, <1>5, <1>6, FetchStep

LEMMA ReadStep == ASSUME ViewsInv, NEW f \in Fetches, Read(f) PROVE ViewsInv'
<1> DEFINE a == Answer(fetch[f].want, fetch[f].edge)
           q == [fetch[f] EXCEPT !.stage = "answered", !.page = a.page, !.older = a.older,
                                 !.newer = a.newer, !.asOf = LatestSeen]
<1>1. fetch[f] \in [stage : {"idle", "probe", "asked", "answered"},
                    want : {"tail", "older", "newer", "refresh"},
                    edge : Nat, live : BOOLEAN, page : SUBSET Nat,
                    older : BOOLEAN, newer : BOOLEAN, asOf : Nat]
  BY DEF ViewsInv, ViewsTypeOK
<1>2. fetch' = [fetch EXCEPT ![f] = q] /\ UNCHANGED <<log, view, window, reports, reported>>
  BY DEF Read
<1>3. /\ q.want = fetch[f].want /\ q.edge = fetch[f].edge /\ q.stage = "answered"
      /\ q.live = fetch[f].live
      /\ q.page = a.page /\ q.older = a.older /\ q.newer = a.newer /\ q.asOf = LatestSeen
  <2> HIDE DEF a
  <2> QED
    BY <1>1
<1>4. Asked(window, fetch[f])
  BY DEF Read, ViewsInv
<1> HIDE DEF q
<1>5. q.want = "refresh" => view = "audit"
  BY <1>3, <1>4 DEF Asked
<1>6. /\ q.page \subseteq Matching /\ Answered(Matching, q)
      /\ q.older \in BOOLEAN /\ q.newer \in BOOLEAN
  BY <1>1, <1>3, <1>5, AnswerJoins DEF ViewsInv
<1> HIDE DEF a
<1>7. /\ Matching \subseteq Nat /\ \A m \in Matching : Past(m)
      /\ LatestSeen \in Nat /\ Past(LatestSeen)
  BY RowsArePast DEF ViewsInv
<1>8. q \in [stage : {"idle", "probe", "asked", "answered"},
             want : {"tail", "older", "newer", "refresh"},
             edge : Nat, live : BOOLEAN, page : SUBSET Nat,
             older : BOOLEAN, newer : BOOLEAN, asOf : Nat]
  BY <1>1, <1>3, <1>6, <1>7 DEF q
<1>9. Asked(window, q)
  BY <1>3, <1>4 DEF Asked
<1>10. Past(q.asOf) /\ \A n \in q.page : Past(n)
  BY <1>3, <1>6, <1>7
<1> QED
  BY <1>2, <1>3, <1>6, <1>8, <1>9, <1>10, FetchStep

LEMMA LoseStep == ASSUME ViewsInv, NEW f \in Fetches, Lose(f) PROVE ViewsInv'
<1>1. /\ NoFetch \in [stage : {"idle", "probe", "asked", "answered"},
                      want : {"tail", "older", "newer", "refresh"},
                      edge : Nat, live : BOOLEAN, page : SUBSET Nat,
                      older : BOOLEAN, newer : BOOLEAN, asOf : Nat]
      /\ NoFetch.stage = "idle" /\ NoFetch.asOf = 0 /\ NoFetch.page = {}
  BY DEF NoFetch
<1>2. Past(0)
  BY NothingHeld DEF ViewsInv
<1> QED
  BY <1>1, <1>2, FetchStep DEF Lose

-------------------------------------------------------------------------------
(* Showing an answer. *)

\* Rows before the edge of a window without a hole, up to the edge: none in both.
LEMMA JoinLeft ==
    ASSUME NEW rows, rows \subseteq Nat, NEW shown, shown \subseteq Nat,
           NEW q, q.page \subseteq Nat, q.edge \in Nat,
           NoHole(rows, shown), Leftmost(shown, q.edge), OlderJoins(rows, q)
    PROVE  NoHole(rows, shown \cup q.page)
<1> SUFFICES ASSUME NEW m \in rows, NEW a \in shown \cup q.page, NEW z \in shown \cup q.page,
                    a <= m, m <= z
             PROVE  m \in shown \cup q.page
  BY DEF NoHole
<1>1. m \in Nat /\ a \in Nat /\ z \in Nat
  OBVIOUS
<1>2. CASE q.edge <= m
  <2>1. z \in shown
    BY <1>1, <1>2 DEF OlderJoins
  <2> QED
    BY <1>2, <2>1 DEF NoHole, Leftmost
<1>3. CASE m < q.edge
  <2>1. a \in q.page
    BY <1>1, <1>3 DEF Leftmost
  <2> QED
    BY <1>3, <2>1 DEF OlderJoins
<1> QED
  BY <1>1, <1>2, <1>3

\* Nor in a window with the rows that follow it.
LEMMA JoinRight ==
    ASSUME NEW rows, rows \subseteq Nat, NEW shown, shown \subseteq Nat,
           NEW q, q.page \subseteq Nat, q.edge \in Nat,
           NoHole(rows, shown), Rightmost(shown, q.edge), NewerJoins(rows, q)
    PROVE  NoHole(rows, shown \cup q.page)
<1> SUFFICES ASSUME NEW m \in rows, NEW a \in shown \cup q.page, NEW z \in shown \cup q.page,
                    a <= m, m <= z
             PROVE  m \in shown \cup q.page
  BY DEF NoHole
<1>1. m \in Nat /\ a \in Nat /\ z \in Nat
  OBVIOUS
<1>2. CASE m <= q.edge
  <2>1. a \in shown
    BY <1>1, <1>2 DEF NewerJoins
  <2> QED
    BY <1>2, <2>1 DEF NoHole, Rightmost
<1>3. CASE q.edge < m
  <2>1. z \in q.page
    BY <1>1, <1>3 DEF Rightmost
  <2> QED
    BY <1>3, <2>1 DEF NewerJoins
<1> QED
  BY <1>1, <1>2, <1>3

WindowTypes == [shown : SUBSET Nat, older : BOOLEAN, newer : BOOLEAN, asOf : Nat]

\* What is known when an answer is to be shown.
LEMMA AnswerHere ==
    ASSUME ViewsInv, NEW f \in Fetches, fetch[f].stage = "answered"
    PROVE  /\ Matching \subseteq Nat /\ Answered(Matching, fetch[f]) /\ Asked(window, fetch[f])
           /\ window \in WindowTypes /\ WindowJoins(Matching, window)
           /\ fetch[f].want \in {"tail", "older", "newer", "refresh"}
           /\ fetch[f].page \subseteq Nat /\ fetch[f].edge \in Nat /\ fetch[f].asOf \in Nat
           /\ fetch[f].older \in BOOLEAN /\ fetch[f].newer \in BOOLEAN
           /\ Past(fetch[f].asOf) /\ \A n \in fetch[f].page : Past(n)
           /\ Past(window.asOf) /\ \A n \in window.shown : Past(n)
<1>1. Matching \subseteq Nat
  BY RowsArePast DEF ViewsInv
<1> QED
  BY <1>1 DEF ViewsInv, ViewsTypeOK, HeldPast, WindowTypes

\* A window that can be shown next.
Fits(w) ==
    /\ w \in WindowTypes
    /\ WindowJoins(Matching, w)
    /\ Past(w.asOf) /\ \A n \in w.shown : Past(n)

\* An audit window shows the page, or learns that there is none.
LEMMA AuditPageFits ==
    ASSUME ViewsInv, NEW f \in Fetches, fetch[f].stage = "answered",
           view = "audit", fetch[f].want # "refresh"
    PROVE  Fits(AuditPage(fetch[f]))
<1> DEFINE q == fetch[f]
           w == AuditPage(q)
<1>1. /\ Matching \subseteq Nat /\ Answered(Matching, q) /\ Asked(window, q)
      /\ window \in WindowTypes /\ WindowJoins(Matching, window)
      /\ q.want \in {"tail", "older", "newer", "refresh"}
      /\ q.page \subseteq Nat /\ q.edge \in Nat /\ q.asOf \in Nat
      /\ q.older \in BOOLEAN /\ q.newer \in BOOLEAN
      /\ Past(q.asOf) /\ \A n \in q.page : Past(n)
      /\ Past(window.asOf) /\ \A n \in window.shown : Past(n)
  BY AnswerHere
<1> HIDE DEF q
<1>2. CASE q.want = "tail"
  <2>1. w = [shown |-> q.page, older |-> q.older, newer |-> q.newer, asOf |-> q.asOf]
    BY <1>2 DEF AuditPage
  <2> HIDE DEF w
  <2>2. /\ w.shown = q.page /\ w.older = q.older /\ w.newer = q.newer /\ w.asOf = q.asOf
        /\ w \in WindowTypes
    BY <1>1, <2>1 DEF WindowTypes
  <2>3. WindowJoins(Matching, w)
    BY <1>1, <1>2, <2>2 DEF Answered, TailJoins, WindowJoins
  <2> QED
    BY <1>1, <2>2, <2>3 DEF Fits, w, q
<1>3. CASE q.want = "older" /\ q.page # {}
  <2>1. w = [shown |-> q.page, older |-> q.older, newer |-> TRUE, asOf |-> q.asOf]
    BY <1>3 DEF AuditPage
  <2> HIDE DEF w
  <2>2. /\ w.shown = q.page /\ w.older = q.older /\ w.asOf = q.asOf
        /\ w \in WindowTypes
    BY <1>1, <2>1 DEF WindowTypes
  <2>3. ASSUME ~q.older PROVE NothingBelow(Matching, q.page)
    <3>1. NothingBelow(Matching, q.page \cup {q.edge}) /\ \A p \in q.page : p < q.edge
      BY <1>1, <1>3, <2>3 DEF Answered, OlderJoins
    <3>2. PICK x \in q.page : TRUE
      BY <1>3
    <3>3. x \in Nat /\ x < q.edge
      BY <1>1, <3>1
    <3>4. \A m \in Matching : q.edge <= m => x <= m
      BY <1>1, <3>3
    <3> QED
      BY <3>1, <3>4 DEF NothingBelow
  <2>4. WindowJoins(Matching, w)
    BY <1>1, <1>3, <2>2, <2>3, view = "audit" DEF Answered, WindowJoins
  <2> QED
    BY <1>1, <2>2, <2>4 DEF Fits, w, q
<1>4. CASE q.want = "newer" /\ q.page # {}
  <2>1. w = [shown |-> q.page, older |-> TRUE, newer |-> q.newer, asOf |-> q.asOf]
    BY <1>4 DEF AuditPage
  <2> HIDE DEF w
  <2>2. /\ w.shown = q.page /\ w.older = TRUE /\ w.asOf = q.asOf
        /\ w \in WindowTypes
    BY <1>1, <2>1 DEF WindowTypes
  <2>3. WindowJoins(Matching, w)
    BY <1>1, <1>4, <2>2, view = "audit" DEF Answered, WindowJoins
  <2> QED
    BY <1>1, <2>2, <2>3 DEF Fits, w, q
<1>5. CASE q.want = "older" /\ q.page = {}
  <2>1. w = [window EXCEPT !.older = FALSE]
    BY <1>5 DEF AuditPage
  <2> HIDE DEF w
  <2>2. /\ w.shown = window.shown /\ w.asOf = window.asOf /\ w \in WindowTypes
    BY <1>1, <2>1 DEF WindowTypes
  <2>3. NothingBelow(Matching, window.shown)
    <3>1. NothingBelow(Matching, q.page \cup {q.edge}) /\ q.edge \in window.shown
      BY <1>1, <1>5 DEF Answered, OlderJoins, Asked, Leftmost
    <3> QED
      BY <1>5, <3>1 DEF NothingBelow
  <2>4. WindowJoins(Matching, w)
    BY <1>1, <2>2, <2>3, view = "audit" DEF WindowJoins
  <2> QED
    BY <1>1, <2>2, <2>4 DEF Fits, w, q
<1>6. CASE q.want = "newer" /\ q.page = {}
  <2>1. w = [window EXCEPT !.newer = FALSE, !.asOf = q.asOf]
    BY <1>6 DEF AuditPage
  <2> HIDE DEF w
  <2>2. /\ w.shown = window.shown /\ w.asOf = q.asOf /\ w.older = window.older
        /\ w \in WindowTypes
    BY <1>1, <2>1 DEF WindowTypes
  <2>3. WindowJoins(Matching, w)
    BY <1>1, <2>2, view = "audit" DEF WindowJoins
  <2> QED
    BY <1>1, <2>2, <2>3 DEF Fits, w, q
<1> QED
  BY <1>1, <1>2, <1>3, <1>4, <1>5, <1>6 DEF q

\* A window at the live tail slides on: what it drops is at its other end.
LEMMA AuditRefreshFits ==
    ASSUME ViewsInv, NEW f \in Fetches, fetch[f].stage = "answered",
           view = "audit", fetch[f].want = "refresh"
    PROVE  Fits(AuditRefresh(fetch[f]))
<1> DEFINE q == fetch[f]
           w == AuditRefresh(q)
           merged == window.shown \cup q.page
<1>1. /\ Matching \subseteq Nat /\ Answered(Matching, q) /\ Asked(window, q)
      /\ window \in WindowTypes /\ WindowJoins(Matching, window)
      /\ q.want = "refresh"
      /\ q.page \subseteq Nat /\ q.edge \in Nat /\ q.asOf \in Nat
      /\ Past(q.asOf) /\ \A n \in q.page : Past(n)
      /\ Past(window.asOf) /\ \A n \in window.shown : Past(n)
  BY AnswerHere
<1> HIDE DEF q
<1>2. window.shown \subseteq Nat /\ window.older \in BOOLEAN /\ window.newer \in BOOLEAN
  BY <1>1 DEF WindowTypes
<1>3. CASE q.page # {} /\ q.live
  <2>1. w = [shown |-> Highest(merged),
             older |-> window.older \/ Cardinality(merged) > ViewSize,
             newer |-> FALSE, asOf |-> q.asOf]
    BY <1>3 DEF AuditRefresh
  <2>2. PICK b \in Nat : \A n \in Nat : Past(n) => n <= b
    BY RowsArePast DEF ViewsInv
  <2>3. merged \subseteq Nat /\ (\A n \in merged : Past(n)) /\ \A n \in merged : n <= b
    BY <1>1, <1>2, <2>2
  <2>4. NoHole(Matching, merged)
    BY <1>1, <1>2, JoinRight DEF Answered, Asked, WindowJoins
  <2> HIDE DEF merged
  <2>5. /\ Highest(merged) \subseteq merged
        /\ \A h \in Highest(merged) : \A t \in merged : h <= t => t \in Highest(merged)
        /\ Cardinality(merged) <= ViewSize => Highest(merged) = merged
    BY <2>2, <2>3, HighestIs
  <2>6. NoHole(Matching, Highest(merged))
    <3> SUFFICES ASSUME NEW m \in Matching, NEW a \in Highest(merged), NEW z \in Highest(merged),
                        a <= m, m <= z
                 PROVE  m \in Highest(merged)
      BY DEF NoHole
    <3>1. m \in merged
      BY <2>4, <2>5 DEF NoHole
    <3> QED
      BY <2>5, <3>1
  <2>7. PICK old \in BOOLEAN : old = (window.older \/ Cardinality(merged) > ViewSize)
    OBVIOUS
  <2>8. w = [shown |-> Highest(merged), older |-> old, newer |-> FALSE, asOf |-> q.asOf]
    BY <2>1, <2>7
  <2> HIDE DEF w
  <2>9. /\ w.shown = Highest(merged) /\ w.older = old /\ w.asOf = q.asOf
        /\ w \in WindowTypes
    BY <1>1, <2>3, <2>5, <2>8 DEF WindowTypes
  <2>10. ASSUME ~old PROVE NothingBelow(Matching, Highest(merged))
    <3>1. ~window.older /\ ~(Cardinality(merged) > ViewSize)
      BY <2>7, <2>10
    <3>2. Cardinality(merged) \in Nat /\ ViewSize \in Nat
      BY <2>2, <2>3, FS_BoundedSetOfNaturals, FS_CardinalityType, ViewsAssumption
    <3>3. Highest(merged) = merged
      BY <2>5, <3>1, <3>2
    <3>4. q.edge \in window.shown
      BY <1>1 DEF Asked, Rightmost
    <3>5. NothingBelow(Matching, window.shown)
      BY <1>1, <3>1, <3>4 DEF WindowJoins
    <3> QED
      BY <3>3, <3>5 DEF NothingBelow, merged
  <2>11. WindowJoins(Matching, w)
    BY <2>6, <2>9, <2>10, view = "audit" DEF WindowJoins
  <2> QED
    BY <1>1, <2>3, <2>5, <2>9, <2>11 DEF Fits, w, q
<1>4. CASE ~(q.page # {} /\ q.live)
  <2>1. PICK new \in BOOLEAN : new = (q.page # {} \/ window.newer)
    OBVIOUS
  <2>2. w = [window EXCEPT !.newer = new, !.asOf = q.asOf]
    BY <1>4, <2>1 DEF AuditRefresh
  <2> HIDE DEF w
  <2>3. /\ w.shown = window.shown /\ w.asOf = q.asOf /\ w.older = window.older
        /\ w \in WindowTypes
    BY <1>1, <2>2 DEF WindowTypes
  <2>4. WindowJoins(Matching, w)
    BY <1>1, <2>3, view = "audit" DEF WindowJoins
  <2> QED
    BY <1>1, <2>3, <2>4 DEF Fits, w, q
<1> QED
  BY <1>3, <1>4 DEF q

\* The two edges at which a window grows: what an answer says of the rows beyond
\* its page holds of the window that has taken it in.
LEMMA GrowsLeft ==
    ASSUME NEW rows, rows \subseteq Nat, NEW w, w.shown \subseteq Nat,
           NEW q, q.page \subseteq Nat, q.edge \in Nat, q.want = "older",
           WindowJoins(rows, w), Answered(rows, q), Asked(w, q)
    PROVE  /\ NoHole(rows, w.shown \cup q.page)
           /\ ~q.older => NothingBelow(rows, w.shown \cup q.page)
           /\ view # "audit" /\ ~w.newer => NothingAbove(rows, w.shown \cup q.page, w.asOf)
           /\ view = "reports" /\ q.older => SomethingBelow(rows, w.shown \cup q.page)
<1>1. Leftmost(w.shown, q.edge) /\ OlderJoins(rows, q)
  BY DEF Asked, Answered
<1>2. NoHole(rows, w.shown \cup q.page)
  BY <1>1, JoinLeft DEF WindowJoins
<1>3. ASSUME ~q.older PROVE NothingBelow(rows, w.shown \cup q.page)
  <2>1. NothingBelow(rows, q.page \cup {q.edge}) /\ q.edge \in w.shown
    BY <1>1, <1>3 DEF OlderJoins, Leftmost
  <2> QED
    BY <2>1 DEF NothingBelow
<1>4. ASSUME view # "audit", ~w.newer
      PROVE  NothingAbove(rows, w.shown \cup q.page, w.asOf)
  <2>1. NothingAbove(rows, w.shown, w.asOf)
    BY <1>1, <1>4 DEF WindowJoins, Leftmost
  <2> QED
    BY <2>1 DEF NothingAbove
<1>5. ASSUME view = "reports", q.older
      PROVE  SomethingBelow(rows, w.shown \cup q.page)
  <2>1. q.page # {} /\ SomethingBelow(rows, q.page)
    BY <1>5 DEF Answered
  <2>2. PICK m \in rows : \A p \in q.page : m < p
    BY <2>1 DEF SomethingBelow
  <2>3. PICK p \in q.page : TRUE
    BY <2>1
  <2>4. m \in Nat /\ p \in Nat /\ m < p /\ p < q.edge
    BY <1>1, <2>2, <2>3 DEF OlderJoins
  <2>5. \A a \in w.shown : m < a
    BY <1>1, <2>4 DEF Leftmost
  <2> QED
    BY <2>2, <2>5 DEF SomethingBelow
<1> QED
  BY <1>2, <1>3, <1>4, <1>5

LEMMA GrowsRight ==
    ASSUME NEW rows, rows \subseteq Nat, NEW w, w.shown \subseteq Nat,
           NEW q, q.page \subseteq Nat, q.edge \in Nat, q.want = "newer",
           WindowJoins(rows, w), Answered(rows, q), Asked(w, q)
    PROVE  /\ NoHole(rows, w.shown \cup q.page)
           /\ ~w.older => NothingBelow(rows, w.shown \cup q.page)
           /\ view # "audit" /\ ~q.newer => NothingAbove(rows, w.shown \cup q.page, q.asOf)
           /\ view = "reports" /\ w.older => SomethingBelow(rows, w.shown \cup q.page)
<1>1. Rightmost(w.shown, q.edge) /\ NewerJoins(rows, q)
  BY DEF Asked, Answered
<1>2. NoHole(rows, w.shown \cup q.page)
  BY <1>1, JoinRight DEF WindowJoins
<1>3. ASSUME ~w.older PROVE NothingBelow(rows, w.shown \cup q.page)
  <2>1. NothingBelow(rows, w.shown)
    BY <1>1, <1>3 DEF WindowJoins, Rightmost
  <2> QED
    BY <2>1 DEF NothingBelow
<1>4. ASSUME view # "audit", ~q.newer
      PROVE  NothingAbove(rows, w.shown \cup q.page, q.asOf)
  <2>1. NothingAbove(rows, q.page \cup {q.edge}, q.asOf) /\ q.edge \in w.shown
    BY <1>1, <1>4 DEF NewerJoins, Rightmost
  <2> QED
    BY <2>1 DEF NothingAbove
<1>5. ASSUME view = "reports", w.older
      PROVE  SomethingBelow(rows, w.shown \cup q.page)
  <2>1. SomethingBelow(rows, w.shown)
    BY <1>1, <1>5 DEF WindowJoins, Rightmost
  <2>2. PICK m \in rows : \A a \in w.shown : m < a
    BY <2>1 DEF SomethingBelow
  <2>3. m \in Nat /\ m < q.edge
    BY <1>1, <2>2 DEF Rightmost
  <2>4. \A p \in q.page : m < p
    BY <1>1, <2>3 DEF NewerJoins
  <2> QED
    BY <2>2, <2>4 DEF SomethingBelow
<1> QED
  BY <1>2, <1>3, <1>4, <1>5

LEMMA TimelinePageFits ==
    ASSUME ViewsInv, NEW f \in Fetches, fetch[f].stage = "answered", view = "timeline"
    PROVE  Fits(TimelinePage(fetch[f]))
<1> DEFINE q == fetch[f]
           w == TimelinePage(q)
<1>1. /\ Matching \subseteq Nat /\ Answered(Matching, q) /\ Asked(window, q)
      /\ window \in WindowTypes /\ WindowJoins(Matching, window)
      /\ q.want \in {"tail", "older", "newer", "refresh"}
      /\ q.page \subseteq Nat /\ q.edge \in Nat /\ q.asOf \in Nat
      /\ q.older \in BOOLEAN /\ q.newer \in BOOLEAN
      /\ Past(q.asOf) /\ \A n \in q.page : Past(n)
      /\ Past(window.asOf) /\ \A n \in window.shown : Past(n)
  BY AnswerHere
<1> HIDE DEF q
<1>2. /\ window.shown \subseteq Nat /\ window.asOf \in Nat
      /\ window.older \in BOOLEAN /\ window.newer \in BOOLEAN
  BY <1>1 DEF WindowTypes
<1>3. PICK older, newer \in BOOLEAN :
        /\ older = (IF q.want = "newer" THEN TRUE ELSE q.older)
        /\ newer = (IF q.want = "older" THEN TRUE ELSE q.newer)
  BY <1>1
<1> DEFINE shown == IF q.want = "tail" THEN q.page ELSE window.shown \cup q.page
<1>4. w = [shown |-> shown, older |-> older, newer |-> newer, asOf |-> q.asOf]
  BY <1>3 DEF TimelinePage
<1>5. shown \subseteq Nat /\ \A n \in shown : Past(n)
  BY <1>1, <1>2
<1>6. q.want # "refresh"
  BY <1>1 DEF Asked
<1> HIDE DEF w
<1>7. NoHole(Matching, shown)
  BY <1>1, <1>2, <1>6, GrowsLeft, GrowsRight DEF Answered
<1>8. ASSUME shown # {}, ~older PROVE NothingBelow(Matching, shown)
  <2>1. CASE q.want = "tail"
    BY <1>1, <1>3, <1>8, <2>1 DEF Answered, TailJoins
  <2>2. CASE q.want = "older"
    BY <1>1, <1>2, <1>3, <1>8, <2>2, GrowsLeft
  <2> QED
    BY <1>1, <1>3, <1>6, <1>8, <2>1, <2>2
<1>9. ASSUME shown # {}, ~newer PROVE NothingAbove(Matching, shown, q.asOf)
  <2>1. CASE q.want = "tail"
    BY <1>1, <1>3, <1>9, <2>1, view = "timeline" DEF Answered, TailJoins
  <2>2. CASE q.want = "newer"
    BY <1>1, <1>2, <1>3, <1>9, <2>2, view = "timeline", GrowsRight
  <2> QED
    BY <1>1, <1>3, <1>6, <1>9, <2>1, <2>2
<1> HIDE DEF shown
<1>10. /\ w.shown = shown /\ w.older = older /\ w.newer = newer /\ w.asOf = q.asOf
       /\ w \in WindowTypes
  BY <1>1, <1>4, <1>5 DEF WindowTypes
<1>11. WindowJoins(Matching, w)
  BY <1>7, <1>8, <1>9, <1>10, view = "timeline" DEF WindowJoins
<1> QED
  BY <1>1, <1>5, <1>10, <1>11 DEF Fits, w, q

\* The pages of a snapshot carry both flags: each is that of the answer at its
\* end of the window.
LEMMA ReportsPageFits ==
    ASSUME ViewsInv, NEW f \in Fetches, fetch[f].stage = "answered", view \in Snapshot
    PROVE  Fits(ReportsPage(fetch[f]))
<1> DEFINE q == fetch[f]
           w == ReportsPage(q)
<1>1. /\ Matching \subseteq Nat /\ Answered(Matching, q) /\ Asked(window, q)
      /\ window \in WindowTypes /\ WindowJoins(Matching, window)
      /\ q.want \in {"tail", "older", "newer", "refresh"}
      /\ q.page \subseteq Nat /\ q.edge \in Nat /\ q.asOf \in Nat
      /\ q.older \in BOOLEAN /\ q.newer \in BOOLEAN
      /\ Past(q.asOf) /\ \A n \in q.page : Past(n)
      /\ Past(window.asOf) /\ \A n \in window.shown : Past(n)
  BY AnswerHere
<1> HIDE DEF q
<1>2. /\ window.shown \subseteq Nat /\ window.asOf \in Nat
      /\ window.older \in BOOLEAN /\ window.newer \in BOOLEAN
  BY <1>1 DEF WindowTypes
<1>3. PICK older, newer \in BOOLEAN, asOf \in Nat :
        /\ older = (IF q.want = "newer" THEN window.older ELSE q.older)
        /\ newer = (IF q.want = "older" THEN window.newer ELSE q.newer)
        /\ asOf = (IF q.want = "older" THEN window.asOf ELSE q.asOf)
  BY <1>1, <1>2
<1> DEFINE shown == IF q.want = "tail" THEN q.page ELSE window.shown \cup q.page
<1>4. w = [shown |-> shown, older |-> older, newer |-> newer, asOf |-> asOf]
  BY <1>3 DEF ReportsPage
<1>5. shown \subseteq Nat /\ (\A n \in shown : Past(n)) /\ Past(asOf)
  BY <1>1, <1>2, <1>3
<1>6. q.want # "refresh" /\ view # "audit"
  BY <1>1 DEF Asked, Snapshot
<1> HIDE DEF w
<1>7. NoHole(Matching, shown)
  BY <1>1, <1>2, <1>6, GrowsLeft, GrowsRight DEF Answered
<1>8. ASSUME shown # {}, ~older PROVE NothingBelow(Matching, shown)
  <2>1. CASE q.want = "tail"
    BY <1>1, <1>3, <1>8, <2>1 DEF Answered, TailJoins
  <2>2. CASE q.want = "older"
    BY <1>1, <1>2, <1>3, <1>8, <2>2, GrowsLeft
  <2>3. CASE q.want = "newer"
    BY <1>1, <1>2, <1>3, <1>8, <2>3, GrowsRight
  <2> QED
    BY <1>1, <1>6, <2>1, <2>2, <2>3
<1>9. ASSUME shown # {}, ~newer PROVE NothingAbove(Matching, shown, asOf)
  <2>1. CASE q.want = "tail"
    BY <1>1, <1>3, <1>6, <1>9, <2>1 DEF Answered, TailJoins
  <2>2. CASE q.want = "older"
    BY <1>1, <1>2, <1>3, <1>6, <1>9, <2>2, GrowsLeft
  <2>3. CASE q.want = "newer"
    BY <1>1, <1>2, <1>3, <1>6, <1>9, <2>3, GrowsRight
  <2> QED
    BY <1>1, <1>6, <2>1, <2>2, <2>3
<1>10. ASSUME shown # {}, view = "reports", older PROVE SomethingBelow(Matching, shown)
  <2>1. CASE q.want = "tail"
    BY <1>1, <1>3, <1>10, <2>1 DEF Answered
  <2>2. CASE q.want = "older"
    BY <1>1, <1>2, <1>3, <1>10, <2>2, GrowsLeft
  <2>3. CASE q.want = "newer"
    BY <1>1, <1>2, <1>3, <1>10, <2>3, GrowsRight
  <2> QED
    BY <1>1, <1>6, <2>1, <2>2, <2>3
<1> HIDE DEF shown
<1>11. /\ w.shown = shown /\ w.older = older /\ w.newer = newer /\ w.asOf = asOf
       /\ w \in WindowTypes
  BY <1>3, <1>4, <1>5 DEF WindowTypes
<1>12. WindowJoins(Matching, w)
  BY <1>7, <1>8, <1>9, <1>10, <1>11 DEF WindowJoins
<1> QED
  BY <1>5, <1>11, <1>12 DEF Fits, w, q

\* With one fetch at a time, the window that an answer was asked for is the one
\* that it is shown in.
LEMMA ShowStep ==
    ASSUME OneAtATime, ViewsInv, NEW f \in Fetches, Show(f)
    PROVE  ViewsInv'
<1>1. /\ fetch[f].stage = "answered" /\ fetch' = [fetch EXCEPT ![f] = NoFetch]
      /\ UNCHANGED <<events, nextValue, view, reports, reported>>
  BY DEF Show, log
<1>2. view \in Views
  BY DEF ViewsInv, ViewsTypeOK
<1>3. Fits(window')
  <2>1. CASE view = "audit" /\ fetch[f].want # "refresh"
    <3>1. window' = AuditPage(fetch[f])
      BY <2>1 DEF Show, Snapshot
    <3> QED
      BY <1>1, <2>1, <3>1, AuditPageFits
  <2>2. CASE view = "audit" /\ fetch[f].want = "refresh"
    <3>1. window' = AuditRefresh(fetch[f])
      BY <2>2 DEF Show, Snapshot
    <3> QED
      BY <1>1, <2>2, <3>1, AuditRefreshFits
  <2>3. CASE view = "timeline"
    <3>1. window' = TimelinePage(fetch[f])
      BY <2>3 DEF Show, Snapshot
    <3> QED
      BY <1>1, <2>3, <3>1, TimelinePageFits
  <2>4. CASE view \in Snapshot
    <3>1. window' = ReportsPage(fetch[f])
      BY <2>4 DEF Show, Snapshot
    <3> QED
      BY <1>1, <2>4, <3>1, ReportsPageFits
  <2> QED
    BY <1>2, <2>1, <2>2, <2>3, <2>4 DEF Views, Snapshot
<1>4. LogInv' /\ LogTypeOK' /\ Matching' = Matching /\ \A n : Past(n)' <=> Past(n)
  BY <1>1 DEF ViewsInv, LogInv, LogTypeOK, Numbered, Matching, Numbers, Messages, Past, Given
<1>5. /\ NoFetch \in [stage : {"idle", "probe", "asked", "answered"},
                      want : {"tail", "older", "newer", "refresh"},
                      edge : Nat, live : BOOLEAN, page : SUBSET Nat,
                      older : BOOLEAN, newer : BOOLEAN, asOf : Nat]
      /\ NoFetch.stage = "idle" /\ NoFetch.asOf = 0 /\ NoFetch.page = {}
  BY DEF NoFetch
<1>6. ViewsTypeOK'
  BY <1>1, <1>3, <1>4, <1>5 DEF ViewsInv, ViewsTypeOK, Fits, WindowTypes
<1>7. \A g \in Fetches : fetch'[g] = NoFetch
  BY <1>1 DEF OneAtATime, ViewsInv, ViewsTypeOK
<1>8. HeldPast'
  <2>1. Past(0)
    BY NothingHeld DEF ViewsInv
  <2> QED
    BY <1>3, <1>4, <1>5, <1>7, <2>1 DEF HeldPast, Fits
<1>9. WindowJoins(Matching, window)'
  <2>1. WindowJoins(Matching', window') /\ view' = view
    BY <1>1, <1>3, <1>4 DEF Fits
  <2> QED
    BY <2>1 DEF WindowJoins, NoHole, NothingBelow, NothingAbove, SomethingBelow
<1>10. \A g \in Fetches :
         /\ (fetch[g].stage # "idle" => Asked(window, fetch[g]))'
         /\ (fetch[g].stage = "probe" => fetch[g].want = "tail")'
         /\ (fetch[g].stage = "answered" => Answered(Matching, fetch[g]))'
  BY <1>5, <1>7
<1> QED
  BY <1>4, <1>6, <1>8, <1>9, <1>10 DEF ViewsInv

LEMMA InitViews == ViewsInit => ViewsInv
<1> SUFFICES ASSUME ViewsInit PROVE ViewsInv
  OBVIOUS
<1>1. LogInv /\ LogTypeOK
  BY FS_EmptySet DEF ViewsInit, LogInit, LogInv, LogTypeOK, Numbered
<1>2. /\ NoFetch \in [stage : {"idle", "probe", "asked", "answered"},
                      want : {"tail", "older", "newer", "refresh"},
                      edge : Nat, live : BOOLEAN, page : SUBSET Nat,
                      older : BOOLEAN, newer : BOOLEAN, asOf : Nat]
      /\ NoFetch.stage = "idle" /\ NoFetch.asOf = 0 /\ NoFetch.page = {}
  BY DEF NoFetch
<1>3. /\ Closed \in [shown : SUBSET Nat, older : BOOLEAN, newer : BOOLEAN, asOf : Nat]
      /\ Closed.shown = {} /\ Closed.asOf = 0
  BY DEF Closed
<1>4. ViewsTypeOK
  BY <1>1, <1>2, <1>3, ViewsAssumption DEF ViewsInit, ViewsTypeOK
<1>5. HeldPast
  BY <1>1, <1>2, <1>3, <1>4, NothingHeld DEF ViewsInit, HeldPast
<1>6. WindowJoins(Matching, window)
  BY <1>3 DEF ViewsInit, WindowJoins, NoHole
<1> QED
  BY <1>1, <1>2, <1>4, <1>5, <1>6 DEF ViewsInit, ViewsInv

LEMMA NextKeepsJoined == OneAtATime => (ViewsInv /\ [ViewsNext]_viewVars => ViewsInv')
<1> SUFFICES ASSUME OneAtATime, ViewsInv, [ViewsNext]_viewVars PROVE ViewsInv'
  OBVIOUS
<1>1. CASE \/ \E kind \in {"message", "notice"} : Write(kind)
           \/ \E c \in 1..(MaxEvents + 1) : Expire(c)
           \/ Report
  BY <1>1, WriteStep
<1>2. ASSUME NEW f \in Fetches,
             \/ Open(f) \/ Probe(f) \/ LoadOlder(f) \/ LoadNewer(f) \/ Refresh(f)
             \/ Read(f) \/ Show(f) \/ Lose(f)
      PROVE  ViewsInv'
  BY <1>2, AskSteps, ProbeStep, ReadStep, ShowStep, LoseStep
<1>3. CASE UNCHANGED viewVars
  <2>1. /\ UNCHANGED <<events, nextValue, view, window, fetch, reports, reported>>
    BY <1>3 DEF viewVars, log
  <2>2. LogInv' /\ LogTypeOK' /\ Matching' = Matching
    BY <2>1 DEF ViewsInv, LogInv, LogTypeOK, Numbered, Matching, Numbers, Messages
  <2>3. ViewsTypeOK'
    BY <2>1, <2>2 DEF ViewsInv, ViewsTypeOK
  <2>4. \A n \in Nat : Past(n) => Past(n)'
    BY <2>1 DEF Past, Given
  <2> QED
    BY <2>1, <2>2, <2>3, <2>4, WritesKeepJoined
<1> QED
  BY <1>1, <1>2, <1>3 DEF ViewsNext

\* For any page size and bounds, what a window shows and says of its two ends
\* stays true of the log while it grows and is purged, and the answer on its way
\* joins it.
THEOREM ViewsInvariant == OneAtATime => (ViewsSpec => []ViewsInv)
<1> SUFFICES ASSUME OneAtATime PROVE ViewsSpec => []ViewsInv
  OBVIOUS
<1>1. ViewsInv /\ [ViewsNext]_viewVars => ViewsInv'
  BY NextKeepsJoined
<1> QED
  BY <1>1, InitViews, PTL DEF ViewsSpec

\* Pages join up: with one fetch of a window at a time, what is shown has no hole
\* and a button that is disabled means that there is nothing further that way.
THEOREM PagesAlwaysJoin == OneAtATime => (ViewsSpec => []PagesJoin)
<1> SUFFICES ASSUME OneAtATime PROVE ViewsSpec => []PagesJoin
  OBVIOUS
<1>1. ViewsInv => PagesJoin
  <2> SUFFICES ASSUME ViewsInv, window.shown # {}
               PROVE  /\ Whole
                      /\ OldestTold
                      /\ view # "audit" => NewestTold
                      /\ view = "reports" /\ window.older => Below(Min(window.shown)) # {}
    BY DEF PagesJoin
  <2>1. PICK b \in Nat : \A n \in Nat : Past(n) => n <= b
    BY RowsArePast DEF ViewsInv
  <2>2. Matching \subseteq Nat
    BY RowsArePast DEF ViewsInv
  <2>3. window.shown \subseteq Nat /\ (\A n \in window.shown : n <= b) /\ window.asOf \in Nat
    BY <2>1 DEF ViewsInv, ViewsTypeOK, HeldPast
  <2>4. Min(window.shown) \in window.shown /\ \A n \in window.shown : Min(window.shown) <= n
    BY <2>3, LeastOfNumbers
  <2>5. Max(window.shown) \in window.shown /\ \A n \in window.shown : n <= Max(window.shown)
    BY <2>3, GreatestOfNumbers
  <2>6. Min(window.shown) \in Nat /\ Max(window.shown) \in Nat
    BY <2>3, <2>4, <2>5
  <2>7. WindowJoins(Matching, window)
    BY DEF ViewsInv
  <2>8. Whole
    BY <2>4, <2>5, <2>7 DEF Whole, WindowJoins, NoHole
  <2>9. OldestTold
    <3> SUFFICES ASSUME ~window.older, NEW m \in Matching PROVE ~(m < Min(window.shown))
      BY DEF OldestTold, Below
    <3>1. PICK a \in window.shown : a <= m
      BY <2>7 DEF WindowJoins, NothingBelow
    <3>2. a \in Nat /\ m \in Nat /\ Min(window.shown) <= a
      BY <2>2, <2>3, <2>4
    <3> QED
      BY <2>6, <3>1, <3>2
  <2>10. ASSUME view # "audit" PROVE NewestTold
    <3> SUFFICES ASSUME ~window.newer, NEW m \in Matching, m > Max(window.shown)
                 PROVE  m > window.asOf
      BY DEF NewestTold, Above
    <3>1. \A a \in window.shown : ~(m <= a)
      BY <2>2, <2>3, <2>5, <2>6
    <3> QED
      BY <2>7, <2>10, <3>1 DEF WindowJoins, NothingAbove
  <2>11. ASSUME view = "reports", window.older PROVE Below(Min(window.shown)) # {}
    <3>1. PICK m \in Matching : \A a \in window.shown : m < a
      BY <2>7, <2>11 DEF WindowJoins, SomethingBelow
    <3> QED
      BY <2>4, <3>1 DEF Below
  <2> QED
    BY <2>8, <2>9, <2>10, <2>11
<1> QED
  BY <1>1, ViewsInvariant, PTL
===============================================================================
