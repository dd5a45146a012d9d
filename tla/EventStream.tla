------------------------------ MODULE EventStream ------------------------------
(***************************************************************************)
(* GET /events/stream: the slots of SSELimiter, the generator that polls   *)
(* the log page by page, the response wrapper that closes it, and clients  *)
(* that lose the connection and resume at the last event they received.    *)
(***************************************************************************)
EXTENDS EventLog, Sequences

CONSTANTS Clients,         \* browser tabs: each has one connection at a time
          IpOf,            \* the address of a client
          MaxPerProject,   \* max_sse_clients_per_project
          MaxPerIp         \* sse_per_ip_limit

ASSUME StreamAssumption ==
    /\ IsFiniteSet(Clients)
    /\ MaxPerProject \in Nat \ {0}
    /\ MaxPerIp \in Nat \ {0}

Ips == {IpOf[k] : k \in Clients}

VARIABLES stage,         \* the server's side of a client's connection
          released,      \* its slot has been given back
          cursor,        \* the last event the generator has sent
          page,          \* the numbers it has fetched and not yet sent, in their order
          wire,          \* events sent to a client and not yet received
          seen,          \* the last event id a client has received
          projectCount,  \* SSELimiter: slots taken in the Project
          ipCount        \* and by address

streams == <<cursor, page, wire, seen>>
slots == <<stage, released, projectCount, ipCount>>
vars == <<log, streams, slots>>

\* "reserved": a slot is taken, the generator has not started; "open": it runs;
\* "closing": it has ended, the response has not.
Stages == {"off", "reserved", "open", "closing"}

TypeOK ==
    /\ LogTypeOK
    /\ stage \in [Clients -> Stages]
    /\ released \in [Clients -> BOOLEAN]
    /\ cursor \in [Clients -> Nat]
    /\ page \in [Clients -> SUBSET Nat]
    /\ wire \in [Clients -> Seq(Nat)]
    /\ seen \in [Clients -> Nat]
    /\ projectCount \in Nat
    /\ ipCount \in [Ips -> Nat]

Init ==
    /\ LogInit
    /\ stage = [k \in Clients |-> "off"]
    /\ released = [k \in Clients |-> TRUE]
    /\ cursor = [k \in Clients |-> 0]
    /\ page = [k \in Clients |-> {}]
    /\ wire = [k \in Clients |-> <<>>]
    /\ seen = [k \in Clients |-> 0]
    /\ projectCount = 0
    /\ ipCount = [i \in Ips |-> 0]

At(k, st) == stage[k] = st
Goto(k, st) == stage' = [stage EXCEPT ![k] = st]

-------------------------------------------------------------------------------
(* The log. *)

\* Any write handler.
AppendEvent ==
    /\ Emit(events, "notice", None, 0)
    /\ UNCHANGED <<streams, slots>>

Retain(c) ==
    /\ Purge(c)
    /\ UNCHANGED <<streams, slots>>

-------------------------------------------------------------------------------
(* Slots. *)

\* Fault: Last-Event-ID is not looked at.
ResumeAfter(after, header) == after

\* after = max(after, int(header_cursor))
ResumeAt(after, header) == IF header > after THEN header ELSE after

\* SSELimiter.acquire, before the response headers.  A client asks for what
\* follows the event it received last, in the query or in Last-Event-ID.
Connect(k, after, header) ==
    /\ At(k, "off")
    /\ after = seen[k] \/ (after = 0 /\ header = seen[k])
    /\ projectCount < MaxPerProject
    /\ ipCount[IpOf[k]] < MaxPerIp
    /\ projectCount' = projectCount + 1
    /\ ipCount' = [ipCount EXCEPT ![IpOf[k]] = @ + 1]
    /\ released' = [released EXCEPT ![k] = FALSE]
    /\ Goto(k, "reserved")
    /\ cursor' = [cursor EXCEPT ![k] = ResumeAt(after, header)]
    /\ UNCHANGED <<log, page, wire, seen>>

\* A count that would be zero is taken out of its dictionary.
OneLess(count) == IF count > 0 THEN count - 1 ELSE 0

\* Fault: every end of a stream gives a slot back.
ReleaseAgain(k) ==
    /\ projectCount' = OneLess(projectCount)
    /\ ipCount' = [ipCount EXCEPT ![IpOf[k]] = OneLess(@)]
    /\ released' = [released EXCEPT ![k] = TRUE]

\* release_slot: the generator and the response both call it.
Release(k) ==
    IF released[k] THEN UNCHANGED <<released, projectCount, ipCount>>
    ELSE /\ projectCount' = OneLess(projectCount)
         /\ ipCount' = [ipCount EXCEPT ![IpOf[k]] = OneLess(@)]
         /\ released' = [released EXCEPT ![k] = TRUE]

\* The response asks the generator for its first piece.
Start(k) ==
    /\ At(k, "reserved")
    /\ Goto(k, "open")
    /\ UNCHANGED <<log, streams, released, projectCount, ipCount>>

\* The client is gone, or the server stops: the generator ends and runs its
\* finally, and what was on the way is lost.
Disconnect(k) ==
    /\ At(k, "open")
    /\ Release(k)
    /\ Goto(k, "closing")
    /\ cursor' = [cursor EXCEPT ![k] = 0]
    /\ page' = [page EXCEPT ![k] = {}]
    /\ wire' = [wire EXCEPT ![k] = <<>>]
    /\ UNCHANGED <<log, seen>>

\* Fault: only the generator releases, which may never have started.
EndUnreleased(k) ==
    /\ At(k, "reserved") \/ At(k, "closing")
    /\ Goto(k, "off")
    /\ cursor' = [cursor EXCEPT ![k] = 0]
    /\ UNCHANGED <<log, page, wire, seen, released, projectCount, ipCount>>

\* The finally of stream_response, also when the generator never started.
EndResponse(k) ==
    /\ At(k, "reserved") \/ At(k, "closing")
    /\ Release(k)
    /\ Goto(k, "off")
    /\ cursor' = [cursor EXCEPT ![k] = 0]
    /\ UNCHANGED <<log, page, wire, seen>>

-------------------------------------------------------------------------------
(* The generator. *)

\* Fault: the newest page is fetched, as for a bounded view of the log.
FetchNewest(k) ==
    /\ At(k, "open")
    /\ page[k] = {}
    /\ page' = [page EXCEPT ![k] =
         Numbers({e \in events :
            /\ e.seq > cursor[k]
            /\ Cardinality({f \in events : f.seq > e.seq}) < PageLimit})]
    /\ UNCHANGED <<log, cursor, wire, seen, slots>>

\* list_events in a thread of the pool, in a read transaction of its own.
Fetch(k) ==
    /\ At(k, "open")
    /\ page[k] = {}
    /\ page' = [page EXCEPT ![k] = Numbers(PageAfter(cursor[k]))]
    /\ UNCHANGED <<log, cursor, wire, seen, slots>>

\* Fault: a fetched event is dropped when the next page is due.
YieldFirst(k) ==
    /\ page[k] # {}
    /\ cursor' = [cursor EXCEPT ![k] = Max(page[k])]
    /\ page' = [page EXCEPT ![k] = {}]
    /\ wire' = [wire EXCEPT ![k] = Append(@, Min(page[k]))]
    /\ UNCHANGED <<log, seen, slots>>

\* The page is sent in the order of the numbers.
Yield(k) ==
    /\ page[k] # {}
    /\ cursor' = [cursor EXCEPT ![k] = Min(page[k])]
    /\ page' = [page EXCEPT ![k] = @ \ {Min(page[k])}]
    /\ wire' = [wire EXCEPT ![k] = Append(@, Min(page[k]))]
    /\ UNCHANGED <<log, seen, slots>>

Receive(k) ==
    /\ wire[k] # <<>>
    /\ seen' = [seen EXCEPT ![k] = Head(wire[k])]
    /\ wire' = [wire EXCEPT ![k] = Tail(@)]
    /\ UNCHANGED <<log, cursor, page, slots>>

Next ==
    \/ AppendEvent
    \/ \E c \in 1..(MaxEvents + 1) : Retain(c)
    \/ \E k \in Clients :
          \/ \E after, header \in {0, seen[k]} : Connect(k, after, header)
          \/ Start(k) \/ Disconnect(k) \/ EndResponse(k)
          \/ Fetch(k) \/ Yield(k) \/ Receive(k)

Spec == Init /\ [][Next]_vars

\* The event loop runs the generator on, and the network delivers.
FairSpec ==
    Spec /\ \A k \in Clients :
        WF_vars(Start(k)) /\ WF_vars(Fetch(k)) /\ WF_vars(Yield(k)) /\ WF_vars(Receive(k))

-------------------------------------------------------------------------------
(* Properties. *)

\* A client receives the events in the order of their numbers and none twice,
\* and passes over none that the log still holds, across pages, purges, lost
\* connections and resumptions.
ReceivedInOrder ==
    [][\A k \in Clients : seen'[k] # seen[k] =>
          /\ seen[k] < seen'[k]
          /\ \A e \in events : ~(seen[k] < e.seq /\ e.seq < seen'[k])]_vars

Streaming(ks) == Cardinality({k \in ks : At(k, "reserved") \/ At(k, "open")})

\* No more streams run in a Project, or for an address, than the limits allow,
\* although streams end in two places while others are being admitted.
WithinLimits ==
    /\ Streaming(Clients) <= MaxPerProject
    /\ \A i \in Ips : Streaming({k \in Clients : IpOf[k] = i}) <= MaxPerIp

\* A slot comes back whichever way its stream ends: with no stream left, none
\* is taken, so that disconnections do not use the capacity up.
SlotsReturn ==
    (\A k \in Clients : At(k, "off")) =>
        projectCount = 0 /\ \A i \in Ips : ipCount[i] = 0

\* What is in the log reaches a client that stays connected, unless retention
\* removes it first.
StreamDelivers ==
    \A k \in Clients : \A n \in 1..MaxEvents :
        At(k, "open") /\ n \in Numbers(events) ~>
            seen[k] >= n \/ ~At(k, "open") \/ n \notin Numbers(events)
===============================================================================
