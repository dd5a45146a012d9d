---------------------------- MODULE MCTransport ----------------------------
(* Small instances of Transport for TLC. *)
EXTENDS Transport

CONSTANTS A, B, r1, r2, r3, ka, kb

MCClientOf == [r \in Requests |-> IF r = r3 THEN B ELSE A]

\* No credential is linked yet.
Unlinked == [c \in Clients |-> None]

\* The requests of a client state its own key, or those of B state any key or none.
OwnHeader == [c \in Clients |-> IF c = A THEN {ka} ELSE {kb}]
AnyHeader == [c \in Clients |-> IF c = A THEN {ka} ELSE {None, ka, kb}]
=============================================================================
