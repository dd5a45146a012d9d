------------------------------- MODULE MCStream -------------------------------
(* Instances of EventStream for TLC: two clients at one address, one at another. *)
EXTENDS EventStream

CONSTANTS k3, near, far

MCIpOf == [k \in Clients |-> IF k = k3 THEN far ELSE near]
===============================================================================
