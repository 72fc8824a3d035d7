----------------------------- MODULE MCSemaphore -----------------------------
(* Small instances of Semaphore. *)
EXTENDS Semaphore

CONSTANTS a1, a2, a3

\* Two attempts of one tenant, two to one provider, a gateway with a fast clock.
Tenant == [a \in Attempts |-> IF a = a3 THEN "t2" ELSE "t1"]
Provider == [a \in Attempts |-> IF a = a1 THEN "p1" ELSE "p2"]
OneFastClock == [a \in Attempts |-> IF a = a2 THEN 1 ELSE 0]

=============================================================================
