----------------------------- MODULE MCConfigBus -----------------------------
(* A small instance of ConfigBus. *)
EXTENDS ConfigBus

CONSTANTS p1, p2, t1, n1

=============================================================================
