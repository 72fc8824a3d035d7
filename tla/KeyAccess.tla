------------------------------ MODULE KeyAccess ------------------------------
(***************************************************************************)
(* What the virtual key service promises its tenants, with the databases,  *)
(* generations, processes and faults of KeyProjection left out.            *)
(*                                                                         *)
(* A key is requested, then withdrawn at most once and for good.  Access   *)
(* follows the request, never precedes it, and once withdrawn is only ever *)
(* taken away.  The tenant is told "active" or "revoked" only when the     *)
(* data plane is in that state, and what was told about a withdrawn key    *)
(* stays true for ever.                                                    *)
(***************************************************************************)
CONSTANT Keys

VARIABLES wanted,  \* what the tenant asked for
          granted, \* the keys the data plane authenticates
          told     \* what the tenant was last told

vars == <<wanted, granted, told>>

Init ==
  /\ wanted = [k \in Keys |-> "none"]
  /\ granted = {}
  /\ told = [k \in Keys |-> "unknown"]

Request(k) ==
  /\ wanted[k] = "none"
  /\ wanted' = [wanted EXCEPT ![k] = "active"]
  /\ UNCHANGED <<granted, told>>

Withdraw(k) ==
  /\ wanted[k] = "active"
  /\ wanted' = [wanted EXCEPT ![k] = "revoked"]
  /\ told' = [told EXCEPT ![k] = "unknown"]
  /\ UNCHANGED granted

Grant(k) ==
  /\ wanted[k] = "active"
  /\ granted' = granted \union {k}
  /\ UNCHANGED <<wanted, told>>

Cut(k) ==
  /\ wanted[k] = "revoked"
  /\ granted' = granted \ {k}
  /\ UNCHANGED <<wanted, told>>

Tell(k) ==
  /\ wanted[k] # "none"
  /\ k \in granted <=> wanted[k] = "active"
  /\ told' = [told EXCEPT ![k] = wanted[k]]
  /\ UNCHANGED <<wanted, granted>>

Next ==
  \E k \in Keys : Request(k) \/ Withdraw(k) \/ Grant(k) \/ Cut(k) \/ Tell(k)

Spec == Init /\ [][Next]_vars

=============================================================================
