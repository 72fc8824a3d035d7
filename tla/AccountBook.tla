----------------------------- MODULE AccountBook -----------------------------
(***************************************************************************)
(* What the prepaid accounts promise their callers, with the transactions, *)
(* locks and failures of Reservations left out: every operation happens at *)
(* once, on the account and the reservation as they are.                   *)
(*                                                                         *)
(* A key opens one reservation, which is ended at most once.  What is      *)
(* reserved was free, and what is captured leaves both columns together.   *)
(***************************************************************************)
EXTENDS Naturals

CONSTANTS Tenants, Keys, Amounts, Balances, None

VARIABLES account,     \* tenant -> its balance and what is reserved of it, or None
          reservation  \* key -> its reservation, or None

vars == <<account, reservation>>

Init ==
    /\ account = [t \in Tenants |-> None]
    /\ reservation = [k \in Keys |-> None]

Set(t, balance, reserved) ==
    /\ reserved <= balance
    /\ account' = [account EXCEPT ![t] = [balance |-> balance, reserved |-> reserved]]
    /\ UNCHANGED reservation

Reserve(t, k, amount) ==
    /\ reservation[k] = None
    /\ account[t] # None
    /\ account[t].reserved + amount <= account[t].balance
    /\ account' = [account EXCEPT ![t].reserved = @ + amount]
    /\ reservation' = [reservation EXCEPT ![k] =
            [tenant |-> t, amount |-> amount, status |-> "reserved"]]

\* The reservation is open, and its account still covers it: what is reserved is
\* part of the balance, so the balance covers it too.
Covered(k) ==
    /\ reservation[k] # None
    /\ reservation[k].status = "reserved"
    /\ account[reservation[k].tenant] # None
    /\ reservation[k].amount <= account[reservation[k].tenant].reserved

Release(k) ==
    /\ Covered(k)
    /\ account' = [account EXCEPT ![reservation[k].tenant].reserved =
            @ - reservation[k].amount]
    /\ reservation' = [reservation EXCEPT ![k].status = "released"]

Capture(k) ==
    /\ Covered(k)
    /\ account' = [account EXCEPT ![reservation[k].tenant] =
            [balance |-> @.balance - reservation[k].amount,
             reserved |-> @.reserved - reservation[k].amount]]
    /\ reservation' = [reservation EXCEPT ![k].status = "captured"]

Next ==
    \/ \E t \in Tenants, balance, reserved \in Balances : Set(t, balance, reserved)
    \/ \E t \in Tenants, k \in Keys, amount \in Amounts : Reserve(t, k, amount)
    \/ \E k \in Keys : Release(k) \/ Capture(k)

Spec == Init /\ [][Next]_vars

=============================================================================
