---------------------------- MODULE Reservations ----------------------------
(***************************************************************************)
(* Prepaid accounts and the reservations made against them.                *)
(*                                                                         *)
(* Reserve looks its idempotency key up without a lock, then locks the     *)
(* account row, and writes the account and the reservation.  Capture and   *)
(* Release lock the reservation row first and the account row second.      *)
(* UpsertAccount is one statement that overwrites the account, whatever is *)
(* reserved against it.                                                    *)
(*                                                                         *)
(* A reservation's id is its idempotency key.  Currencies and time stamps  *)
(* are left out.  The history variable booked keeps what UpsertAccount     *)
(* last wrote and which reservations were open or captured then: the books *)
(* are reckoned from there.                                                *)
(***************************************************************************)
EXTENDS BillingStore, Sums

CONSTANTS
    Keys,      \* idempotency keys of reservations
    Amounts,   \* what may be reserved
    Balances   \* what an account may be set to

ASSUME ReservationConstants ==
    /\ Amounts \subseteq Nat \ {0}
    /\ Balances \subseteq Nat
    /\ None \notin Keys

\* The table has finitely many rows.
ASSUME FiniteReservations == IsFiniteSet(Keys)

VARIABLES
    account,      \* tenant -> its account row, or None
    reservation,  \* key -> its reservation row, or None
    claim,        \* caller -> its open transaction, or None
    booked        \* history: tenant -> what UpsertAccount last left, or None

reservationsVars == <<account, reservation, claim, booked>>

Ends == {"released", "captured"}
Accounts == [balance : Nat, reserved : Nat]
ReservationRows == [tenant : Tenants, amount : Amounts, status : {"reserved"} \cup Ends]
Bookings == [row : Accounts, open : SUBSET Keys, captured : SUBSET Keys]

ASSUME NoneIsNoReservation == None \notin ReservationRows

\* A transaction is after the row "to" ends up with.  At "sought" it knows its
\* key, at "ready" it has seen the account.
ClaimRecords ==
    [pc : {"sought", "ready"}, to : {"reserved"} \cup Ends, tenant : Tenants,
     key : Keys, amount : Amounts, seen : Accounts \cup {None}]

ReservationsInit ==
    /\ account = [t \in Tenants |-> None]
    /\ reservation = [k \in Keys |-> None]
    /\ claim = [c \in Callers |-> None]
    /\ booked = [t \in Tenants |-> None]

-----------------------------------------------------------------------------
(* Row locks, held until the transaction ends. *)

At(c, pc) == claim[c] # None /\ claim[c].pc = pc

AccountFree(t) == \A c \in Callers : At(c, "ready") => claim[c].tenant # t

ReservationFree(k) ==
    \A c \in Callers : claim[c] # None /\ claim[c].to \in Ends => claim[c].key # k

-----------------------------------------------------------------------------
(* UpsertAccount *)

Claims(t, status) ==
    {k \in Keys : /\ reservation[k] # None
                  /\ reservation[k].tenant = t
                  /\ reservation[k].status = status}

\* The statement waits for whoever holds the row.
UpsertAccount(t, balance, reserved) ==
    /\ reserved <= balance
    /\ AccountFree(t)
    /\ LET row == [balance |-> balance, reserved |-> reserved]
       IN  /\ account' = [account EXCEPT ![t] = row]
           /\ booked' = [booked EXCEPT ![t] =
                  [row |-> row, open |-> Claims(t, "reserved"),
                   captured |-> Claims(t, "captured")]]
    /\ UNCHANGED <<reservation, claim>>

-----------------------------------------------------------------------------
(* Reserve, Capture and Release *)

Opening(to, t, k, amount) ==
    [pc |-> "sought", to |-> to, tenant |-> t, key |-> k, amount |-> amount, seen |-> None]

\* A key that is taken ends the call: with its row, whatever its status, when
\* tenant and amount agree, and with ErrReservationState otherwise.
ReserveBegin(c, t, k, amount) ==
    /\ claim[c] = None
    /\ reservation[k] = None
    /\ claim' = [claim EXCEPT ![c] = Opening("reserved", t, k, amount)]
    /\ UNCHANGED <<account, reservation, booked>>

\* Mutant: the reservation row is read without FOR UPDATE.
TransitionBeginUnlocked(c, k, to) ==
    /\ claim[c] = None
    /\ reservation[k] # None
    /\ reservation[k].status = "reserved"
    /\ claim' = [claim EXCEPT ![c] =
            Opening(to, reservation[k].tenant, k, reservation[k].amount)]
    /\ UNCHANGED <<account, reservation, booked>>

\* A row that is "to" already ends the call, and so does one that left "reserved".
TransitionBegin(c, k, to) ==
    /\ claim[c] = None
    /\ reservation[k] # None
    /\ reservation[k].status = "reserved"
    /\ ReservationFree(k)
    /\ claim' = [claim EXCEPT ![c] =
            Opening(to, reservation[k].tenant, k, reservation[k].amount)]
    /\ UNCHANGED <<account, reservation, booked>>

\* Mutant: the reserved amount is trusted to include the reservation.
CoversBalance(row, x) ==
    CASE x.to = "reserved" -> row.balance >= row.reserved + x.amount
      [] x.to = "released" -> TRUE
      [] x.to = "captured" -> row.balance >= x.amount

\* Whether the account covers a transaction of this kind.  UpsertAccount may
\* have taken away what an open reservation had reserved.
Covers(row, x) ==
    CASE x.to = "reserved" -> row.balance >= row.reserved + x.amount
      [] x.to = "released" -> row.reserved >= x.amount
      [] x.to = "captured" -> row.reserved >= x.amount /\ row.balance >= x.amount

\* Mutant: the account row is read without FOR UPDATE.
ReadAccountUnlocked(c) ==
    /\ At(c, "sought")
    /\ LET x == claim[c]
       IN  /\ account[x.tenant] # None
           /\ Covers(account[x.tenant], x)
           /\ claim' = [claim EXCEPT ![c].pc = "ready", ![c].seen = account[x.tenant]]
    /\ UNCHANGED <<account, reservation, booked>>

\* SELECT ... FOR UPDATE on the account; without cover the call rolls back.
LockAccount(c) ==
    /\ At(c, "sought")
    /\ LET x == claim[c]
       IN  /\ account[x.tenant] # None
           /\ AccountFree(x.tenant)
           /\ Covers(account[x.tenant], x)
           /\ claim' = [claim EXCEPT ![c].pc = "ready", ![c].seen = account[x.tenant]]
    /\ UNCHANGED <<account, reservation, booked>>

\* The columns the UPDATE of the account writes, reckoned from what was seen.
Updated(row, x) ==
    CASE x.to = "reserved" -> [row EXCEPT !.reserved = x.seen.reserved + x.amount]
      [] x.to = "released" -> [row EXCEPT !.reserved = x.seen.reserved - x.amount]
      [] x.to = "captured" -> [balance |-> x.seen.balance - x.amount,
                               reserved |-> x.seen.reserved - x.amount]

\* Mutant: the idempotency key has no unique index.
ClaimCommitNoIndex(c) ==
    /\ At(c, "ready")
    /\ LET x == claim[c]
       IN  /\ account' = [account EXCEPT ![x.tenant] = Updated(@, x)]
           /\ reservation' = [reservation EXCEPT ![x.key] =
                  [tenant |-> x.tenant, amount |-> x.amount, status |-> x.to]]
    /\ claim' = [claim EXCEPT ![c] = None]
    /\ UNCHANGED booked

\* Both rows are written and the transaction commits.  A second INSERT of the
\* same key fails on the unique index, and that call rolls back.
ClaimCommit(c) ==
    /\ At(c, "ready")
    /\ LET x == claim[c]
       IN  /\ x.to = "reserved" => reservation[x.key] = None
           /\ account' = [account EXCEPT ![x.tenant] = Updated(@, x)]
           /\ reservation' = [reservation EXCEPT ![x.key] =
                  [tenant |-> x.tenant, amount |-> x.amount, status |-> x.to]]
    /\ claim' = [claim EXCEPT ![c] = None]
    /\ UNCHANGED booked

\* A guard fails, a statement fails, or the process dies.
ClaimRollback(c) ==
    /\ claim[c] # None
    /\ claim' = [claim EXCEPT ![c] = None]
    /\ UNCHANGED <<account, reservation, booked>>

ReservationsNext ==
    \/ \E t \in Tenants, balance, reserved \in Balances : UpsertAccount(t, balance, reserved)
    \/ \E c \in Callers :
        \/ \E t \in Tenants, k \in Keys, amount \in Amounts : ReserveBegin(c, t, k, amount)
        \/ \E k \in Keys, to \in Ends : TransitionBegin(c, k, to)
        \/ LockAccount(c)
        \/ ClaimCommit(c)
        \/ ClaimRollback(c)

ReservationsSpec == ReservationsInit /\ [][ReservationsNext]_reservationsVars

-----------------------------------------------------------------------------
(* Properties. *)

\* Accounts, reservations and open transactions are well formed: no balance
\* and no reserved amount is ever negative.
ReservationsTypeOK ==
    /\ account \in [Tenants -> Accounts \cup {None}]
    /\ reservation \in [Keys -> ReservationRows \cup {None}]
    /\ claim \in [Callers -> ClaimRecords \cup {None}]
    /\ booked \in [Tenants -> Bookings \cup {None}]

\* However reservations, captures, releases and corrections of the account
\* interleave, an account never has more reserved than it holds.
Solvent == \A t \in Tenants : account[t] # None => account[t].reserved <= account[t].balance

Total(claims) == SumOver([k \in claims |-> reservation[k].amount], claims)

\* The columns and the reservation rows tell the same story: since the account
\* was last set, its reserved amount moved by exactly the reservations opened
\* and closed, and its balance by exactly the ones captured, each once.
BooksBalance ==
    \A t \in Tenants : account[t] # None =>
        LET then == booked[t]
            open == Claims(t, "reserved")
        IN  /\ account[t].reserved + Total(then.open \ open)
                 = then.row.reserved + Total(open \ then.open)
            /\ account[t].balance + Total(Claims(t, "captured") \ then.captured)
                 = then.row.balance

-----------------------------------------------------------------------------
(* The refinement: the tables, with every transaction at its commit. *)

Book == INSTANCE AccountBook

\* However transactions interleave, fail and are retried, the two tables change
\* as if each had run alone at the moment it committed (the lookups, row locks
\* and guards of Reserve, Capture and Release are enough together).
ActsAtOnce == Book!Spec

=============================================================================
