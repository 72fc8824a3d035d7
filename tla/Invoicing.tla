----------------------------- MODULE Invoicing -----------------------------
(***************************************************************************)
(* The usage ledger, invoice periods and invoices.                         *)
(*                                                                         *)
(* RecordUsage inserts a usage row unless its idempotency key is taken; it *)
(* takes no notice of periods, so a row stamped inside a period may arrive *)
(* after that period was invoiced.  EnsurePeriod inserts a period unless   *)
(* the tenant has one that starts then.  IssueInvoice is one transaction   *)
(* of several statements without a row lock: it reads the period, looks    *)
(* for an invoice, sums the ledger, inserts the invoice and closes the     *)
(* period; the unique index on the period decides between two of them.     *)
(*                                                                         *)
(* A period is its tenant and its start.  Times are small numbers; a row's *)
(* time is its period_start.  An invoice's field rows is history: the      *)
(* ledger rows its totals were summed from.                                *)
(***************************************************************************)
EXTENDS BillingStore, Sums

CONSTANTS
    UsageKeys,  \* idempotency keys of usage rows
    MaxTime,    \* bound on times
    Charges     \* provider cost, markup and service fee of a request

ASSUME InvoicingConstants ==
    /\ MaxTime \in Nat
    /\ Charges \subseteq [cost : Nat, markup : Nat, fee : Nat]
    /\ None \notin UsageKeys

\* The ledger has finitely many rows.
ASSUME FiniteLedger == IsFiniteSet(UsageKeys)

Times == 0 .. MaxTime
Periods == Tenants \X Times
Ownerships == {"platform_pool", "tenant_byok"}
UsageRows ==
    [tenant : Tenants, at : Times, ownership : Ownerships, cost : Nat, amount : Nat]
PeriodRows == [ends : Times, status : {"open", "closed"}]

ASSUME NoneIsNoPeriod == None \notin PeriodRows

VARIABLES
    usage,    \* usage key -> its row, or None
    period,   \* period -> its row, or None
    invoice,  \* period -> its invoice, or None
    issuing   \* caller -> its open transaction, or None

invoicingVars == <<usage, period, invoice, issuing>>

InvoicingInit ==
    /\ usage = [k \in UsageKeys |-> None]
    /\ period = [p \in Periods |-> None]
    /\ invoice = [p \in Periods |-> None]
    /\ issuing = [c \in Callers |-> None]

-----------------------------------------------------------------------------
\* A key on BYOK costs the platform nothing and is billed the service fee.
Amount(ownership, charge) ==
    IF ownership = "platform_pool" THEN charge.cost + charge.markup ELSE charge.fee

\* A key that is taken changes nothing, whoever's row it is.
RecordUsage(k, t, at, ownership, charge) ==
    /\ usage[k] = None
    /\ usage' = [usage EXCEPT ![k] =
            [tenant |-> t, at |-> at, ownership |-> ownership, cost |-> charge.cost,
             amount |-> Amount(ownership, charge)]]
    /\ UNCHANGED <<period, invoice, issuing>>

\* A period that starts then keeps the end it has.
EnsurePeriod(t, starts, ends) ==
    /\ starts < ends
    /\ period[<<t, starts>>] = None
    /\ period' = [period EXCEPT ![<<t, starts>>] = [ends |-> ends, status |-> "open"]]
    /\ UNCHANGED <<usage, invoice, issuing>>

-----------------------------------------------------------------------------
(* IssueInvoice *)

\* A period with an invoice ends the call with that invoice.
IssueAgain(p) ==
    /\ invoice[p] # None
    /\ UNCHANGED invoicingVars

IssueBegin(c, p) ==
    /\ issuing[c] = None
    /\ period[p] # None
    /\ invoice[p] = None
    /\ issuing' = [issuing EXCEPT ![c] = [period |-> p, totals |-> None]]
    /\ UNCHANGED <<usage, period, invoice>>

\* Mutant: the window's end belongs to both neighbours.
ClosedWindow(p) ==
    {k \in UsageKeys : /\ usage[k] # None
                       /\ usage[k].tenant = p[1]
                       /\ usage[k].at \in p[2] .. period[p].ends}

\* The ledger rows of a period: its start belongs to it, its end to the next.
Window(p) ==
    {k \in UsageKeys : /\ usage[k] # None
                       /\ usage[k].tenant = p[1]
                       /\ p[2] <= usage[k].at /\ usage[k].at < period[p].ends}

PlatformPool(rows) == {k \in rows : usage[k].ownership = "platform_pool"}

\* One SELECT computes both sums.
IssueSum(c) ==
    /\ issuing[c] # None /\ issuing[c].totals = None
    /\ LET rows == Window(issuing[c].period)
           pool == PlatformPool(rows)
       IN  issuing' = [issuing EXCEPT ![c].totals =
              [subtotal |-> SumOver([k \in rows |-> usage[k].amount], rows),
               platformCost |-> SumOver([k \in pool |-> usage[k].cost], pool),
               rows |-> rows]]
    /\ UNCHANGED <<usage, period, invoice>>

\* Mutant: an invoice issued meanwhile is written over.
IssueCommitOver(c) ==
    /\ issuing[c] # None /\ issuing[c].totals # None
    /\ LET p == issuing[c].period
       IN  /\ invoice' = [invoice EXCEPT ![p] = issuing[c].totals]
           /\ period' = [period EXCEPT ![p].status = "closed"]
    /\ issuing' = [issuing EXCEPT ![c] = None]
    /\ UNCHANGED usage

\* The INSERT needs the unique index on period_id, and closes the period.
IssueCommit(c) ==
    /\ issuing[c] # None /\ issuing[c].totals # None
    /\ LET p == issuing[c].period
       IN  /\ invoice[p] = None
           /\ invoice' = [invoice EXCEPT ![p] = issuing[c].totals]
           /\ period' = [period EXCEPT ![p].status = "closed"]
    /\ issuing' = [issuing EXCEPT ![c] = None]
    /\ UNCHANGED usage

\* The index refuses the row, a statement fails, or the process dies.
IssueRollback(c) ==
    /\ issuing[c] # None
    /\ issuing' = [issuing EXCEPT ![c] = None]
    /\ UNCHANGED <<usage, period, invoice>>

InvoicingNext ==
    \/ \E k \in UsageKeys, t \in Tenants, at \in Times,
          ownership \in Ownerships, charge \in Charges :
            RecordUsage(k, t, at, ownership, charge)
    \/ \E t \in Tenants, starts, ends \in Times : EnsurePeriod(t, starts, ends)
    \/ \E p \in Periods : IssueAgain(p)
    \/ \E c \in Callers :
        \/ \E p \in Periods : IssueBegin(c, p)
        \/ IssueSum(c)
        \/ IssueCommit(c)
        \/ IssueRollback(c)

InvoicingSpec == InvoicingInit /\ [][InvoicingNext]_invoicingVars

-----------------------------------------------------------------------------
(* Properties. *)

Totals == [subtotal : Nat, platformCost : Nat, rows : SUBSET UsageKeys]

\* Ledger rows, periods and invoices are well formed.
InvoicingTypeOK ==
    /\ usage \in [UsageKeys -> UsageRows \cup {None}]
    /\ period \in [Periods -> PeriodRows \cup {None}]
    /\ invoice \in [Periods -> Totals \cup {None}]
    /\ issuing \in [Callers -> {None} \cup [period : Periods, totals : Totals \cup {None}]]

Disjoint(p, q) == period[p].ends <= q[2] \/ period[q].ends <= p[2]

\* No request is billed twice: a ledger row is in at most one of the invoices
\* of a tenant's periods that do not overlap, also a row stamped on the
\* boundary of two periods, and it is in an invoice of its own tenant.
InvoicedOnce ==
    \A k \in UsageKeys, p \in Periods : invoice[p] # None /\ k \in invoice[p].rows =>
        /\ usage[k].tenant = p[1]
        /\ \A q \in Periods \ {p} :
              /\ q[1] = p[1] /\ invoice[q] # None
              /\ Disjoint(p, q)
              => k \notin invoice[q].rows

\* An invoice is issued once for a period and then never changes, though two
\* callers may be issuing it with different sums, and closing the period comes
\* with it: a period is closed exactly when it has an invoice.
InvoiceIsFinal ==
    [][\A p \in Periods :
        /\ invoice[p] # None => invoice'[p] = invoice[p]
        /\ period'[p] # None => (period'[p].status = "closed" <=> invoice'[p] # None)]_invoicingVars

=============================================================================
