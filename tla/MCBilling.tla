----------------------------- MODULE MCBilling -----------------------------
(***************************************************************************)
(* A small instance of the billing store for TLC: Reservations, Invoicing  *)
(* and Catalogue over the same tenants.                                    *)
(***************************************************************************)
EXTENDS Reservations, Invoicing, Catalogue

\* A model of provider "o", and the same model without its provider.
MCIds == {Star, <<"o", "m">>, <<"m">>}

MCOffers ==
    {[terms |-> 1, models |-> {<<"o", "m">>}],
     [terms |-> 2, models |-> {Star}]}

MCSeedOffer == [terms |-> 0, models |-> {Star}]

\* Set so that a price per thousand loses the remainder (3 = 2 * 1 + 1).
MCPrices == {[prompt |-> 3, completion |-> 1]}
MCLegacyPrices == {[prompt |-> 1, completion |-> 0]}

MCQuotas == [developer |-> {}, pro |-> {<<"o", "m">>}]

MCCharges == {[cost |-> 2, markup |-> 1, fee |-> 1]}

VARIABLE part  \* the part at work

\* The catalogue is explored from three sides: prices and plans while two API
\* processes start, serve and die, and everything at once around a single one
\* that works on one plan at a time.
Replicas(work) ==
    \/ work = "prices" /\ UNCHANGED <<registered, assignment, desk, gate>>
    \/ /\ work = "plans" /\ UNCHANGED <<registered, assignment, gate>>
       /\ sku' # sku => api' # api
    \/ /\ work = "requests"
       /\ \E a \in Apis : \A b \in Apis \ {a} : api'[b] = Down
       /\ \E c \in Callers : \A d \in Callers \ {c} : desk'[d] = None

CatalogueParts == {"prices", "plans", "requests"}

\* The three modules share no variable, so every state of one is reached with
\* the other two where they started: each behaviour exercises one of them.
PartInit ==
    /\ part \in {"reservations", "invoicing"} \cup CatalogueParts
    /\ ReservationsInit /\ InvoicingInit /\ CatalogueInit
    /\ part # "requests" => registered = {}
    /\ part \notin {"prices", "plans"} => columns = {}

PartNext ==
    /\ \/ part = "reservations" /\ ReservationsNext /\ UNCHANGED <<invoicingVars, catalogueVars>>
       \/ part = "invoicing" /\ InvoicingNext /\ UNCHANGED <<reservationsVars, catalogueVars>>
       \/ CatalogueNext /\ Replicas(part) /\ UNCHANGED <<reservationsVars, invoicingVars>>
    /\ UNCHANGED part

PartSpec == PartInit /\ [][PartNext]_<<reservationsVars, invoicingVars, catalogueVars, part>>

\* Ledger, accounts, catalogue and open transactions are well formed: no
\* balance is negative, no tenant is on a plan that does not exist.
BillingTypeOK == ReservationsTypeOK /\ InvoicingTypeOK /\ CatalogueTypeOK

BillingSymmetry == Permutations(Callers) \cup Permutations(Keys) \cup Permutations(Apis)
=============================================================================
