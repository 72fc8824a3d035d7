---------------------------- MODULE BillingStore ----------------------------
(***************************************************************************)
(* What the parts of internal/billing share: the tenants whose money it    *)
(* keeps and the database transactions that work on its tables at once.    *)
(* Reservations, Invoicing and Catalogue each model the tables of one part *)
(* and MCBilling puts them side by side.                                   *)
(*                                                                         *)
(* Every operation is one READ COMMITTED transaction, or a run of          *)
(* autocommitted statements, of a caller.  The variables of the parts hold *)
(* committed rows; what a transaction has read and not yet written is in   *)
(* its record.                                                             *)
(***************************************************************************)
EXTENDS Naturals, FiniteSets

CONSTANTS
    Tenants,  \* tenant ids
    Callers,  \* concurrent transactions
    None

ASSUME BillingConstants == None \notin Tenants \cup Callers
=============================================================================
