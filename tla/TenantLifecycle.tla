--------------------------- MODULE TenantLifecycle ---------------------------
(***************************************************************************)
(* The tenant registry of internal/controlplane: the status machine, the   *)
(* trial end date and the login slug of every tenant.                      *)
(*                                                                         *)
(* Every mutation is one READ COMMITTED transaction that locks the tenant  *)
(* row and validates against it (Transition, StartTrial, UpdateProfile),   *)
(* and then writes and commits (Commit), or is rolled back.  The           *)
(* administrators and the expiry and dunning jobs the comments speak of    *)
(* are all callers.                                                        *)
(* The variable tenant holds committed rows.  Times are left out except    *)
(* for the trial's end date, which may lie in the past; names are left out *)
(* and a slug is a spelling, folded to the letters LOWER compares.         *)
(***************************************************************************)
EXTENDS Naturals

CONSTANTS
    Tenants,    \* tenant ids
    Spellings,  \* slugs as they are stored
    Callers,    \* concurrent transactions
    Dates,      \* trial end dates
    Fold(_),    \* LOWER on a slug
    None

ASSUME LifecycleConstants ==
    /\ None \notin Callers /\ None \notin Dates
    /\ None \notin Spellings

Statuses == {"registered", "trial", "active", "suspended", "deregistered"}

VARIABLES
    tenant,  \* tenant -> its row, or None
    lock,    \* tenant -> the caller holding its row, or None
    tx       \* caller -> its open transaction, or None

vars == <<tenant, lock, tx>>

Rows == [status : Statuses, trialEnds : Dates \cup {None}, slug : Spellings]

ASSUME NoneIsNoRow == None \notin Rows

-----------------------------------------------------------------------------
\* Mutant: a closed account can be reinstated.
AllowedWithReinstatement ==
    [registered   |-> {"trial", "active", "deregistered"},
     trial        |-> {"active", "suspended", "deregistered"},
     active       |-> {"suspended", "deregistered"},
     suspended    |-> {"active", "deregistered"},
     deregistered |-> {"active"}]

AllowedTransitions ==
    [registered   |-> {"trial", "active", "deregistered"},
     trial        |-> {"active", "suspended", "deregistered"},
     active       |-> {"suspended", "deregistered"},
     suspended    |-> {"active", "deregistered"},
     deregistered |-> {}]

CanTransition(from, to) == to \in AllowedTransitions[from]

Init ==
    /\ tenant = [t \in Tenants |-> None]
    /\ lock = [t \in Tenants |-> None]
    /\ tx = [c \in Callers |-> None]

\* The unique index on tenants.slug compares spellings.
SlugFree(t, slug) ==
    \A u \in Tenants \ {t} : tenant[u] # None => tenant[u].slug # slug

\* Mutant: the status is left at the zero value of its type.
CreateWithoutStatus(c, t, slug) ==
    /\ tx[c] = None /\ tenant[t] = None
    /\ SlugFree(t, slug)
    /\ tenant' = [tenant EXCEPT ![t] = [status |-> "", trialEnds |-> None, slug |-> slug]]
    /\ UNCHANGED <<lock, tx>>

\* The roles and the default plan a tenant is created with are left out.
Create(c, t, slug) ==
    /\ tx[c] = None /\ tenant[t] = None
    /\ SlugFree(t, slug)
    /\ tenant' = [tenant EXCEPT ![t] =
            [status |-> "registered", trialEnds |-> None, slug |-> slug]]
    /\ UNCHANGED <<lock, tx>>

-----------------------------------------------------------------------------
(* Begin: lock the row, read it, validate.  "after" is what will be written *)
(* to the columns in "columns".                                             *)

Free(c, t) == lock[t] \in {None, c}

\* Mutant: the row is read without FOR UPDATE.
LockedNot(c, t) ==
    /\ tx[c] = None /\ tenant[t] # None
    /\ UNCHANGED lock

Locked(c, t) ==
    /\ tx[c] = None /\ tenant[t] # None
    /\ Free(c, t)
    /\ lock' = [lock EXCEPT ![t] = c]

\* A transaction open on row t that will write these columns of "after".
Opened(t, columns, after) ==
    [tenant |-> t, before |-> tenant[t], after |-> after, columns |-> columns]

\* Mutant: leaving a trial keeps its end date.
TransitionKeepingDate(c, t, to) ==
    /\ to # "trial"
    /\ Locked(c, t)
    /\ CanTransition(tenant[t].status, to)
    /\ tx' = [tx EXCEPT ![c] = Opened(t, {"status"}, [tenant[t] EXCEPT !.status = to])]
    /\ UNCHANGED tenant

Transition(c, t, to) ==
    /\ to # "trial"
    /\ Locked(c, t)
    /\ CanTransition(tenant[t].status, to)
    /\ tx' = [tx EXCEPT ![c] = Opened(t, {"status", "trialEnds"},
                [tenant[t] EXCEPT !.status = to, !.trialEnds = None])]
    /\ UNCHANGED tenant

StartTrial(c, t, endsAt) ==
    /\ Locked(c, t)
    /\ CanTransition(tenant[t].status, "trial")
    /\ tx' = [tx EXCEPT ![c] = Opened(t, {"status", "trialEnds"},
                [tenant[t] EXCEPT !.status = "trial", !.trialEnds = endsAt])]
    /\ UNCHANGED tenant

\* The handler fills in the slug it read when only the name is changed.
UpdateProfile(c, t, slug) ==
    /\ Locked(c, t)
    /\ \A u \in Tenants \ {t} : tenant[u] # None => Fold(tenant[u].slug) # Fold(slug)
    /\ tx' = [tx EXCEPT ![c] = Opened(t, {"slug"}, [tenant[t] EXCEPT !.slug = slug])]
    /\ UNCHANGED tenant

\* The UPDATE writes the named columns of the row as it is then.
Written(x) == [col \in DOMAIN x.after |->
                  IF col \in x.columns THEN x.after[col] ELSE tenant[x.tenant][col]]

\* The UPDATE needs the row and the unique index.
Commit(c) ==
    /\ tx[c] # None
    /\ LET x == tx[c]
       IN  /\ Free(c, x.tenant)
           /\ SlugFree(x.tenant, Written(x).slug)
           /\ tenant' = [tenant EXCEPT ![x.tenant] = Written(x)]
           /\ lock' = [lock EXCEPT ![x.tenant] = None]
    /\ tx' = [tx EXCEPT ![c] = None]

\* A statement fails, the client goes away, or the process dies.
Rollback(c) ==
    /\ tx[c] # None
    /\ lock' = [t \in Tenants |-> IF lock[t] = c THEN None ELSE lock[t]]
    /\ tx' = [tx EXCEPT ![c] = None]
    /\ UNCHANGED tenant

Next ==
    \E c \in Callers :
        \/ \E t \in Tenants, slug \in Spellings : Create(c, t, slug)
        \/ \E t \in Tenants, to \in Statuses : Transition(c, t, to)
        \/ \E t \in Tenants, endsAt \in Dates : StartTrial(c, t, endsAt)
        \/ \E t \in Tenants, slug \in Spellings : UpdateProfile(c, t, slug)
        \/ Commit(c)
        \/ Rollback(c)

Spec == Init /\ [][Next]_vars

-----------------------------------------------------------------------------
(* Properties. *)

\* Rows, locks and open transactions are well formed.
TypeOK ==
    /\ tenant \in [Tenants -> Rows \cup {None}]
    /\ lock \in [Tenants -> Callers \cup {None}]
    /\ tx \in [Callers -> {None} \cup
            [tenant : Tenants, before : Rows, after : Rows,
             columns : SUBSET {"status", "trialEnds", "slug"}]]

\* However transitions interleave, a deregistered tenant stays deregistered,
\* nobody returns to "registered", and a trial starts only from there: a
\* status is never written against one that no longer holds.
NoWayBack ==
    [][\A t \in Tenants : tenant[t] # None =>
        LET from == tenant[t].status
            to == tenant'[t].status
        IN  /\ from = "deregistered" => to = "deregistered"
            /\ from # to => to # "registered" /\ (to = "trial" => from = "registered")]_vars

\* A tenant has a trial end date exactly while it is on trial: neither a trial
\* that never ends nor an end date left on a paying tenant.
TrialHasEnd ==
    \A t \in Tenants : tenant[t] # None =>
        (tenant[t].status = "trial" <=> tenant[t].trialEnds # None)

\* Each transaction validated against the row its own write will follow: what
\* it read is still what is committed, whoever else is at work.
ValidatedRowHolds ==
    \A c \in Callers : tx[c] # None => tx[c].before = tenant[tx[c].tenant]

=============================================================================
