--------------------------- MODULE TenantIsolation ---------------------------
(***************************************************************************)
(* Row-level isolation of the Bifrost database: the migrations that give   *)
(* upstream's tables an owner and a policy, the transactions that state    *)
(* on whose behalf they run, and the preflight that keeps a gateway from   *)
(* serving without policies.                                               *)
(*                                                                         *)
(*   internal/migrate              columns, policies, NOT NULL, keys       *)
(*   internal/tenant/binding.go    app.tenant_id and app.platform_mode     *)
(*   internal/rls/preflight.go     what must hold before traffic is served *)
(*   internal/bifroststore         provider key writes in platform mode    *)
(*                                                                         *)
(* Postgres runs a migration's DDL and the insertion of its ID into        *)
(* maas_migrations in one transaction, so the schema is what `applied`     *)
(* says.  Every table has one row, present or not: the properties compare  *)
(* one row with its reader, its parents or its table's constraints.  A row *)
(* write takes effect when its transaction commits; until then it holds    *)
(* the table against DDL, so what it was checked against still stands.     *)
(* Read committed is all the code asks of Postgres.  A parent's delete     *)
(* has the effect on its children that upstream's own foreign key says.    *)
(***************************************************************************)
EXTENDS Naturals, FiniteSets, Sequences, SequencesExt

CONSTANTS
    Tenants,         \* tenant IDs
    Processes,       \* gateways and operator runs that can migrate the schema
    Conns,           \* connections of the runtime pools
    BClassTables,    \* sequence of strictly tenant-owned tables
    CClassTable,     \* config_keys: NULL is the platform pool
    SessionsTable,   \* sessions: platform rows and tenant rows
    TenantFKs,       \* sequence of edges, see Edge
    RowSets,         \* bound: the sets of tables that have a row at one time
    Null,            \* SQL NULL, and a setting that was never set
    NoRow, None

VARIABLES
    applied,   \* maas_migrations, and with it the schema
    rows,      \* the committed row of each table, or NoRow
    conn,      \* settings and open transaction of each pooled connection
    proc,      \* what each process is doing
    exempt,    \* the database role is a superuser or holds BYPASSRLS
    raced      \* tables given a row between a gate's count and its policy

vars == <<applied, rows, conn, proc, exempt, raced>>

----------------------------------------------------------------------------
(* Tables and migrations.                                                   *)

TenantScopedTables == BClassTables \o <<CClassTable, SessionsTable>>
Tables == ToSet(TenantScopedTables)

\* A pointer from a child to a parent; onDelete is what upstream's own key does
\* to the child when the parent goes.  A child may have several parents.
Edge == [child : ToSet(BClassTables), parent : ToSet(BClassTables),
         nullable : BOOLEAN, onDelete : {"CASCADE", "SET NULL", "NO ACTION"}]

ASSUME TablesAssumption ==
    /\ BClassTables \in Seq(ToSet(BClassTables))
    /\ TenantFKs \in Seq(Edge)
    /\ \A e \in ToSet(TenantFKs) : e.onDelete = "SET NULL" => e.nullable
    /\ IsInjective(TenantScopedTables)

PolicyKindFor(t) ==
    CASE t = CClassTable   -> "pool"
      [] t = SessionsTable -> "exclusive"
      [] OTHER             -> "strict"

\* On a table, or for a composite key on an edge.
Step(kind, t) == [kind |-> kind, on |-> t]
Steps(kind, ts) == [i \in DOMAIN ts |-> Step(kind, ts[i])]

Migrations ==
    Steps("column", TenantScopedTables) \o Steps("policy", TenantScopedTables)

ParentTables == {e.parent : e \in ToSet(TenantFKs)}

TighteningMigrations ==
    Steps("notnull", BClassTables)
       \o Steps("parentkey", SetToSeq(ParentTables))
       \o Steps("fk", TenantFKs)

AllSteps == ToSet(Migrations) \cup ToSet(TighteningMigrations)

HasColumn(t) == Step("column", t) \in applied
HasPolicy(t) == Step("policy", t) \in applied
IsNotNull(t) == Step("notnull", t) \in applied
HasFK(e)     == Step("fk", e) \in applied

EdgesOf(t) == {e \in ToSet(TenantFKs) : e.child = t}

----------------------------------------------------------------------------
(* Rows.  `refs` are the edges whose pointer to the parent's row is set;    *)
(* `principal` is used by sessions only.                                    *)

Row == [tenant : Tenants \cup {Null}, refs : SUBSET ToSet(TenantFKs),
        principal : {Null, "platform_admin", "tenant_user"}]

Principals(t) == IF t = SessionsTable THEN {Null, "platform_admin", "tenant_user"} ELSE {Null}

RowsOf(t) ==
    [tenant : Tenants \cup {Null},
     refs : {R \in SUBSET EdgesOf(t) : \A e \in EdgesOf(t) : e.nullable \/ e \in R},
     principal : Principals(t)]

WithinBound(rs) == {t \in Tables : rs[t] # NoRow} \in RowSets

Unattributed(t) == rows[t] # NoRow /\ rows[t].tenant = Null

\* Mutant: only the enumeration of principals is checked.
SessionChecksEnumOnly(r) ==
    r.principal \in {Null, "platform_admin", "tenant_user"}

\* The CHECK constraints that MigrateSessions adds with the columns.
SessionChecks(r) ==
    \/ r.principal = Null
    \/ r.principal = "platform_admin" /\ r.tenant = Null
    \/ r.principal = "tenant_user" /\ r.tenant # Null

\* MATCH SIMPLE: a NULL in a referencing column satisfies the constraint.
PairAccepted(e, child, parent) ==
    child # NoRow =>
        (e \in child.refs /\ child.tenant # Null =>
            parent # NoRow /\ parent.tenant = child.tenant)

\* Upstream's own key on the pointer alone: the parent exists.
UpstreamPairAccepted(e, child, parent) ==
    child # NoRow => (e \in child.refs => parent # NoRow)

\* Every constraint of the schema, on the rows a write would leave.
ConstraintsHold(rs) ==
    /\ \A t \in Tables : rs[t] # NoRow =>
          /\ ~HasColumn(t) => rs[t].tenant = Null /\ rs[t].principal = Null
          /\ IsNotNull(t) => rs[t].tenant # Null
    /\ rs[SessionsTable] # NoRow => SessionChecks(rs[SessionsTable])
    /\ \A e \in ToSet(TenantFKs) :
          /\ UpstreamPairAccepted(e, rs[e.child], rs[e.parent])
          /\ HasFK(e) => PairAccepted(e, rs[e.child], rs[e.parent])

\* A pointer that is set.
Points(e) == rows[e.child] # NoRow /\ e \in rows[e.child].refs

\* The tables whose row goes with the row of t: the fewest that leave no child
\* of a CASCADE edge behind.
CascadeClosed(S) ==
    \A e \in ToSet(TenantFKs) :
        e.onDelete = "CASCADE" /\ e.parent \in S /\ Points(e) => e.child \in S

Cascaded(t) ==
    {u \in Tables : \A S \in SUBSET Tables : t \in S /\ CascadeClosed(S) => u \in S}

\* What upstream's SET NULL leaves of a row when the rows of `gone` go.
Nulled(r, gone) ==
    IF r = NoRow THEN NoRow
    ELSE [r EXCEPT !.refs = {e \in @ : ~(e.onDelete = "SET NULL" /\ e.parent \in gone)}]

\* The rows a delete leaves.  Postgres runs upstream's actions as the tables'
\* owner and outside the policies.
Deleted(t) ==
    LET gone == Cascaded(t)
    IN  [u \in Tables |-> IF u \in gone THEN NoRow ELSE Nulled(rows[u], gone)]

----------------------------------------------------------------------------
(* Policies.  A setting is Null until first set on a connection, and the    *)
(* empty string once a transaction that set it locally has ended.           *)

Coalesce(setting) == IF setting = Null THEN "" ELSE setting

\* The predicates of a policy, for the settings s of a connection.
Unbound(s) == Coalesce(s.tenant) = ""
Bound(s, r) == ~Unbound(s) /\ r.tenant = Coalesce(s.tenant)
PlatformMode(s) == Unbound(s) /\ Coalesce(s.platform) = "on"

\* policyClauses, USING: the rows a statement reads, updates or deletes.
Using(kind, s, r) ==
    \/ PlatformMode(s)
    \/ kind = "exclusive" /\ Unbound(s) /\ r.tenant = Null
    \/ kind = "pool" /\ r.tenant = Null
    \/ Bound(s, r)

\* Mutant: no WITH CHECK of its own, so Postgres uses USING.
WithCheckDefault(kind, s, r) == Using(kind, s, r)

\* policyClauses, WITH CHECK: the rows a statement may leave.
WithCheck(kind, s, r) ==
    \/ PlatformMode(s)
    \/ kind = "exclusive" /\ Unbound(s) /\ r.tenant = Null
    \/ Bound(s, r)

\* FORCE puts the table's owner under the policy; an exempt role never is.
Visible(s, t, r) == HasPolicy(t) /\ ~exempt => Using(PolicyKindFor(t), s, r)
Accepted(s, t, r) == HasPolicy(t) /\ ~exempt => WithCheck(PolicyKindFor(t), s, r)

Settings == [tenant : Tenants \cup {Null, ""}, platform : {Null, "", "on"}]
NewSettings == [tenant |-> Null, platform |-> Null]

\* A transaction for one tenant, for nobody, or across all of them.
Intents == Tenants \cup {None, "unbound", "across"}

Idle == [does |-> "down", at |-> None, counted |-> FALSE]

(* A tenant is named by none of the words that mean something else to the   *)
(* policies, and Null, NoRow and None are nothing but themselves.           *)
ASSUME ValuesAssumption ==
    /\ Null \notin Tenants \cup {"", "on", "platform_admin", "tenant_user"}
    /\ {None, "", "unbound", "across"} \cap Tenants = {}
    /\ None \notin {"unbound", "across"}
    /\ None \notin AllSteps
    /\ NoRow \notin Row

TypeOK ==
    /\ applied \subseteq AllSteps
    /\ rows \in [Tables -> Row \cup {NoRow}]
    /\ \A t \in Tables : rows[t] # NoRow => rows[t] \in RowsOf(t)
    /\ conn \in [Conns -> [set : Settings, intent : Intents]]
    /\ proc \in [Processes ->
          [does : {"down", "migrating", "tightening", "preflight", "serving"},
           at : AllSteps \cup {None}, counted : BOOLEAN]]
    /\ exempt \in BOOLEAN
    /\ raced \subseteq Tables

----------------------------------------------------------------------------
(* A Bifrost database that was used before: upstream's tables, some rows,   *)
(* no owner anywhere.                                                       *)
Init ==
    /\ applied = {}
    /\ \E present \in SUBSET Tables, refs \in SUBSET ToSet(TenantFKs) :
          rows = [t \in Tables |->
                    IF t \in present
                    THEN [tenant |-> Null, refs |-> refs \cap EdgesOf(t), principal |-> Null]
                    ELSE NoRow]
    /\ \A t \in Tables : rows[t] # NoRow => rows[t] \in RowsOf(t)
    /\ WithinBound(rows)
    /\ ConstraintsHold(rows)
    /\ conn = [c \in Conns |-> [set |-> NewSettings, intent |-> None]]
    /\ proc = [p \in Processes |-> Idle]
    /\ exempt \in BOOLEAN
    /\ raced = {}

----------------------------------------------------------------------------
(* Migration runs.                                                          *)

SetOf(p) == IF proc[p].does = "tightening" THEN TighteningMigrations ELSE Migrations
Migrating(p) == proc[p].does \in {"migrating", "tightening"}

Pending(p) == {i \in DOMAIN SetOf(p) : SetOf(p)[i] \notin applied}

\* A gateway starts with the migrations, or without them when
\* MAAS_RUN_DATA_MIGRATIONS is off; an operator starts RunTightening.
Start(p) ==
    /\ proc[p].does = "down"
    /\ \E what \in {"migrating", "preflight", "tightening"} :
          proc' = [proc EXCEPT ![p].does = what]
    /\ UNCHANGED <<applied, rows, conn, exempt, raced>>

\* The migrator opens a transaction for the first migration of the set that
\* maas_migrations does not have.
TakeMigration(p) ==
    /\ Migrating(p) /\ proc[p].at = None
    /\ \E i \in Pending(p) :
          /\ \A j \in Pending(p) : i <= j
          /\ proc' = [proc EXCEPT ![p].at = SetOf(p)[i]]
    /\ UNCHANGED <<applied, rows, conn, exempt, raced>>

Gated(m) ==
    \/ m.kind = "policy" /\ PolicyKindFor(m.on) = "strict"
    \/ m.kind = "notnull"

\* CountUnattributed in the migration's transaction, in platform mode.
MigrationSettings == [tenant |-> Null, platform |-> "on"]

CountUnattributed(t) ==
    IF Unattributed(t) /\ Visible(MigrationSettings, t, rows[t]) THEN 1 ELSE 0

\* Mutant: the policy is installed without a look at the rows.
BackfillUnchecked(m) == ~HasColumn(m.on)

\* assertBackfilled: an unowned row ends the run with ErrBackfillRequired.
BackfillMissing(m) == ~HasColumn(m.on) \/ CountUnattributed(m.on) > 0

AssertBackfilled(p) ==
    /\ proc[p].at # None
    /\ Gated(proc[p].at) /\ ~proc[p].counted
    /\ proc' = [proc EXCEPT ![p] =
          IF BackfillMissing(proc[p].at) THEN Idle ELSE [@ EXCEPT !.counted = TRUE]]
    /\ UNCHANGED <<applied, rows, conn, exempt, raced>>

\* A count keeps ACCESS SHARE on its table to the end of its transaction, and
\* every migration but ADD FOREIGN KEY needs its table exclusively.
LockedByOther(p) ==
    /\ proc[p].at.kind # "fk"
    /\ \E q \in Processes \ {p} :
          proc[q].counted /\ proc[q].at.on = proc[p].at.on

\* Mutant: the key is added NOT VALID.
AddTenantFKNotValid(e) ==
    /\ IsNotNull(e.child)
    /\ Step("parentkey", e.parent) \in applied

\* ADD FOREIGN KEY validates the rows that are there.
AddTenantFK(e) ==
    /\ IsNotNull(e.child)
    /\ Step("parentkey", e.parent) \in applied
    /\ PairAccepted(e, rows[e.child], rows[e.parent])

\* SET NOT NULL validates every row, whatever the policy hides.
SetTenantColumnNotNull(t) == HasColumn(t) /\ ~Unattributed(t)

InstallPolicy(t) == HasColumn(t)

AddParentTenantKey(t) == HasColumn(t)

\* Whether Postgres runs the statements of a migration.
Succeeds(m) ==
    CASE m.kind = "column"    -> TRUE
      [] m.kind = "policy"    -> InstallPolicy(m.on)
      [] m.kind = "notnull"   -> SetTenantColumnNotNull(m.on)
      [] m.kind = "parentkey" -> AddParentTenantKey(m.on)
      [] m.kind = "fk"        -> AddTenantFK(m.on)

\* The DDL waits for the table, runs, and commits with the migration's ID.
\* A failed statement, or an ID that another run has inserted by now, rolls
\* the migration back and ends the run.
ApplyMigration(p) ==
    LET m == proc[p].at IN
    /\ m # None
    /\ Gated(m) => proc[p].counted
    /\ ~LockedByOther(p)
    /\ IF m \notin applied /\ Succeeds(m)
       THEN /\ applied' = applied \cup {m}
            /\ proc' = [proc EXCEPT ![p].at = None, ![p].counted = FALSE]
       ELSE /\ proc' = [proc EXCEPT ![p] = Idle]
            /\ UNCHANGED applied
    /\ UNCHANGED <<rows, conn, exempt, raced>>

\* Nothing is pending: the run's own runtime connections are replaced, and a
\* gateway goes on to the preflight.  (The index set in between changes no
\* query's result.)
FinishRun(p) ==
    /\ Migrating(p) /\ proc[p].at = None /\ Pending(p) = {}
    /\ proc' = [proc EXCEPT ![p] =
          IF @.does = "tightening" THEN Idle ELSE [@ EXCEPT !.does = "preflight"]]
    /\ \E mine \in SUBSET {c \in Conns : conn[c].intent = None} :
          conn' = [c \in Conns |->
                     IF c \in mine THEN [conn[c] EXCEPT !.set = NewSettings] ELSE conn[c]]
    /\ UNCHANGED <<applied, rows, exempt, raced>>

\* rls.Check: a role that the policies bind, and a forced policy everywhere.
CheckRole == ~exempt
CheckTables == \A t \in Tables : HasPolicy(t)
Check == CheckRole /\ CheckTables

\* rls.Enforce: the gateway serves, or refuses to start.
Enforce(p) ==
    /\ proc[p].does = "preflight"
    /\ proc' = [proc EXCEPT ![p] =
          IF Check THEN [@ EXCEPT !.does = "serving"] ELSE Idle]
    /\ UNCHANGED <<applied, rows, conn, exempt, raced>>

\* A crash, or a migration that Postgres picks as the victim of a deadlock
\* between two runs that counted one table: the transaction is rolled back.
Crash(p) ==
    /\ proc[p].does # "down"
    /\ proc' = [proc EXCEPT ![p] = Idle]
    /\ UNCHANGED <<applied, rows, conn, exempt, raced>>

Serving == \E p \in Processes : proc[p].does = "serving"

\* What a rolled back "column" migration does to the row.
DropTenantColumn(r) ==
    IF r = NoRow THEN NoRow ELSE [r EXCEPT !.tenant = Null, !.principal = Null]

\* An operator rolls back the last migration of a set while no run is at
\* work; the first set only with every gateway down and the second one gone.
RollbackLast(set) ==
    /\ \A p \in Processes : proc[p].at = None
    /\ set = Migrations =>
          /\ \A p \in Processes : proc[p].does = "down"
          /\ \A c \in Conns : conn[c].intent = None
          /\ applied \subseteq ToSet(Migrations)
    /\ \E i \in {k \in DOMAIN set : set[k] \in applied} :
          /\ \A j \in DOMAIN set : set[j] \in applied => j <= i
          /\ applied' = applied \ {set[i]}
          /\ rows' = IF set[i].kind = "column"
                     THEN [rows EXCEPT ![set[i].on] = DropTenantColumn(@)]
                     ELSE rows
          /\ raced' = IF set[i].kind = "policy" THEN raced \ {set[i].on} ELSE raced
    /\ UNCHANGED <<conn, proc, exempt>>

----------------------------------------------------------------------------
(* Transactions on a pooled connection.                                     *)

Up == \E p \in Processes : proc[p].does # "down"

\* Transaction-local settings, each read back before anything else runs.
Bind(s, id) == [s EXCEPT !.tenant = id]
EnablePlatformMode(s) == [s EXCEPT !.platform = "on"]

\* Mutant: the tenant is bound under the other setting's name.
RunInTenantTxWrongName(c, id) ==
    /\ Serving
    /\ conn[c].intent = None
    /\ conn' = [conn EXCEPT ![c].intent = id, ![c].set.platform = id]
    /\ UNCHANGED <<applied, rows, proc, exempt, raced>>

\* RunInTenantTx: only code behind a serving gateway resolves a tenant.
RunInTenantTx(c, id) ==
    /\ Serving
    /\ conn[c].intent = None
    /\ conn' = [conn EXCEPT ![c].intent = id, ![c].set = Bind(@, id)]
    /\ UNCHANGED <<applied, rows, proc, exempt, raced>>

\* RunAsPlatform, and every statement of upstream that knows no tenant.
RunAsPlatform(c) ==
    /\ Up
    /\ conn[c].intent = None
    /\ conn' = [conn EXCEPT ![c].intent = "unbound"]
    /\ UNCHANGED <<applied, rows, proc, exempt, raced>>

\* RunAcrossTenants: provider key writes, lookups and backfills.
RunAcrossTenants(c) ==
    /\ Up
    /\ conn[c].intent = None
    /\ conn' = [conn EXCEPT ![c].intent = "across",
                           ![c].set = EnablePlatformMode(@)]
    /\ UNCHANGED <<applied, rows, proc, exempt, raced>>

\* A provider key write inside a transaction that upstream has opened.
WithPlatformTransaction(c) ==
    /\ conn[c].intent = "unbound"
    /\ conn' = [conn EXCEPT ![c].intent = "across",
                           ![c].set = EnablePlatformMode(@)]
    /\ UNCHANGED <<applied, rows, proc, exempt, raced>>

\* Mutant: session-scoped settings outlive their transaction.
AfterTxSessionScoped(c) == conn[c].set

\* A local set_config leaves the empty string behind.
AfterTx(c) ==
    LET s == conn[c].set IN
    [tenant   |-> IF conn[c].intent \in Tenants THEN "" ELSE s.tenant,
     platform |-> IF conn[c].intent = "across" THEN "" ELSE s.platform]

\* Upstream's models have no owner columns, so its statements leave them be.
KeepsOwner(old, new) ==
    IF old = NoRow THEN new.tenant = Null /\ new.principal = Null
                   ELSE new.tenant = old.tenant /\ new.principal = old.principal

\* The rows that the callers of each kind of transaction ask for.  Unbound
\* statements are upstream's; platform transactions are upstream's provider
\* key writes and the backfill, which gives a row its owner.  A tenant's
\* transaction, and the logins the sessions columns are made for, may ask for
\* anything: refusing is left to the database.
AsksFor(intent, t, old, new) ==
    /\ intent = "unbound" /\ t # SessionsTable => KeepsOwner(old, new)
    /\ intent = "across" /\ t = CClassTable => KeepsOwner(old, new)
    /\ intent = "across" /\ PolicyKindFor(t) = "strict" => new.tenant # Null

\* The transaction writes or deletes the row of t and commits, when Postgres
\* lets it.
CommitWrite(c, t, new) ==
    LET s == conn[c].set
        old == rows[t]
        after == IF new = NoRow THEN Deleted(t) ELSE [rows EXCEPT ![t] = new]
        late == {u \in {t} : \E p \in Processes :
                    proc[p].counted /\ proc[p].at = Step("policy", u)} IN
    /\ conn[c].intent # None
    /\ new # old
    /\ new # NoRow => AsksFor(conn[c].intent, t, old, new)
    /\ old # NoRow => Visible(s, t, old)
    /\ new # NoRow => Accepted(s, t, new)
    /\ WithinBound(after)
    /\ ConstraintsHold(after)
    /\ rows' = after
    /\ conn' = [conn EXCEPT ![c] = [set |-> AfterTx(c), intent |-> None]]
    /\ raced' = {u \in raced \cup late : after[u] # NoRow /\ after[u].tenant = Null}
    /\ UNCHANGED <<applied, proc, exempt>>

\* The transaction ends without a write.
EndTx(c) ==
    /\ conn[c].intent # None
    /\ conn' = [conn EXCEPT ![c] = [set |-> AfterTx(c), intent |-> None]]
    /\ UNCHANGED <<applied, rows, proc, exempt, raced>>

\* The pool replaces a connection; what was open on it is rolled back.
Reconnect(c) ==
    /\ conn[c] # [set |-> NewSettings, intent |-> None]
    /\ conn' = [conn EXCEPT ![c] = [set |-> NewSettings, intent |-> None]]
    /\ UNCHANGED <<applied, rows, proc, exempt, raced>>

ProcessStep(p) ==
    \/ Start(p) \/ TakeMigration(p) \/ AssertBackfilled(p) \/ ApplyMigration(p)
    \/ FinishRun(p) \/ Enforce(p) \/ Crash(p)

ConnStep(c) ==
    \/ \E id \in Tenants : RunInTenantTx(c, id)
    \/ RunAsPlatform(c) \/ RunAcrossTenants(c) \/ WithPlatformTransaction(c)
    \/ \E t \in Tables : \E new \in RowsOf(t) \cup {NoRow} : CommitWrite(c, t, new)
    \/ EndTx(c) \/ Reconnect(c)

Next ==
    \/ \E p \in Processes : ProcessStep(p)
    \/ \E c \in Conns : ConnStep(c)
    \/ RollbackLast(Migrations) \/ RollbackLast(TighteningMigrations)

Spec == Init /\ [][Next]_vars

----------------------------------------------------------------------------
(* Properties.                                                              *)

\* The rows that a transaction is meant to see in a table of a kind.
Meant(intent, kind, r) ==
    \/ intent = "across"
    \/ intent = "unbound" /\ kind # "strict" /\ r.tenant = Null
    \/ intent \in Tenants /\ r.tenant = intent
    \/ intent \in Tenants /\ kind = "pool" /\ r.tenant = Null

(* The two tiers of sessions never meet: no tenant transaction sees the     *)
(* session of a platform administrator, no unbound one that of a tenant's   *)
(* user, and both are what the CHECK on principal and owner is for.         *)
SessionTiersApart ==
    rows[SessionsTable] # NoRow /\ HasPolicy(SessionsTable) /\ ~exempt =>
        \A c \in Conns :
            Visible(conn[c].set, SessionsTable, rows[SessionsTable]) =>
                /\ conn[c].intent \in Tenants =>
                      rows[SessionsTable].principal # "platform_admin"
                /\ conn[c].intent = "unbound" =>
                      rows[SessionsTable].principal # "tenant_user"

(* A transaction sees what it was opened to see, no more and no less,       *)
(* whatever its connection served before: a tenant its own rows and the     *)
(* key pool, upstream's unbound statements the platform's rows, a platform  *)
(* transaction everything.  For a tenant this holds on every table, since   *)
(* Enforce lets nobody serve before the policies are there; for the others  *)
(* it holds from the moment a table has its policy.  And the two tiers of   *)
(* sessions stay apart.                                                     *)
SeesWhatItShould ==
    /\ SessionTiersApart
    /\ \A c \in Conns, t \in Tables :
         /\ conn[c].intent # None /\ rows[t] # NoRow
         /\ conn[c].intent \in Tenants \/ (HasPolicy(t) /\ ~exempt)
         => (Visible(conn[c].set, t, rows[t])
                <=> Meant(conn[c].intent, PolicyKindFor(t), rows[t]))

(* Once an edge has its composite key, no child row points at a parent of   *)
(* another tenant or goes unchecked for want of an owner, through backfill  *)
(* writes, restarted tightening runs and rollbacks.                         *)
NoCrossTenantPair ==
    \A e \in ToSet(TenantFKs) :
        HasFK(e) /\ Points(e) =>
            /\ rows[e.parent] # NoRow
            /\ rows[e.child].tenant # Null
            /\ rows[e.child].tenant = rows[e.parent].tenant

(* A strict policy never stands over a row without an owner, which nobody   *)
(* but a platform transaction could see: assertBackfilled keeps the policy  *)
(* out, WITH CHECK keeps such rows out afterwards.  The one exception is a  *)
(* row written between the count and the policy's lock.                     *)
NothingHidden ==
    \A t \in ToSet(BClassTables) :
        HasPolicy(t) /\ ~exempt /\ Unattributed(t) => t \in raced

\* A pointer between rows of different owners.
Crosses(e) == Points(e) /\ rows[e.child].tenant # rows[e.parent].tenant

(* A tenant transaction leaves no row that is not its tenant's and touches  *)
(* none: it cannot add to the platform's key pool (WITH CHECK is stricter   *)
(* than USING on config_keys for this reason; to take from it, it can), and *)
(* a parent it deletes takes nobody else's child along, though upstream's   *)
(* CASCADE and SET NULL ask no policy: not unless a pointer crosses owners  *)
(* on an edge that has no composite key yet.                                *)
TenantLeavesOwnRows ==
    [][\A c \in Conns, t \in Tables :
          conn[c].intent \in Tenants /\ conn'[c] # conn[c] /\ rows'[t] # rows[t]
          => LET Mine(r) == r = NoRow \/ r.tenant = conn[c].intent
             IN  \/ /\ Mine(rows'[t])
                    /\ Mine(rows[t]) \/ (t = CClassTable /\ rows[t].tenant = Null)
                 \/ \E e \in ToSet(TenantFKs) :
                       Crosses(e) /\ ~HasFK(e) /\ e.onDelete # "NO ACTION"]_vars
=============================================================================
