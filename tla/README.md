# Verification of Joysteed-MaaS

TLA+ models of the control plane and the gateway plugins of Joysteed-MaaS, the
TLC configurations that check them on small instances, and TLAPS proofs of the
properties that must hold for every number of keys, tenants and processes. The
modules follow the Go code under `src/`; `PROJECT.json` maps each definition to
the lines it models.

## 1. The system

Joysteed-MaaS resells language models to tenants. It is three programs around
two kinds of store:

| part | what it is | state |
| --- | --- | --- |
| `maas-api` | control-plane HTTP API (admin and tenant portal), in one or several replicas; each migrates and seeds the control database when it starts | none of its own; every request is a Postgres transaction |
| `maas-gateway` | the data plane: Bifrost with the plugins of `plugins/`, plus a configuration reconciler; it migrates the Bifrost schema when it starts | governance runtime cache, reconciler fence, restored tenants, lease keepers |
| `maas-ui` | browser front end | none |
| Postgres | control database, Bifrost configuration database, Bifrost logs | rows |
| Redis | pub/sub, credit counters, concurrency leases | keys with a TTL |

The control database is the truth. Gateways learn of a change from a
generation number: every configuration change allocates the tenant's next
generation and writes an outbox row in the same transaction, the API then
announces the generation over pub/sub, and each gateway also lists the
generations periodically. On a generation ahead of its fence a gateway projects
the tenant's virtual keys into Bifrost's own database and into its runtime
cache, and acknowledges each key in the control database. Requests are
authenticated by `tenantauth`, admitted and metered by `tenantusage` (the
ledger in Postgres, the counter and the concurrency slots in Redis) and checked
by `guardrails`.

### Inventory

| component | state | operations | what is hard |
| --- | --- | --- | --- |
| virtual keys (`internal/virtualkey/store.go`) | key rows: status, desired state, desired and applied generation | create, revoke, retry, list, reveal | a change arrives while an older one is being applied |
| projector (`internal/virtualkey/projector.go`) | `restored` | restore a tenant once, project its dirty keys, mark failures | several gateways over the same rows; a crash between the Bifrost write and the acknowledgement |
| projection target (`internal/bifrostprojection`) | Bifrost rows, runtime cache | Upsert, Delete | two stores written one after the other |
| configuration bus (`internal/configbus`) | generations, outbox, fence | PublishTx, Publish, MarkPublished, Subscribe, Observe, Reconcile | lost, late and reordered notifications; two workers of one process |
| usage plugin (`plugins/tenantusage`), counter (`internal/quota`), ledger (`internal/billing`) | month counters, claims, usage rows | PreLLMHook, PostLLMHook, ChargeOnce, RecordUsage, CheckAllowance | two accounts that fail independently, the end of the month, resent scripts |
| semaphore (`internal/fairness`) | two sorted sets, lease keys | Acquire, Renew, Release | clocks of different hosts, a renewal racing a release or a reclaim, crashes |
| members, roles, sessions, audit (`internal/member`, `authn`, `rbac`, `audit`) | members, bindings, sessions, audit rows | create, update, disable, reset, login, revoke | READ COMMITTED transactions that count rows they do not lock |
| tenant registry (`internal/controlplane`) | status, trial end, slug | create, transition, start trial, update profile | concurrent transitions; case of slugs |
| billing (`internal/billing`, the rest), start of the API (`cmd/maas-api`, `seedDefaultPlan`), model listing (`internal/modelaccess`) | accounts, reservations, periods, invoices, plans and allow-lists, prices, assignments | reserve, capture, release, correct; record, issue; migrate, seed, set a plan, a price, an assignment; admit, price, list | transactions without a row lock, a migration that dies half way or races another replica, rows read again at settlement |
| tenant binding (`internal/tenant`), preflight (`internal/rls`), provider keys (`internal/bifroststore`) | session variables of a pooled connection | RunInTenantTx, RunAsPlatform, RunAcrossTenants, Enforce | a setting that outlives its transaction; policies that are there and filter nothing |
| authentication (`plugins/tenantauth`, `internal/tenantauth`) | none | resolve a key twice, by three lookups each, and check the tenant | the key, its owner and the tenant's status are read at different moments |
| migration (`internal/migrate`) | `maas_migrations` and the schema | columns, policies, NOT NULL, parent keys, composite keys, rollback | two runners, a restart half way, rows that arrive between a check and its DDL |
| guardrails, request log reader, portal service, cipher, key-value store, governance store, UI | none, or single Redis commands | | stateless, read-only or pure I/O |

What makes each modelled component correct is stated as the properties of its
module (section 3). The behaviours that tests hardly reach are listed, with the
line where each bites, under `hazards` in `PROJECT.json`; the ones no property
covers are in section 5.

## 2. Modules

| module | models | instance |
| --- | --- | --- |
| `KeyProjection` | key store, projector, projection target, one reconciler per gateway | `MCKeyProjection` |
| `KeyAccess` | abstract: what the key service promises a tenant | (refined by `KeyProjection`) |
| `ConfigBus` | generations, outbox, pub/sub, the reconciler's two workers | `MCConfigBus` |
| `UsageMetering` | admission and settlement of one tenant's credit | `MCUsageMetering` |
| `Semaphore` | the expiring semaphore with its scripts and clocks | `MCSemaphore` |
| `Identity` | members, bindings, sessions and audit of one tenant | `MCIdentity` |
| `TenantLifecycle` | the tenant registry | `MCAdmission` |
| `Admission` | the admission of a data-plane request, over the registry of `TenantLifecycle` | `MCAdmission` |
| `BillingStore` | the constants the parts of billing share | |
| `Sums` | the SUM of a column over a set of rows | |
| `Reservations` | prepaid accounts and reservations | `MCBilling` |
| `AccountBook` | abstract: what the accounts promise their callers, every operation at once | (refined by `Reservations`) |
| `Invoicing` | usage ledger, periods, invoices | `MCBilling` |
| `Catalogue` | plans, prices, assignments, the start of the API, a gateway's admission, pricing and listing | `MCBilling` |
| `TenantIsolation` | row-level security of the Bifrost database: migrations, bindings, preflight | `MCTenantIsolation` |
| `KeyProjection_proofs` | theorems about `KeyProjection` and its refinement of `KeyAccess` | |
| `ConfigBus_proofs`, `Semaphore_proofs`, `Identity_proofs`, `TenantIsolation_proofs` | theorems about the module of that name | |
| `Admission_proofs` | theorems about `TenantLifecycle` and `Admission` | |
| `Billing_proofs` | what sums satisfy, and theorems about `Reservations` and its refinement of `AccountBook`, `Invoicing` and `UsageMetering` | |
| `Catalogue_proofs` | theorems about `Catalogue`, and about the billing store as a whole | |

Conventions. An action is one atomic step of the code: one autocommitted
statement, one Redis script, or one piece of a transaction between two points at
which another process can be seen. Where a transaction is a single action, its
row locks make it one. Postgres is READ COMMITTED: variables hold committed rows
and a transaction's own uncommitted writes are kept with the transaction.
Payloads, secrets, names and times that no property tells apart are left out.
An operator whose comment starts with "Mutant:" is not part of the model: it is a
plausible mistake in the definition that follows it, and `PROJECT.json` says which
property notices it.

**KeyProjection.** `rows` is the key table, `generation` the tenant's generation
row, `configDB` Bifrost's key table, `cache`, `fence` and `restored` the memory
of each process. `CreateTx`, `RevokeTx`, `RetryTx` are the three mutating
handlers with `PublishTx` in the same transaction. A pass of `ProjectTenant` is
`Observe`, `ReadSnapshot`, `RestoreUpsert`/`RestoreHydrate` per key,
`RestoreDone`, `ListDirty`, then per key `LockRow` (SELECT FOR UPDATE and the
re-check), `TargetWrite` (Bifrost database), `TargetRuntime` (runtime cache),
`Acknowledge`, and finally `PassDone`, which moves the fence if no key failed.
`Crash`, `PassFails`, `TargetFails` and `AcknowledgeFails` are the failures; a
failed commit may have taken effect. `Start` leaves open whether Bifrost boots
with an empty cache or with its database's contents, because Bifrost is external.

**ConfigBus.** Publishers take a generation (`Allocate`, under the row lock of
`config_generations`), commit or roll back, then notify and mark, any of which
may not happen. A process has a consumer and a ticker which both call `Observe`
under one mutex. The loaded snapshot is represented by its generation.
`KeyProjection` uses the result: it lets `Observe` happen with any committed
generation at any time.

**UsageMetering.** An attempt goes through `CheckAllowance` (ledger),
`ReadCounter` (Redis and the decision), `Acquire`, `Settle` (the slot is released
first), `ChargeOnce`, `RecordAttempt` (`Store.RecordUsage`). The counter is charged to the month of
admission, the ledger row is dated at settlement, as in the code. Either account
may fail, Redis may restart empty, a request may die anywhere. `exhausted`,
`peak` and `cost` after the end are history for the properties.

**Semaphore.** Sorted-set scores and lease keys with Redis's clock and one clock
per client. `AcquireScript` purges with the caller's time; `RenewScript` checks
the lease key. The sent renewal is a message, so a release can overtake it.
`UsageMetering` uses the semaphore without its clocks.

**Identity.** A member request locks the row, reads, writes and commits with an
audit entry in separate steps; a portal request is authorised by a session and a
role first. A login is three statements.

**TenantLifecycle.** Lock, validate, commit; or roll back. Creation is one step.

**Admission.** Extends `TenantLifecycle`: the tenant that a request's key belongs
to moves through its lifecycle while the request is resolved. A request goes
through two hooks, `preauth` and `prehook`, each with `BeginHook` (which reads the
clock), up to three `Lookup` steps (`Lookups`: the current hash, the retired hash,
the plain value), `RegistryGet` and `Decide` (`CanServeTraffic` by a second
reading of the clock). `Issue` and `Remove` are the projection target; rotation,
deactivation and the clock are external. `witness` is history: what held at some
moment, and throughout, since the current hook began.

**Reservations.** A transaction is a `claim`. `ReserveBegin` looks the idempotency
key up without a lock and `TransitionBegin` locks the reservation row;
`LockAccount` is the SELECT FOR UPDATE with the guard of the operation (`Covers`);
`ClaimCommit` writes both rows, the account from what was seen (`Updated`).
`UpsertAccount` overwrites an account whatever is reserved against it, and
`booked` is history for the books. `AccountBook` has the same two tables and no
transactions: a commit is one of its operations, everything else is invisible.

**Invoicing.** `IssueInvoice` reads the period, looks for an invoice, sums the
ledger, inserts and closes, without a row lock: the unique index on the period
decides between two of them. Usage may arrive, and the period may be issued, at
any time.

**Catalogue.** `Apis` are the replicas of the API; none waits for another, since
`Server.Migrate` takes no lock. A start is `HasPromptPer1M`, `HasCompletionPer1M`,
`HasLegacyPer1K` (what it asks before it alters anything), `CreateSKUs` or
`AddColumn`, `CopyQuotas`, `Convert`, `SeedPrice`, `SeedPlan`, then `SeedCount` and
`SeedAssign` per tenant, and `Serve`, in the order of `billing.Migrate` and
`seedDefaultPlan`; `ApiCrash` may end it anywhere. Setting a plan is `PlanLock`,
`PlanClear`, `PlanCommit`. A gateway reads the same tables one statement at a time,
for a request (`GateAssigned` to `PriceUsage`) and for a model listing
(`ListAssignment`, `ListPlanModels`, `ListPriced`, then `allowedModel` per model).
`skuCandidates`, `canonicalSKU`, `modelIDMatches`, `listedProvider` and `price` are
translated as operators; in `ListedIsServed` the owner of a model, the provider a
listing is about and the provider that serves are three independent values.
`meant`, `lost` and `raced` are history: the price last given, the sides a dying start
left unfilled, and the sides some start was still to convert when it was given.

**TenantIsolation.** `applied` is `maas_migrations`; since Postgres commits the
DDL of a migration with its ID, `HasColumn`, `HasPolicy`, `IsNotNull` and `HasFK`
read the schema off it. A process goes through `Start`, then per migration
`TakeMigration`, `AssertBackfilled` (the count, which keeps only a share lock) and
`ApplyMigration` (the DDL and the ID), then `FinishRun` and `Enforce`; an
operator's tightening run is a process with the other set. `conn` is a pooled
connection with the two settings that the policies read and the transaction open
on it; `AfterTx` is the residue Postgres leaves. `Using` and `WithCheck` are the
two clauses of `policyClauses`. What Postgres does (locks, constraints,
`set_config`) and what upstream Bifrost writes are external and modelled from how
the code uses them. An edge has a child, a parent, and the ON DELETE action of
upstream's own key; a child may have any number of parents, each pointer is set or
not (`refs`), and each edge has a migration of its own. Deleting a parent deletes or
nulls its children (`Deleted`) outside the policies, as `compositefk.go:222-229` counts
on. Nothing in the repository calls a rollback: `RollbackLast`
is an operator's use of the `Rollback` half of each migration.

## 3. Runs

| run | instance | shows |
| --- | --- | --- |
| `projection_single` | two keys of a tenant, one gateway, 4 changes, 2 faults | the projection implements `KeyAccess` (`KeepsPromise`); a fence means an up-to-date cache (`CaughtUpCache`); every change is applied (`Converges`) and every active key is cached (`WorksEverywhere`) |
| `projection_fleet` | two keys, two gateways, 3 changes, 1 fault | statuses are truthful, fences sound, active keys configured |
| `projection_stale_cache` | one key, two gateways | violation of `WorksEverywhere`, finding 1 |
| `projection_resurrection` | one key, two gateways | violation of `RevokedIsGone`, finding 2 |
| `bus` | two publishers, one process, 3 generations, 2 faults | gapless outbox, no announcement before commit, no fence ahead of its snapshot (`BusInv`), nothing goes back, every generation reaches the fence |
| `metering` | three attempts, credit 2, charges 0..2, two months, 1 ledger and 2 Redis faults | spent credit stays closed, the overshoot is bounded by what is in flight and nothing is charged twice |
| `semaphore` | three attempts of two tenants at two providers, limits 1, TTL 3, a fast clock | both limits hold and the two sets agree (`SemaphoreInv`), released slots stay free, abandoned slots expire |
| `identity` | two members, a platform request, a portal request, a login, 1 reset | the audit log is the exact history of each member (`AuditIsHistory`), the last owner stays, tenant users never change an owner, a session outlives a reset only where its login overlapped it (`StaleSessionsRaced`) |
| `identity_last_owner` | two members, two platform requests | violation of `OwnerRemains`, finding 3 |
| `isolation` | two tenants, two processes, one connection; five tables: prompts, their versions, their sessions with two parents (CASCADE and SET NULL), the key pool, sessions | a transaction sees exactly what its kind should and session tiers stay apart (`SeesWhatItShould`), composite keys leave no mixed pair, strict policies hide nothing outside one window (`NothingHidden`), a tenant leaves and touches only its own rows, also through cascades (`TenantLeavesOwnRows`) |
| `admission` | registry: two tenants, two callers, three spellings of two handles; gateway: one tenant with one administrator, one key with one rotation, two hooks, a clock of 0..2 | trials have end dates, no way back in the status machine; a request is admitted only on what held since its second resolution began (`AdmittedWasEntitled`), and a secret that is good throughout is not refused (`GoodKeyIsAdmitted`) |
| `billing` | two tenants, two callers; two reservations of 1 or 2 on balances 0, 1, 3; one usage row, times 0..2; two plans, three model ids, one legacy price, one subscriber, one request at a gateway, two replicas of the API | no account is overdrawn (`Solvent`) and columns and rows tell the same story (`BooksBalance`); racing transactions act as if one at a time (`ActsAtOnce`, the refinement of `AccountBook`); no usage is in two invoices unless their periods overlap (`InvoicedOnce`) and an issued invoice never changes (`InvoiceIsFinal`); a plan is what one request set (`PlanIsOneRequests`), a price what was last given, but for the two ways to lose it (`PriceIsMeant`); what is admitted can be priced (`AdmittedIsPriced`), a listing shows what is served, but for bare ids of another provider (`ListedIsServed`) |

**Why the bounds are enough.** Two keys are the least with which one key of a
pass can fail while another succeeds, and on which the order of the dirty list
matters; four generations allow create, revoke, retry and a change of the other
key, which is every kind of change once and an overlap. Two faults allow a crash
during recovery from a failure. Tenants share nothing but the processes, so one
tenant is enough for each run; a second would only multiply states. Two
publishers are enough to race for a generation, and three generations to have an
old notification, a newer one and a newer commit at once. Three attempts with
credit 2 let one attempt be admitted on a stale balance while another settles and
a third arrives after exhaustion. `MaxTime` 7 covers a lease, its renewal and its
expiry after a missed renewal with TTL 3. In `isolation` a property is about
one row, a child and its parents, or what goes with a parent, so a table has one row,
and the tables with edges have rows together while the two others have one alone
(`RowSets`); one connection is enough because settings are per connection, and two processes
to race for a migration, a table lock or a serving gateway. The fast clock is ahead by less than a
renewal leaves of the TTL, the condition stated at `WithinLimits`. In `admission` one
key with one rotation has two secrets, the current and the retired one, and a
clock of three instants puts an end of grace, an expiry and an end of trial before,
between and after the two hooks. In `billing` two reservations of different
amounts are the least that can overdraw together what each could alone; the
times 0..2 hold two adjacent periods and one that overlaps both, and one usage row
suffices because an invoice is a sum over rows taken singly. `Thousand`
is 2 so that a price per thousand loses a remainder. Two replicas are the least of
which one converts while the other serves.

**Parts.** `MCBilling`, `MCAdmission` and `MCTenantIsolation` have a variable `part`,
chosen at the start. Reservations, invoicing and the catalogue share no variable, so
every state of one is reached with the others where they started, and exploring them
side by side would only multiply states. The catalogue is explored from three sides,
because its whole product is out of reach: "prices" (two replicas start, die, convert
and set prices), "plans" (two replicas, and two callers who replace plans) and
"requests" (one replica at a time and one plan transaction, with assignments,
admissions and listings, on a fresh database). An assignment raced by another
replica's seeding is therefore in the model and in the proofs but not in the run. In
`isolation`, "races" has both processes and rows of prompts and versions only, "edges"
one process at a time and every table. In `MCAdmission` the registry is explored alone
under two callers, and the gateway with one tenant and one administrator; `InFocus`
keeps the rest of the registry empty, which a request never reads.

**Deadlock.** It is checked in `bus`, `isolation`, `admission`, `billing` and the `identity` runs.
The others end when their bounds on changes, attempts or time are used up; a real
system goes on with the next request, so they say `CHECK_DEADLOCK FALSE`.

**Symmetry** is used only in runs without temporal properties other than
action properties, over members of one constant set that no definition
distinguishes.

**Fairness.** `KeyProjection`: a process that is down is restarted by its
supervisor, the reconciler's `Run` loop ticks until the process ends (so each
tenant ahead of the fence is observed again and again), and a pass that has begun
takes its steps because every call has a context that ends. Weak fairness
suffices. Faults are finitely many and no client is obliged to call the API.
`ConfigBus`: start, tick, the loop over the listed rows, and the two halves of the
reload; not the publishers, not Redis, not the consumer. The run thus shows that
reconciliation alone converges.

## 4. Proofs

All theorems hold for arbitrary finite or infinite constants satisfying the named
assumptions of the component's module. The assumptions say what the code takes for
granted: limits and times are natural numbers; there is a tenant (`BusAssumption`);
the tables that are summed have finitely many rows (`FiniteReservations`,
`FiniteLedger`, `FiniteAttempts`); the values that stand for a missing row, an empty
setting or no entry are none of the ordinary ones (`NoneIsNoEntry`, `NoneIsNoPeriod`,
`NoneIsNoReservation`, `NoneIsNoRow`, `NoneIsNoSecret`, `ValuesAssumption`); the
tables of the migrations are distinct, an edge joins two strictly owned tables, and a
pointer that upstream sets to NULL may be NULL (`TablesAssumption`; how many parents a
child has is left open, as `TenantFKs` has children with up to four); a model id has
segments, and is a model id without its first one too (`IdsAssumption`). TLC evaluates
them in every run.

Each inductive invariant below was first checked by TLC on the instance of the
run, and each proof has the same shape: one lemma per action, or per part of the
invariant where an action touches few of them, and one theorem that combines them.

**KeyProjection_proofs.** `ProjectionInvariant` proves `Spec => []ProjectionInv`
for any number of gateways, keys and tenants and any bound on changes and faults.
`FenceSound` is what matters: a gateway whose fence has passed a generation left
nothing of it unapplied. It is not inductive, because nothing in it says what a
pass still owes. `PassSound` does: while a pass has met no error, every key that
is unapplied at the observed generation is still in its list or in its hands.
That is preserved because only the holder of a row acknowledges it
(`RowHeldOnce`, from SELECT FOR UPDATE) and because a change made after the
listing has a generation above the observed one (`GenerationBounds`, from the
generation row lock). `WrittenStays` and `ActiveIsConfigured` say that between
the Bifrost write and the acknowledgement no other process removes the row: only
the holder of a revocation deletes. From the invariant follow `TypeCorrect`,
`FenceIsSound`, `StatusIsTruthful` and `ActiveKeysAreConfigured`.

Two action properties hold for every fleet as well. `RevocationIsKept`: a key that is
to be revoked is never to be active again, and one reported revoked is not written any
more. It needs the invariant: a process that is about to acknowledge a key holds a row
that is still unapplied (`RowHeldOnce`), and a revoked one is not (`StatusTruthful`), so
no late acknowledgement or failure mark reaches it. `FencesOnlyAdvance`: the
fence of a running process never goes back; its invariant is `PassIsAhead`, that a
pass is about a generation ahead of the fence it will replace.

`RevocationIsFinal` and `PromiseIsKept` are about any number of gateways that run
together, under one condition: `[]NoDeleteUnderRestore`, that no process is about to
delete a key which another has read in its snapshot and is still to restore. The code
does not ensure it; finding 2 is a behaviour that violates it, and the theorems say
that there is no other way for a revoked key to come back. `UndisturbedInv` is what the
condition buys: what a restore has read is still configured when it is written, so a
restore adds nothing, and what a pass has deleted stays deleted until it is
acknowledged. `OneGatewayKeepsPromise` replaces the condition by one on the deployment
that implies it, `[]OneRunning`: one process runs at a time, and when it has crashed or
stopped another may take over in any state of the rows (a restart, a failover, a
replacement that stops before it starts).
`PromiseIsKept` is the refinement: initial states map to initial states of
`KeyAccess`, and `StepSimulates` maps each action to one abstract step or a
stutter (`CreateTx` to `Request`, `RevokeTx` to `Withdraw`, `TargetWrite` to
`Grant` or `Cut`, `Acknowledge` to `Tell`).

`CacheCatchesUp` proves `CaughtUpCache` under `[]OneRunning`; finding 1 shows that it
fails with two at once, which no condition on restores repairs. `SoleCacheInv` says
how the memory of the process follows the rows: a fence above zero belongs to a
restored tenant, and a process that is down has restored and cached nothing
(`FenceIsRestored`); after the restore the cache holds every active key, and during it
the missing ones are still to do (`CacheHolds`); a revoked key is neither cached nor
in the hands of a restore (`CacheLacks`, which needs that the same process deletes and
restores); what is about to be acknowledged is what the cache has (`CommitIsCached`).
With `FenceSound`, a fence that has passed a change means that its key is
acknowledged, hence cached.

**ConfigBus_proofs.** `BusInv` is not inductive: nothing in it says why two
publishers do not take one generation, or why a slow reload does not undo a newer
one. `BusIInv` adds `RowHeld` (between its upsert and its commit a publisher alone
holds the tenant's row, and its generation is the next), `AnnouncedIsCommitted`
(whatever is on a channel, in a reconciliation pass or marked published is
committed), `Exclusive` (one `Observe` at a time in a process) and
`ReloadsForward` (what it acts on is ahead of the fence, and the snapshot it has
loaded is as new as both). From `BusInductive` follow `BusIsSafe` and, as an action
property, `SnapshotsGoForward`, for any losses, repetitions and crashes.

**Semaphore_proofs.** Two layers. `LeaseInv` holds whatever fails and however far
the clocks are apart: a renewal script that may still run carries a time at which
its attempt was running (`Renewal`), so it finds no lease key after a release.
From `LeaseInvariant` follow `ReleaseIsFinal` and `SlotsComeFree`. The limits need
more: `LimitsHoldClusterWide` assumes `ClocksClose` (two clocks differ by less than
the TTL minus the renewal interval; without it a fast client purges a slot that is
in use, as the script takes the caller's time) and speaks, like the property, of
behaviours in which no Redis call has failed. `LimitInv` says then that every keeper
is punctual and the score of a slot in use lies ahead of every clock, so a purge
removes no live member and a set that grows was below its limit. The counting uses
the library's theorems about finite sets; nothing is assumed of the number of
attempts, tenants or providers.

**Identity_proofs.** `IdentityInv` says that every member has one role and the last
entry of the log is its view (`OneRole`), that an open transaction holds its row,
that what it read is what is there, and that what the handler checked about owners
still holds (`HoldsRow`), and that a session which did not race a reset is of the
current password and doomed by a reset that has written (`FreshSession`). From it
follow `AuditTrailIsComplete`, `ResetsEndSessions` and, as an action property,
`OwnersAreSafe`. `LastOwnerStays` proves `OwnerRemains` for any number of requests of
the platform and of tenant users, as long as no two open transactions take an owner
away at once (`OneTakesOwner`): what `UpdateTx` counted then still holds when it
commits (`CountStillHolds`), because every other request leaves the owners it touches
active owners. Without that condition it is false: finding 3. `OneAdministratorIsEnough`
replaces the condition by one on the deployment: one administrator of the platform
changes members at a time (`OnePlatformRequest`), since tenant users never touch an
owner.

**TenantIsolation_proofs.** `IsolationInv` says that the settings of a connection
are those of its transaction, and nobody's between two (`Bindings`); that a gateway
which serves still has what its preflight saw (`ServesChecked`: a rollback removes
the last migration, and the model lets nobody roll back under a serving gateway);
that the rows satisfy every constraint in force (`ConstraintsHold`), that a
composite key stands on a column that is NOT NULL (`KeysNeedOwners`, from the order
of `TighteningMigrations`, which is proved about the concatenation of its three
lists) and that between the count of `assertBackfilled` and the DDL an unowned row
is a raced one (`CountedHolds`). From it follow `TransactionsSeeTheirRows`,
`PairsShareTheirTenant`, `PoliciesHideNothing`, `TypeCorrect` and, as an action
property, `TenantsWriteTheirOwn`. For the last one `Cascaded` is the least set that
CASCADE does not leave, so no induction along the edges is needed: unless a pointer
crosses owners on an edge without its composite key, the rows of one tenant are such a
set (`EdgesJoinOwners`), hence what a delete takes or nulls is among them
(`DeletesOwn`).

**Admission_proofs.** `LifecycleInvariant` says that an open transaction holds its
row and that what it validated is the committed row, and that what it will write is
well formed. From it follow `TypeCorrect`, `TrialEndInvariant`,
`ValidatedRowInvariant` and, as an action property, `StatusMachine`.

`AdmissionInv` extends it over the steps of `Admission`, which the registry's
actions interleave with. `LearntTruly`: the tenant a lookup found and the row the
registry returned were true at a moment since the hook began, which `witness`
remembers. `SteadyOnTrack`: a key that was good throughout is still to be found by
one of the lookups that are left, because a rotation moves the current hash to the
retired one and the lookups ask in that order (`SecretsAge`). `AdmissionIsEarned`
and `GoodKeysGetIn` follow. `RegistryUnderTraffic` is `StatusMachine` again, of the
registry that requests read from.

`DeregistrationIsFinal` puts the two halves together: once the row of a tenant says
deregistered, no request whose second resolution is yet to begin is ever admitted as
that tenant, and none that comes later (`DeregisteredStaysOut`). A request already in
its second resolution may have read the row before. `ShutOut` carries the argument: the
row stays as it is, because no transition leaves a terminal status, and nothing the
current resolution has witnessed since it began lets the tenant serve. It is no
property of the `admission` run, where it would cost more than all the others;
TLC has checked it on that instance on its own.

**Billing_proofs.** *Sums.* `SumOver` is the community modules' fold, a CHOOSE of a
function on subsets. `AdderExists` shows that there is such a function,
`AddersAgree` that it does not matter for which set it was built, and `SumUnfolds`
that it takes out one element after another. `SumType`, `SumRemove`, `SumAdd`,
`SumEqual` and `SumCovered` are what the rest uses. The inductions are by a minimal
counterexample: the library's induction schemes take an operator, but `WFMin` and the
well-foundedness of the strict subset relation do not, so a nonempty set of failing
subsets has a minimal one (`MinimalSet`).

*Reservations*, for any tenants, callers, keys, amounts and balances.
`Solvent` is not inductive: a commit writes columns reckoned from what was read
before. `ReservationsInv` adds what the locks buy: what a transaction saw of the
account it locked is what the account still is, and covers it (`SeenIsCurrent`);
an account is held by one transaction (`AccountHeldOnce`); a transaction that will
end a reservation works on an open one (`EndingIsOpen`) and holds it alone
(`ReservationHeldOnce`). `UpdateIsSound` is the arithmetic: the guards of `Covers`
are enough for `Updated`. From `LocksHold` follow `AccountsWellFormed` (nothing
negative, although `UpsertAccount` may withdraw what was reserved),
`AccountsSolvent` and, as an action property, `ReservationEndsOnce`.

`TransactionsActAtOnce` is the refinement of `AccountBook` by the identity on the two
tables. `CommitActsAtOnce` is its core: at its commit a transaction finds the account
and the reservation as it saw them, so writing columns reckoned earlier is the same as
reading, checking and writing now; for a new reservation the unique index stands in
for a lock on the row that is not there yet. Every other step leaves both tables
alone. `BookIsSolvent` shows what the abstract specification is worth: that no account
is overdrawn and no reservation ends twice follows from it alone (`BookInv`).

`BooksAlwaysBalance` is about sums over rows that change their status. `BooksInv` adds
to `BooksBalance` that what `UpsertAccount` saw still stands (`BookingStands`: rows
keep their tenant and amount, captured ones their status). `CommitBalances` is the
core: a commit moves one row between the sets that are summed, by the amount that
`Updated` moves the columns (`CommitMoves`), also where the row was already open when
the account was last set.

*Invoicing.* `InvoicedOnce` needs to know where an invoice's rows come from:
`InvoicingInv` says that what an open `IssueInvoice` has summed, and what an invoice
has billed, are rows of its tenant stamped in the half-open window of its period
(`Billed`), which later usage does not disturb because ledger rows and the ends of
periods never change; and that a period is closed exactly when it has an invoice.
Two windows that do not overlap share no time, hence `RequestsInvoicedOnce`;
`InvoicesAreFinal` is the action property. `InvoicesTotalTheirRows` says that both
totals are the sums over the rows billed and stay so, since usage rows are never
rewritten; with it `LedgerWellFormed` is the type invariant.

*UsageMetering*, for any attempts, plan, charges, months and faults. `CounterInv`: the
counter of a month is the sum of the charges claimed in it, and a claim is of an
attempt that this month admitted and whose charge no longer changes; hence
`CountedAtMostOnce`. `ExhaustedIsRejected` needs to know what each account says of a
month: `LedgerAgrees` (while no write has failed, the ledger sums to what was spent),
`ClaimsComplete` (while Redis has not failed, every settled charge is claimed) and
`AdmissionsOK` (what was spent when an admission began is still spent, and a complete
ledger said so). `SeenIsExhausted` is where the larger of the two is needed: an
account that is complete shows at least what was spent. `WasComplete` says that
completeness is only ever lost, hence `ExhaustedStaysRejected`. The bound of
`OvershootBounded` is not inductive, as a settlement adds to it; `OvershootInv` sets
aside the largest charge for every attempt in flight that credit admitted (`Spending`),
so that an admission takes its share below the limit and `RecordAttempt` only turns a
share into spending. A new month starts with what is in flight, which the peak has
counted. That is `OvershootStaysBounded`.

**Catalogue_proofs.** For any number of replicas. `CatalogueInv` has one part for each
table. `StartsOK` follows each start through its steps: what it found missing and is
still to convert, and that past AutoMigrate every column is there. `DeskOK` says that
plan transactions are one for each plan row, and that beyond what one has deleted there
are at most quota rows some start copied, so a commit replaces the list
(`PlansAreWhole`). `AssignedOK` says that assignments name plans that exist; the tenant
may not. `PricesOK` is about one side of a row: the legacy column follows the price last
given, and is the whole of it while a start is to convert a row nobody has written
since; the current column is the price, or a zero that is still to be filled or never
will be (`lost`), or, where a start was under way when the price was given (`raced`),
the whole thousands of it that a late conversion leaves. Hence `PricesAreMeant`.
`GateOK` says that while a request is being priced a row it was admitted by is among
the candidates still to ask for, and that the prices a listing has read are still
there, since rows are never deleted (`SkusKeep`); with `FirstRanksBest` (the fallback
may be a candidate twice) and `ChargeBounds` (division rounds up) this is
`AdmissionsArePriced`. `ListingIsAdmission` combines it with what `skuCandidates`,
`modelIDMatches` and `canonicalSKU` do for every id, owner, hint and serving provider
(`QualifiedListing`, `BareListing`). `StoreWellFormed` is about the store with its three
parts at work at once: they share no variable, and `BillingTypeOK` is the conjunction of
what is proved of them. `PartsStandAlone` says that the parts TLC explores are
behaviours of the three.

**Only model-checked.**

- Liveness (`Converges`, `WorksEverywhere`, `EveryProcessConverges`): fairness is out
  of the prover's reach.

## 5. Findings

1. A gateway that lists a tenant's dirty keys after another has acknowledged them
   finds nothing to do, moves its fence and never puts the key in its own runtime
   cache: `applied_generation` is one column for all gateways.
2. A starting gateway restores keys from an unlocked snapshot; one that another
   gateway has deleted and acknowledged as revoked meanwhile is inserted again,
   and nothing is left dirty to remove it.
3. Two requests that demote or disable the last two owners each count the other
   and both commit: the tenant has no owner left.

Quotations and lines are in `PROJECT.json`. Other behaviours met while modelling,
which are part of the model and have no run of their own that refutes them:

- A login that compared the old password can insert its session after a reset has
  revoked all sessions, although `internal/authn/session.go:111` says of
  `RevokePrincipalTx` that it "keeps credential changes and session revocation
  atomic". `StaleSessionsRaced` says that this is the only way.
- `CreateTx` accepts slugs that differ only in case, although a login resolves
  `LOWER(slug)` and takes the first match.
- Every start of the API sets the fallback price to zero and the default plan to
  its built-in terms, over what an administrator chose, and copies legacy quota rows
  into the allow-lists again, also models that were removed. The properties do not
  forbid this, since no document does: `PriceIsMeant` takes the zero as the price last
  given, and `PlanIsOneRequests` allows the built-in offer and the quota rows, and
  nothing beyond.
- A start that dies after adding a price column and before filling it leaves the
  legacy prices at zero for good, since the next start finds the column (`lost`).
- A replica that found a price column missing converts every row (`WHERE 1 = 1`) when
  it gets there, also prices that were set through a replica which is already serving:
  such a price loses what is below a thousand, and one below a thousand becomes free
  (`raced`).
- `seedDefaultPlan` counts a tenant's assignments and then assigns, so a start may put a
  tenant back on the default plan that another replica has just put on another one.
- A plan can be assigned to a tenant that does not exist: the handler looks up the plan
  only, and the table has no foreign key.
- The listing takes a bare model id to be of its `OwnedBy`, or of the only provider that
  answered, while a request is admitted under the provider that serves it. Where these
  differ and a plan or a price names the model with one of them, a model is listed and
  refused, or served and not listed. `ListedIsServed` says that they agree everywhere
  else.
- Until an edge has its composite key (the tightening set, which an operator runs), a
  child may point at a parent of another tenant, and deleting the parent deletes or
  changes the child, since upstream's referential actions run outside the policies.
- `seedDefaultPlan` and `Migrate` ask `List` for 10000 tenants, which is over its
  maximum of 1000 and so gets the default of 100: older tenants get no plan
  (`Crowded`).
- `IssueInvoice` does not ask whether the period is over, usage that arrives later
  is never invoiced, and periods with different starts may overlap.
- A repeated `Reserve` is answered with its row whatever became of it, and
  `UpsertAccount` may set what is reserved below what open reservations hold; a
  later capture or release is then refused.
- A key row from before the hash column that is rotated between the second and the
  third lookup is found by none of them. A gateway that starts upserts every active
  key with the secret the control plane keeps, also one rotated in Bifrost.
- Disabling a member keeps its sessions, which work again once it is re-enabled.
  The caller's own role is checked before the transaction that uses it.
- The `Before` of an audit entry for a plan, a price or an assignment is read
  without a lock. A job working from the list of expired trials may suspend a
  tenant converted meanwhile.

Some limits are stated as conditions of properties and not as findings, because no
document promises more: `ExhaustedIsRejected` and `OvershootBounded` need one complete
account (`OneAccountComplete`): when the ledger has lost a row and a request straddled
the end of a month, the larger of the two accounts may miss a charge. `WithinLimits`
needs every Redis call to succeed: a member reclaimed by a fast clock after a missed
renewal is added again by the next renewal while its lease key lives. `NothingHidden`
excepts a row that upstream writes between the count of `assertBackfilled` and the
lock of the policy's DDL (`raced`): the count takes no lock that would keep it out,
and the row is then hidden from all but platform transactions: the property does not
rule this window out, it shows that there is no other. `TenantLeavesOwnRows` lets a
tenant take a key from the pool: the old row of an UPDATE and a DELETE are governed by
USING alone, which on `config_keys` includes the pool. It also allows for a pointer
that crosses owners on an edge without its composite key. `PriceIsMeant` allows the
two losses above (`lost`, `raced`), each only after the events it names.

## 6. Not modelled

Guardrails, the request-log reader, the portal service and the cipher keep no
state. The key-value store issues one Redis command per operation and its only
callers are in Bifrost. `TenantScopedStore` (`internal/tenant/store.go`),
`TenantGovernanceStore` and the spike have no caller outside tests. The UI is
browser code. Of modelled components these parts are left out: custom and platform
roles, CSRF tokens, query scopes (a second filter above the policies), index
migrations, `DeleteExpired`, `Counter.Charge` and `Reset` (no caller), secrets and
their encryption, credential headers, provider response formats, option parsing,
listing queries and reports. Numbering of fallback attempts by Bifrost is not in
the repository and the model gives every attempt its own idempotency key.

## 7. Plan

The model covers the stateful core, and every safety property that a run checks is a
theorem; `CaughtUpCache`, `KeepsPromise`, `OwnerRemains` and the limits of the semaphore
under the conditions named with them. What would be next:

1. Gateways that overlap for a while, as in a rolling update that starts the new
   process first: `NoDeleteUnderRestore` says which overlaps keep revocation final, but
   there is no such condition for the runtime caches (`CaughtUpCache`, finding 1).
2. The composition of `Semaphore` and `UsageMetering`: admission takes the slot as
   given, and the limits are proved of the semaphore alone.
3. If `IssueInvoice` gets a caller, the condition under which every usage row is on an
   invoice in the end.
