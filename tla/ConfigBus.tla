------------------------------ MODULE ConfigBus ------------------------------
(***************************************************************************)
(* How a configuration change reaches every gateway (internal/configbus).  *)
(*                                                                         *)
(* A publisher (a maas-api request) allocates the tenant's next generation *)
(* and writes one outbox row in its own transaction; after the commit it   *)
(* broadcasts the generation over Redis pub/sub, best effort.  A gateway   *)
(* process has two workers that call Reconciler.Observe: the consumer of   *)
(* its subscription and the ticker, which lists the committed generations. *)
(* Observe holds the Reconciler's mutex while the callback loads and       *)
(* applies the tenant's snapshot.                                          *)
(*                                                                         *)
(* The snapshot is represented by its generation: `loaded' is the          *)
(* generation of the last snapshot the process applied.                    *)
(***************************************************************************)
EXTENDS Naturals, Sequences

CONSTANTS Tenants,
          Publishers, \* concurrent maas-api requests that change configuration
          Nodes,      \* gateway processes
          MaxGen,     \* bound: generations per tenant
          MaxFaults   \* bound: lost subscriptions, failed reloads and crashes

ASSUME BusAssumption == Tenants # {} /\ MaxGen \in Nat /\ MaxFaults \in Nat

Workers == {"ticker", "consumer"}
Notification == [tenant : Tenants, gen : Nat]

VARIABLES
  generation, \* committed config_generations
  outbox,     \* committed config_change_outbox: the generations of each tenant
  published,  \* outbox rows with published_at set
  call,       \* per publisher: its request's stage, tenant and generation
  channel,    \* per process: notifications delivered and not yet consumed
  subscribed, \* per process: the pub/sub receiver is alive
  pass,       \* per process: rows of ListGenerations the ticker has yet to observe
  work,       \* per process and worker: the Observe call in progress
  fence,      \* per process: Reconciler.current
  loaded,     \* per process: generation of the applied snapshot
  up,         \* the running processes
  faults

source == <<generation, outbox, published, call>>
vars == <<generation, outbox, published, call, channel, subscribed, pass, work,
          fence, loaded, up, faults>>

TypeOK ==
  /\ generation \in [Tenants -> 0 .. MaxGen]
  /\ outbox \in [Tenants -> SUBSET (1 .. MaxGen)]
  /\ published \in [Tenants -> SUBSET (1 .. MaxGen)]
  /\ call \in [Publishers -> [stage : {"idle", "allocated", "committed", "sent"},
                              tenant : Tenants, gen : 0 .. MaxGen]]
  /\ channel \in [Nodes -> Seq(Notification)]
  /\ subscribed \in [Nodes -> BOOLEAN]
  /\ pass \in [Nodes -> SUBSET Notification]
  /\ work \in [Nodes -> [Workers -> [at : {"none", "load", "apply"},
                                     tenant : Tenants, gen : 0 .. MaxGen,
                                     snap : 0 .. MaxGen]]]
  /\ fence \in [Nodes -> [Tenants -> 0 .. MaxGen]]
  /\ loaded \in [Nodes -> [Tenants -> 0 .. MaxGen]]
  /\ up \in SUBSET Nodes
  /\ faults \in 0 .. MaxFaults

SomeTenant == CHOOSE t \in Tenants : TRUE
ZeroPerTenant == [t \in Tenants |-> 0]
IdleCall == [stage |-> "idle", tenant |-> SomeTenant, gen |-> 0]
IdleWork == [at |-> "none", tenant |-> SomeTenant, gen |-> 0, snap |-> 0]

Init ==
  /\ generation = ZeroPerTenant
  /\ outbox = [t \in Tenants |-> {}]
  /\ published = [t \in Tenants |-> {}]
  /\ call = [p \in Publishers |-> IdleCall]
  /\ channel = [n \in Nodes |-> <<>>]
  /\ subscribed = [n \in Nodes |-> FALSE]
  /\ pass = [n \in Nodes |-> {}]
  /\ work = [n \in Nodes |-> [w \in Workers |-> IdleWork]]
  /\ fence = [n \in Nodes |-> ZeroPerTenant]
  /\ loaded = [n \in Nodes |-> ZeroPerTenant]
  /\ up = {}
  /\ faults = 0

-----------------------------------------------------------------------------
(* The publisher.                                                           *)

\* Mutant: the generation is read without its row lock.
GenerationRowShared(t) == TRUE

\* The upsert of config_generations locks the tenant's row until the commit.
GenerationRowFree(t) ==
  \A p \in Publishers : ~(call[p].stage = "allocated" /\ call[p].tenant = t)

Allocate(p, t) ==
  /\ call[p].stage = "idle"
  /\ generation[t] < MaxGen
  /\ GenerationRowFree(t)
  /\ call' = [call EXCEPT ![p] = [stage |-> "allocated", tenant |-> t,
                                  gen |-> generation[t] + 1]]
  /\ UNCHANGED <<generation, outbox, published, channel, subscribed, pass, work,
                 fence, loaded, up, faults>>

Commit(p) ==
  /\ call[p].stage = "allocated"
  /\ generation' = [generation EXCEPT ![call[p].tenant] = call[p].gen]
  /\ outbox' = [outbox EXCEPT ![call[p].tenant] = @ \union {call[p].gen}]
  /\ call' = [call EXCEPT ![p].stage = "committed"]
  /\ UNCHANGED <<published, channel, subscribed, pass, work, fence, loaded, up,
                 faults>>

Rollback(p) ==
  /\ call[p].stage = "allocated"
  /\ call' = [call EXCEPT ![p] = IdleCall]
  /\ UNCHANGED <<generation, outbox, published, channel, subscribed, pass, work,
                 fence, loaded, up, faults>>

\* Mutant: the change is announced inside the transaction.
NotifyBeforeCommit(p) ==
  /\ call[p].stage = "allocated"
  /\ \E reached \in SUBSET {n \in up : subscribed[n]} :
       channel' = [n \in Nodes |->
                     IF n \in reached
                       THEN Append(channel[n], [tenant |-> call[p].tenant,
                                                gen |-> call[p].gen])
                       ELSE channel[n]]
  /\ UNCHANGED <<source, subscribed, pass, work, fence, loaded, up, faults>>

\* Redis hands the message to the subscribers it can reach.
Notify(p) ==
  /\ call[p].stage = "committed"
  /\ \E reached \in SUBSET {n \in up : subscribed[n]} :
       channel' = [n \in Nodes |->
                     IF n \in reached
                       THEN Append(channel[n], [tenant |-> call[p].tenant,
                                                gen |-> call[p].gen])
                       ELSE channel[n]]
  /\ call' = [call EXCEPT ![p].stage = "sent"]
  /\ UNCHANGED <<generation, outbox, published, subscribed, pass, work, fence,
                 loaded, up, faults>>

\* The publish fails and is only logged, or the request dies before it.
NotifyFails(p) ==
  /\ call[p].stage = "committed"
  /\ call' = [call EXCEPT ![p] = IdleCall]
  /\ UNCHANGED <<generation, outbox, published, channel, subscribed, pass, work,
                 fence, loaded, up, faults>>

\* MarkPublished succeeds, or fails and is only logged.
MarkPublished(p) ==
  /\ call[p].stage = "sent"
  /\ \/ published' = [published EXCEPT ![call[p].tenant] = @ \union {call[p].gen}]
     \/ UNCHANGED published
  /\ call' = [call EXCEPT ![p] = IdleCall]
  /\ UNCHANGED <<generation, outbox, channel, subscribed, pass, work, fence,
                 loaded, up, faults>>

-----------------------------------------------------------------------------
(* The gateway process.                                                     *)

\* Subscribe may fail at start: the process then lives on reconciliation alone.
Start(n) ==
  /\ n \notin up
  /\ up' = up \union {n}
  /\ \E ok \in BOOLEAN : subscribed' = [subscribed EXCEPT ![n] = ok]
  /\ UNCHANGED <<source, channel, pass, work, fence, loaded, faults>>

Crash(n) ==
  /\ n \in up
  /\ faults < MaxFaults
  /\ faults' = faults + 1
  /\ up' = up \ {n}
  /\ subscribed' = [subscribed EXCEPT ![n] = FALSE]
  /\ channel' = [channel EXCEPT ![n] = <<>>]
  /\ pass' = [pass EXCEPT ![n] = {}]
  /\ work' = [work EXCEPT ![n] = [w \in Workers |-> IdleWork]]
  /\ fence' = [fence EXCEPT ![n] = ZeroPerTenant]
  /\ loaded' = [loaded EXCEPT ![n] = ZeroPerTenant]
  /\ UNCHANGED source

\* A receive error closes the subscription for the rest of the process's life.
SubscriptionLost(n) ==
  /\ subscribed[n]
  /\ faults < MaxFaults
  /\ faults' = faults + 1
  /\ subscribed' = [subscribed EXCEPT ![n] = FALSE]
  /\ \E kept \in 0 .. Len(channel[n]) :
       channel' = [channel EXCEPT ![n] = SubSeq(@, 1, kept)]
  /\ UNCHANGED <<source, pass, work, fence, loaded, up>>

\* A worker is idle while it has no Observe call.
WorkerIdle(n, w) == n \in up /\ work[n][w].at = "none"

\* Mutant: the two workers do not exclude each other.
MutexIgnored(n) == TRUE

\* Observe holds the Reconciler's mutex from its check to the end of the reload.
MutexFree(n) == \A w \in Workers : work[n][w].at = "none"

\* Mutant: the fencing token is one ahead.
ObserveNextGeneration(n, w, m) ==
  /\ MutexFree(n)
  /\ work' = IF m.gen < fence[n][m.tenant] THEN work
             ELSE [work EXCEPT ![n][w] = [at |-> "load", tenant |-> m.tenant,
                                          gen |-> m.gen + 1, snap |-> 0]]

\* Observe: at or behind the fence it returns at once, else the reload begins.
Observe(n, w, m) ==
  /\ MutexFree(n)
  /\ work' = IF m.gen <= fence[n][m.tenant] THEN work
             ELSE [work EXCEPT ![n][w] = [at |-> "load", tenant |-> m.tenant,
                                          gen |-> m.gen, snap |-> 0]]

Consume(n) ==
  /\ WorkerIdle(n, "consumer")
  /\ channel[n] # <<>>
  /\ Observe(n, "consumer", Head(channel[n]))
  /\ channel' = [channel EXCEPT ![n] = Tail(@)]
  /\ UNCHANGED <<source, subscribed, pass, fence, loaded, up, faults>>

\* Mutant: a process with a subscription does not reconcile.
TickUnlessSubscribed(n) ==
  /\ WorkerIdle(n, "ticker")
  /\ pass[n] = {}
  /\ ~subscribed[n]
  /\ pass' = [pass EXCEPT ![n] =
                {[tenant |-> t, gen |-> generation[t]] :
                    t \in {u \in Tenants : generation[u] > 0}}]
  /\ UNCHANGED <<source, channel, subscribed, work, fence, loaded, up, faults>>

\* Reconcile: ListGenerations, then Observe for each row.
Tick(n) ==
  /\ WorkerIdle(n, "ticker")
  /\ pass[n] = {}
  /\ pass' = [pass EXCEPT ![n] =
                {[tenant |-> t, gen |-> generation[t]] :
                    t \in {u \in Tenants : generation[u] > 0}}]
  /\ UNCHANGED <<source, channel, subscribed, work, fence, loaded, up, faults>>

ReconcileOne(n) ==
  /\ WorkerIdle(n, "ticker")
  /\ \E m \in pass[n] :
       /\ Observe(n, "ticker", m)
       /\ pass' = [pass EXCEPT ![n] = @ \ {m}]
  /\ UNCHANGED <<source, channel, subscribed, fence, loaded, up, faults>>

\* The callback reads the tenant's rows: the snapshot is whatever is committed.
Load(n, w) ==
  /\ work[n][w].at = "load"
  /\ work' = [work EXCEPT ![n][w] =
                [@ EXCEPT !.at = "apply", !.snap = generation[work[n][w].tenant]]]
  /\ UNCHANGED <<source, channel, subscribed, pass, fence, loaded, up, faults>>

\* The callback has applied the snapshot; Observe moves the fence and unlocks.
Apply(n, w) ==
  /\ work[n][w].at = "apply"
  /\ loaded' = [loaded EXCEPT ![n][work[n][w].tenant] = work[n][w].snap]
  /\ fence' = [fence EXCEPT ![n][work[n][w].tenant] = work[n][w].gen]
  /\ work' = [work EXCEPT ![n][w] = IdleWork]
  /\ UNCHANGED <<source, channel, subscribed, pass, up, faults>>

\* Mutant: the fence moves before the error is looked at.
ReloadFailsFenced(n, w) ==
  /\ work[n][w].at # "none"
  /\ faults < MaxFaults
  /\ faults' = faults + 1
  /\ fence' = [fence EXCEPT ![n][work[n][w].tenant] = work[n][w].gen]
  /\ work' = [work EXCEPT ![n][w] = IdleWork]
  /\ UNCHANGED <<source, channel, subscribed, pass, loaded, up>>

\* The callback returns an error: the fence stays.
ReloadFails(n, w) ==
  /\ work[n][w].at # "none"
  /\ faults < MaxFaults
  /\ faults' = faults + 1
  /\ work' = [work EXCEPT ![n][w] = IdleWork]
  /\ UNCHANGED <<source, channel, subscribed, pass, fence, loaded, up>>

-----------------------------------------------------------------------------
Publisher(p) ==
  \/ \E t \in Tenants : Allocate(p, t)
  \/ Commit(p) \/ Rollback(p) \/ Notify(p) \/ NotifyFails(p) \/ MarkPublished(p)

Process(n) ==
  \/ Start(n) \/ Crash(n) \/ SubscriptionLost(n)
  \/ Consume(n) \/ Tick(n) \/ ReconcileOne(n)
  \/ \E w \in Workers : Load(n, w) \/ Apply(n, w) \/ ReloadFails(n, w)

Next == (\E p \in Publishers : Publisher(p)) \/ (\E n \in Nodes : Process(n))

Spec == Init /\ [][Next]_vars

\* A supervisor restarts the process, the ticker fires for ever and the callback
\* returns.  Neither publishers nor Redis owe anyone anything, and the consumer
\* need not run at all.
Fairness ==
  \A n \in Nodes :
    /\ WF_vars(Start(n)) /\ WF_vars(Tick(n)) /\ WF_vars(ReconcileOne(n))
    /\ \A w \in Workers : WF_vars(Load(n, w)) /\ WF_vars(Apply(n, w))

FairSpec == Spec /\ Fairness

-----------------------------------------------------------------------------
(* Properties.                                                              *)

\* The outbox is gapless: a tenant's durable events are exactly the generations
\* up to its current one, whatever transactions overlap or roll back
\* (PublishTx, outbox.go:142-172).
OutboxGapless ==
  \A t \in Tenants : outbox[t] = 1 .. generation[t]

\* A notification never runs ahead of the durable source: what is in flight, what
\* a worker acts on and what is marked published has been committed (notifyChange
\* runs after the commit, httpapi/server.go:571-582).
NotifiedIsCommitted ==
  /\ \A n \in Nodes : \A i \in DOMAIN channel[n] :
       channel[n][i].gen \in outbox[channel[n][i].tenant]
  /\ \A n \in Nodes, w \in Workers :
       work[n][w].at # "none" => work[n][w].gen \in outbox[work[n][w].tenant]
  /\ \A t \in Tenants : published[t] \subseteq outbox[t]

\* The fencing-token contract of ReloadFunc (reconcile.go:20-22): a process never
\* claims a generation newer than the snapshot it has applied.
FenceBehindSnapshot ==
  \A n \in Nodes, t \in Tenants :
    fence[n][t] <= loaded[n][t] /\ loaded[n][t] <= generation[t]

\* The durable side and the processes agree at every moment: the outbox is
\* gapless, nothing is announced that was not committed, and no process claims a
\* generation it has not applied.
BusInv == TypeOK /\ OutboxGapless /\ NotifiedIsCommitted /\ FenceBehindSnapshot

\* An older callback never completes after a newer one (reconcile.go:46-49): while
\* a process runs, neither its applied snapshot nor its fence goes back.
SnapshotNeverRegresses ==
  [][\A n \in up \intersect up', t \in Tenants :
        loaded'[n][t] >= loaded[n][t] /\ fence'[n][t] >= fence[n][t]]_vars

\* Bounded staleness without Redis: every committed generation reaches the fence
\* of every process, although any notification may be lost.
EveryProcessConverges ==
  \A n \in Nodes, t \in Tenants, g \in 1 .. MaxGen :
    generation[t] >= g ~> fence[n][t] >= g

=============================================================================
