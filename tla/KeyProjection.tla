---------------------------- MODULE KeyProjection ----------------------------
(***************************************************************************)
(* The life of a virtual key between the MaaS control plane and the        *)
(* gateways.                                                               *)
(*                                                                         *)
(* maas-api writes the desired state of a key in the control database, in  *)
(* one transaction with the tenant's next configuration generation         *)
(* (internal/virtualkey/store.go, internal/configbus/outbox.go).  Every    *)
(* gateway process runs a Reconciler: a generation ahead of its local      *)
(* fence starts a projection pass over the tenant                          *)
(* (internal/virtualkey/projector.go), which writes the Bifrost            *)
(* configuration database and the process's own governance cache           *)
(* (internal/bifrostprojection/virtualkey.go) and then acknowledges the    *)
(* key in the control database.                                            *)
(*                                                                         *)
(* A pass holds the Reconciler's mutex, so a process runs one at a time;   *)
(* passes of different processes interleave at every database transaction. *)
(* A pub/sub notification carries a committed generation and may be lost,  *)
(* late, repeated or reordered (module ConfigBus): here Observe may happen *)
(* with any committed generation at any time.                              *)
(***************************************************************************)
EXTENDS Naturals

CONSTANTS Keys,       \* identifiers of virtual keys, existing or to be created
          Tenants,
          Owner,      \* the tenant of each key
          Nodes,      \* gateway processes
          MaxGen,     \* bound: changes the control plane makes per tenant
          MaxFaults   \* bound: crashes and failed database writes

ASSUME OwnerAssumption == Owner \in [Keys -> Tenants]
ASSUME BoundAssumption == MaxGen \in Nat /\ MaxFaults \in Nat

VARIABLES
  generation, \* config_generations: the last generation of each tenant
  rows,       \* the virtual key table of the control database
  configDB,   \* the keys that have a row in Bifrost's governance_virtual_keys
  cache,      \* per process: the keys in the governance runtime cache
  fence,      \* per process: Reconciler.current
  restored,   \* per process: Projector.restored
  pc,         \* per process: where its projection pass is
  obs,        \* per process: the tenant and generation the pass is about
  todo,       \* per process: the rows the pass has read and not yet handled
  cur,        \* per process: the key being written
  failed,     \* per process: some key of the pass returned an error
  faults      \* crashes and failures so far

control == <<generation, rows>>
process == <<cache, fence, restored, pc, obs, todo, cur, failed>>
vars == <<generation, rows, configDB, cache, fence, restored, pc, obs, todo,
          cur, failed, faults>>

Statuses == {"absent", "pending", "active", "failed", "revoking", "revoked"}
Row == [status : Statuses, desired : {"active", "revoked"},
        desiredGen : Nat, appliedGen : Nat]
NoRow == [status |-> "absent", desired |-> "active",
          desiredGen |-> 0, appliedGen |-> 0]

Exists(k) == rows[k].status # "absent"
Dirty(k) == Exists(k) /\ rows[k].appliedGen < rows[k].desiredGen

\* projectOne holds SELECT ... FOR UPDATE on the key's row from the read to the
\* end of its transaction.
HoldsRow(n, k) == pc[n] \in {"target", "runtime", "commit"} /\ cur[n] = k
Locked(k) == \E n \in Nodes : HoldsRow(n, k)

PCs == {"down", "idle", "snapshot", "restore", "hydrate", "list", "project",
        "target", "runtime", "commit"}

TypeOK ==
  /\ generation \in [Tenants -> Nat]
  /\ rows \in [Keys -> Row]
  /\ configDB \in SUBSET Keys
  /\ cache \in [Nodes -> SUBSET Keys]
  /\ fence \in [Nodes -> [Tenants -> Nat]]
  /\ restored \in [Nodes -> SUBSET Tenants]
  /\ pc \in [Nodes -> PCs]
  /\ obs \in [Nodes -> [tenant : Tenants, gen : Nat]]
  /\ todo \in [Nodes -> SUBSET (Keys \X Nat)]
  /\ cur \in [Nodes -> Keys]
  /\ failed \in [Nodes -> BOOLEAN]
  /\ faults \in Nat

Init ==
  /\ generation = [t \in Tenants |-> 0]
  /\ rows = [k \in Keys |-> NoRow]
  /\ configDB = {}
  /\ cache = [n \in Nodes |-> {}]
  /\ fence = [n \in Nodes |-> [t \in Tenants |-> 0]]
  /\ restored = [n \in Nodes |-> {}]
  /\ pc = [n \in Nodes |-> "down"]
  /\ obs \in [Nodes -> [tenant : Tenants, gen : {0}]]
  /\ todo = [n \in Nodes |-> {}]
  /\ cur \in [Nodes -> Keys]
  /\ failed = [n \in Nodes |-> FALSE]
  /\ faults = 0

-----------------------------------------------------------------------------
(* maas-api: each request is one control-database transaction.  PublishTx   *)
(* locks the tenant's generation row until the commit, so the generation    *)
(* and the key row become visible together and in generation order.         *)

NextGeneration(k) == generation[Owner[k]] + 1

PublishTx(k) ==
  /\ generation[Owner[k]] < MaxGen
  /\ generation' = [generation EXCEPT ![Owner[k]] = @ + 1]

CreateTx(k) ==
  /\ ~Exists(k)
  /\ PublishTx(k)
  /\ rows' = [rows EXCEPT ![k] =
                [status |-> "pending", desired |-> "active",
                 desiredGen |-> NextGeneration(k), appliedGen |-> 0]]
  /\ UNCHANGED <<configDB, process, faults>>

\* Mutant: a revocation does not carry its generation.
RevokeTxSameGeneration(k) ==
  /\ Exists(k) /\ ~Locked(k)
  /\ rows[k].status \notin {"revoked", "revoking"}
  /\ PublishTx(k)
  /\ rows' = [rows EXCEPT ![k] =
                [@ EXCEPT !.status = "revoking", !.desired = "revoked"]]
  /\ UNCHANGED <<configDB, process, faults>>

RevokeTx(k) ==
  /\ Exists(k)
  /\ ~Locked(k)
  /\ rows[k].status \notin {"revoked", "revoking"}
  /\ PublishTx(k)
  /\ rows' = [rows EXCEPT ![k] =
                [@ EXCEPT !.status = "revoking", !.desired = "revoked",
                          !.desiredGen = NextGeneration(k)]]
  /\ UNCHANGED <<configDB, process, faults>>

\* Mutant: a retry forgets that the failed change was a revocation.
RetryTxAsCreate(k) ==
  /\ ~Locked(k)
  /\ rows[k].status = "failed"
  /\ PublishTx(k)
  /\ rows' = [rows EXCEPT ![k] =
                [@ EXCEPT !.status = "pending", !.desired = "active",
                          !.desiredGen = NextGeneration(k)]]
  /\ UNCHANGED <<configDB, process, faults>>

RetryTx(k) ==
  /\ ~Locked(k)
  /\ rows[k].status = "failed"
  /\ PublishTx(k)
  /\ rows' = [rows EXCEPT ![k] =
                [@ EXCEPT !.status = IF rows[k].desired = "revoked"
                                       THEN "revoking" ELSE "pending",
                          !.desiredGen = NextGeneration(k)]]
  /\ UNCHANGED <<configDB, process, faults>>

-----------------------------------------------------------------------------
(* The gateway process.  A start boots Bifrost, whose governance cache is   *)
(* either empty or what the configuration database holds at that moment.    *)

Start(n) ==
  /\ pc[n] = "down"
  /\ pc' = [pc EXCEPT ![n] = "idle"]
  /\ \E boot \in {{}, configDB} : cache' = [cache EXCEPT ![n] = boot]
  /\ UNCHANGED <<control, configDB, fence, restored, obs, todo, cur, failed,
                 faults>>

\* A crash loses the process's memory and rolls its open transaction back.
Crash(n) ==
  /\ pc[n] # "down"
  /\ faults < MaxFaults
  /\ faults' = faults + 1
  /\ pc' = [pc EXCEPT ![n] = "down"]
  /\ cache' = [cache EXCEPT ![n] = {}]
  /\ fence' = [fence EXCEPT ![n] = [t \in Tenants |-> 0]]
  /\ restored' = [restored EXCEPT ![n] = {}]
  /\ todo' = [todo EXCEPT ![n] = {}]
  /\ failed' = [failed EXCEPT ![n] = FALSE]
  /\ UNCHANGED <<control, configDB, obs, cur>>

\* Mutant: a restarted process goes straight to the dirty keys.
ObserveWithoutRestore(n, t, g) ==
  /\ pc[n] = "idle"
  /\ g > fence[n][t]
  /\ obs' = [obs EXCEPT ![n] = [tenant |-> t, gen |-> g]]
  /\ pc' = [pc EXCEPT ![n] = "list"]
  /\ UNCHANGED <<control, configDB, cache, fence, restored, todo, cur, failed,
                 faults>>

\* Reconciler.Observe, from a notification or from a row of ListGenerations.
\* A generation at or behind the fence is a no-op.
Observe(n, t, g) ==
  /\ pc[n] = "idle"
  /\ g > fence[n][t]
  /\ obs' = [obs EXCEPT ![n] = [tenant |-> t, gen |-> g]]
  /\ pc' = [pc EXCEPT ![n] = IF t \in restored[n] THEN "list" ELSE "snapshot"]
  /\ UNCHANGED <<control, configDB, cache, fence, restored, todo, cur, failed,
                 faults>>

-----------------------------------------------------------------------------
(* restoreTenantOnce: an unlocked read of the acknowledged active keys,     *)
(* then one Upsert after another.                                           *)

Restorable(k) ==
  /\ Exists(k)
  /\ rows[k].desired = "active"
  /\ rows[k].status = "active"
  /\ rows[k].appliedGen = rows[k].desiredGen

ReadSnapshot(n) ==
  /\ pc[n] = "snapshot"
  /\ todo' = [todo EXCEPT ![n] =
                {<<k, rows[k].desiredGen>> :
                    k \in {j \in Keys : /\ Owner[j] = obs[n].tenant
                                        /\ Restorable(j)}}]
  /\ pc' = [pc EXCEPT ![n] = "restore"]
  /\ UNCHANGED <<control, configDB, cache, fence, restored, obs, cur, failed,
                 faults>>

\* Target.Upsert, first half: the configuration-database transaction.
RestoreUpsert(n) ==
  /\ pc[n] = "restore"
  /\ \E e \in todo[n] :
       /\ configDB' = configDB \union {e[1]}
       /\ cur' = [cur EXCEPT ![n] = e[1]]
       /\ todo' = [todo EXCEPT ![n] = @ \ {e}]
  /\ pc' = [pc EXCEPT ![n] = "hydrate"]
  /\ UNCHANGED <<control, cache, fence, restored, obs, failed, faults>>

\* Mutant: the restore updates the configuration database alone.
RestoreHydrateSkipped(n) ==
  /\ pc[n] = "hydrate"
  /\ pc' = [pc EXCEPT ![n] = "restore"]
  /\ UNCHANGED <<control, configDB, cache, fence, restored, obs, todo, cur,
                 failed, faults>>

\* Target.Upsert, second half: the runtime cache of this process.
RestoreHydrate(n) ==
  /\ pc[n] = "hydrate"
  /\ cache' = [cache EXCEPT ![n] = @ \union {cur[n]}]
  /\ pc' = [pc EXCEPT ![n] = "restore"]
  /\ UNCHANGED <<control, configDB, fence, restored, obs, todo, cur, failed,
                 faults>>

RestoreDone(n) ==
  /\ pc[n] = "restore"
  /\ todo[n] = {}
  /\ restored' = [restored EXCEPT ![n] = @ \union {obs[n].tenant}]
  /\ pc' = [pc EXCEPT ![n] = "list"]
  /\ UNCHANGED <<control, configDB, cache, fence, obs, todo, cur, failed,
                 faults>>

\* A failed read or Upsert ends the pass; neither restored nor the fence moves.
\* A configuration write whose commit is lost may have happened all the same.
PassFails(n) ==
  /\ pc[n] \in {"snapshot", "restore", "list"}
  /\ faults < MaxFaults
  /\ faults' = faults + 1
  /\ \/ UNCHANGED configDB
     \/ /\ pc[n] = "restore"
        /\ \E e \in todo[n] : configDB' = configDB \union {e[1]}
  /\ todo' = [todo EXCEPT ![n] = {}]
  /\ pc' = [pc EXCEPT ![n] = "idle"]
  /\ UNCHANGED <<control, cache, fence, restored, obs, cur, failed>>

-----------------------------------------------------------------------------
(* ProjectTenant's loop over the dirty keys, and projectOne.                *)

\* Mutant: a failed key waits for the tenant's retry.
ListDirtyNotFailed(n) ==
  /\ pc[n] = "list"
  /\ todo' = [todo EXCEPT ![n] =
                {<<k, rows[k].desiredGen>> :
                    k \in {j \in Keys : /\ Owner[j] = obs[n].tenant
                                        /\ Dirty(j)
                                        /\ rows[j].status # "failed"}}]
  /\ failed' = [failed EXCEPT ![n] = FALSE]
  /\ pc' = [pc EXCEPT ![n] = "project"]
  /\ UNCHANGED <<control, configDB, cache, fence, restored, obs, cur, faults>>

ListDirty(n) ==
  /\ pc[n] = "list"
  /\ todo' = [todo EXCEPT ![n] =
                {<<k, rows[k].desiredGen>> :
                    k \in {j \in Keys : Owner[j] = obs[n].tenant /\ Dirty(j)}}]
  /\ failed' = [failed EXCEPT ![n] = FALSE]
  /\ pc' = [pc EXCEPT ![n] = "project"]
  /\ UNCHANGED <<control, configDB, cache, fence, restored, obs, cur, faults>>

\* The listed key of the least desired generation comes first.
Oldest(e, list) == e \in list /\ \A f \in list : e[2] <= f[2]

\* Mutant: the row is read without FOR UPDATE.
LockRowPlainRead(n) ==
  /\ pc[n] = "project"
  /\ \E e \in todo[n] :
       /\ Oldest(e, todo[n])
       /\ todo' = [todo EXCEPT ![n] = @ \ {e}]
       /\ IF Dirty(e[1])
            THEN /\ pc' = [pc EXCEPT ![n] = "target"]
                 /\ cur' = [cur EXCEPT ![n] = e[1]]
            ELSE UNCHANGED <<pc, cur>>
  /\ UNCHANGED <<control, configDB, cache, fence, restored, obs, failed, faults>>

\* The row lock is granted.  A row acknowledged since the listing is skipped.
LockRow(n) ==
  /\ pc[n] = "project"
  /\ \E e \in todo[n] :
       /\ Oldest(e, todo[n])
       /\ ~Locked(e[1])
       /\ todo' = [todo EXCEPT ![n] = @ \ {e}]
       /\ IF Dirty(e[1])
            THEN /\ pc' = [pc EXCEPT ![n] = "target"]
                 /\ cur' = [cur EXCEPT ![n] = e[1]]
            ELSE UNCHANGED <<pc, cur>>
  /\ UNCHANGED <<control, configDB, cache, fence, restored, obs, failed, faults>>

\* What Upsert or Delete makes of a set of keys, by the desired state of k.
Projected(k, keys) ==
  IF rows[k].desired = "active" THEN keys \union {k} ELSE keys \ {k}

\* Mutant: Delete takes the key out of the runtime cache only.
TargetWriteNeverDeletes(n) ==
  /\ pc[n] = "target"
  /\ configDB' = configDB \union Projected(cur[n], configDB)
  /\ pc' = [pc EXCEPT ![n] = "runtime"]
  /\ UNCHANGED <<control, cache, fence, restored, obs, todo, cur, failed, faults>>

\* Target.Upsert or Target.Delete, first half: the configuration database.
TargetWrite(n) ==
  /\ pc[n] = "target"
  /\ configDB' = Projected(cur[n], configDB)
  /\ pc' = [pc EXCEPT ![n] = "runtime"]
  /\ UNCHANGED <<control, cache, fence, restored, obs, todo, cur, failed, faults>>

\* Mutant: the error of the configuration write is dropped.
TargetFailsSilently(n) ==
  /\ pc[n] = "target"
  /\ faults < MaxFaults
  /\ faults' = faults + 1
  /\ pc' = [pc EXCEPT ![n] = "runtime"]
  /\ UNCHANGED <<control, configDB, cache, fence, restored, obs, todo, cur,
                 failed>>

\* Decryption or the configuration write fails, or its commit is lost; markFailed
\* records it, unless that write fails as well and the transaction rolls back.
TargetFails(n) ==
  /\ pc[n] = "target"
  /\ faults < MaxFaults
  /\ faults' = faults + 1
  /\ configDB' \in {configDB, Projected(cur[n], configDB)}
  /\ rows' \in {rows, [rows EXCEPT ![cur[n]] = [@ EXCEPT !.status = "failed"]]}
  /\ failed' = [failed EXCEPT ![n] = TRUE]
  /\ pc' = [pc EXCEPT ![n] = "project"]
  /\ UNCHANGED <<generation, cache, fence, restored, obs, todo, cur>>

\* Target.Upsert or Target.Delete, second half: the runtime cache.
TargetRuntime(n) ==
  /\ pc[n] = "runtime"
  /\ cache' = [cache EXCEPT ![n] = Projected(cur[n], @)]
  /\ pc' = [pc EXCEPT ![n] = "commit"]
  /\ UNCHANGED <<control, configDB, fence, restored, obs, todo, cur, failed,
                 faults>>

Acknowledged(row) ==
  [row EXCEPT !.status = row.desired, !.appliedGen = row.desiredGen]

Acknowledge(n) ==
  /\ pc[n] = "commit"
  /\ rows' = [rows EXCEPT ![cur[n]] = Acknowledged(@)]
  /\ pc' = [pc EXCEPT ![n] = "project"]
  /\ UNCHANGED <<generation, configDB, cache, fence, restored, obs, todo, cur,
                 failed, faults>>

\* The control transaction fails: rolled back, or committed with a lost reply.
AcknowledgeFails(n) ==
  /\ pc[n] = "commit"
  /\ faults < MaxFaults
  /\ faults' = faults + 1
  /\ rows' \in {rows, [rows EXCEPT ![cur[n]] = Acknowledged(@)]}
  /\ failed' = [failed EXCEPT ![n] = TRUE]
  /\ pc' = [pc EXCEPT ![n] = "project"]
  /\ UNCHANGED <<generation, configDB, cache, fence, restored, obs, todo, cur>>

\* Mutant: the fence moves although a key of the pass failed.
PassDoneAlways(n) ==
  /\ pc[n] = "project"
  /\ todo[n] = {}
  /\ fence' = [fence EXCEPT ![n][obs[n].tenant] = obs[n].gen]
  /\ failed' = [failed EXCEPT ![n] = FALSE]
  /\ pc' = [pc EXCEPT ![n] = "idle"]
  /\ UNCHANGED <<control, configDB, cache, restored, obs, todo, cur, faults>>

\* ProjectTenant returns; Observe moves the fence only if no key failed.
PassDone(n) ==
  /\ pc[n] = "project"
  /\ todo[n] = {}
  /\ fence' = IF failed[n] THEN fence
              ELSE [fence EXCEPT ![n][obs[n].tenant] = obs[n].gen]
  /\ failed' = [failed EXCEPT ![n] = FALSE]
  /\ pc' = [pc EXCEPT ![n] = "idle"]
  /\ UNCHANGED <<control, configDB, cache, restored, obs, todo, cur, faults>>

-----------------------------------------------------------------------------
Api == \E k \in Keys : CreateTx(k) \/ RevokeTx(k) \/ RetryTx(k)

ObserveSome(n, t) == \E g \in 1 .. generation[t] : Observe(n, t, g)

\* The steps of a pass that has begun.
Pass(n) ==
  \/ ReadSnapshot(n) \/ RestoreUpsert(n) \/ RestoreHydrate(n) \/ RestoreDone(n)
  \/ ListDirty(n) \/ LockRow(n) \/ TargetWrite(n) \/ TargetRuntime(n)
  \/ Acknowledge(n) \/ PassDone(n)

Fault(n) == Crash(n) \/ PassFails(n) \/ TargetFails(n) \/ AcknowledgeFails(n)

Next ==
  \/ Api
  \/ \E n \in Nodes : \/ Start(n)
                      \/ \E t \in Tenants : ObserveSome(n, t)
                      \/ Pass(n)
                      \/ Fault(n)

Spec == Init /\ [][Next]_vars

\* A process that is down is restarted by its supervisor, Run ticks for ever and
\* a pass runs to its end; nothing makes a client call the API.
Fairness ==
  /\ \A n \in Nodes : WF_vars(Start(n)) /\ WF_vars(Pass(n))
  /\ \A n \in Nodes, t \in Tenants : WF_vars(ObserveSome(n, t))

FairSpec == Spec /\ Fairness

-----------------------------------------------------------------------------
(* Properties.                                                              *)

\* The status shown to the tenant agrees with the desired state and with the
\* generation the gateways acknowledged (store.go's state machine): "active" and
\* "revoked" are said only of a row whose last change was applied.
StatusTruthful ==
  \A k \in Keys :
    LET r == rows[k] IN
      /\ r.status \in {"active", "revoked"} =>
            r.status = r.desired /\ r.appliedGen = r.desiredGen
      /\ r.status \in {"pending", "revoking", "failed"} =>
            r.appliedGen < r.desiredGen
      /\ r.status = "pending" => r.desired = "active"
      /\ r.status = "revoking" => r.desired = "revoked"

\* A fence is a promise: a process whose fence has reached a generation left no
\* key of that generation or an older one unapplied (Observe advances the fence
\* only after Reload succeeds, reconcile.go:24-26).
FenceSound ==
  \A n \in Nodes, k \in Keys :
    Exists(k) /\ rows[k].desiredGen <= fence[n][Owner[k]] =>
      rows[k].appliedGen = rows[k].desiredGen

\* A key reported active authenticates: it has its row in the Bifrost database
\* the resolver reads on every request (tenantauth/resolver.go).
ActiveIsConfigured ==
  \A k \in Keys : rows[k].status = "active" => k \in configDB

\* A key reported revoked is no longer in the Bifrost database, so no gateway
\* resolves it.
RevokedIsGone ==
  \A k \in Keys : rows[k].status = "revoked" => k \notin configDB

\* What the fence means for the request path: a process whose fence has passed a
\* key's last change holds that change in its runtime cache, which Bifrost
\* consults instead of the database (bifrostprojection/virtualkey.go:26-28).
CaughtUpCache ==
  \A n \in Nodes, k \in Keys :
    Exists(k) /\ rows[k].desiredGen <= fence[n][Owner[k]] =>
      (k \in cache[n] <=> rows[k].desired = "active")

\* Every change the control plane accepts is eventually applied, whatever
\* notifications are lost and however the finitely many faults fall.
Converges ==
  \A k \in Keys : Dirty(k) ~> ~Dirty(k)

\* A key reported active eventually works on every running gateway, unless it is
\* revoked or the gateway goes down first.
WorksEverywhere ==
  \A k \in Keys, n \in Nodes :
    rows[k].status = "active" /\ pc[n] # "down" ~>
      k \in cache[n] \/ rows[k].status # "active" \/ pc[n] = "down"

-----------------------------------------------------------------------------
(* The inductive invariant: why the fence is sound.                         *)

\* Nothing names a generation that has not been committed.
GenerationBounds ==
  /\ \A k \in Keys : Exists(k) => rows[k].desiredGen <= generation[Owner[k]]
  /\ \A n \in Nodes : obs[n].gen <= generation[obs[n].tenant]
  /\ \A n \in Nodes, t \in Tenants : fence[n][t] <= generation[t]

\* A row is held by one process at a time, and only while it is dirty.
RowHeldOnce ==
  /\ \A n \in Nodes : pc[n] \in {"target", "runtime", "commit"} => Dirty(cur[n])
  /\ \A m, n \in Nodes, k \in Keys : HoldsRow(m, k) /\ HoldsRow(n, k) => m = n

\* A pass that has listed the tenant's dirty keys and met no error still has in
\* hand every key left unapplied at the generation it observed.
PassSound ==
  \A n \in Nodes, k \in Keys :
    /\ pc[n] \in {"project", "target", "runtime", "commit"}
    /\ ~failed[n]
    /\ Owner[k] = obs[n].tenant
    /\ Dirty(k)
    /\ rows[k].desiredGen <= obs[n].gen
    => (\E e \in todo[n] : e[1] = k) \/ HoldsRow(n, k)

\* Between the configuration write and the acknowledgement the written row is
\* there, although other processes write the same table.
WrittenStays ==
  \A n \in Nodes :
    pc[n] \in {"runtime", "commit"} /\ rows[cur[n]].desired = "active" =>
      cur[n] \in configDB

\* The conjunction that every step preserves, for any number of processes: a
\* clean fence rests on what the pass has in hand, which rests on the row lock
\* (projector.go:57-77 and 113-171).
ProjectionInv ==
  /\ TypeOK
  /\ StatusTruthful
  /\ GenerationBounds
  /\ RowHeldOnce
  /\ PassSound
  /\ FenceSound
  /\ WrittenStays
  /\ ActiveIsConfigured

-----------------------------------------------------------------------------
(* The refinement: what a tenant sees of this state.                        *)

Wanted == [k \in Keys |-> IF Exists(k) THEN rows[k].desired ELSE "none"]
Told == [k \in Keys |-> IF rows[k].status \in {"active", "revoked"}
                          THEN rows[k].status ELSE "unknown"]

Access == INSTANCE KeyAccess WITH wanted <- Wanted, granted <- configDB,
                                  told <- Told

\* While no gateway deletes a key under another's restore the projection keeps the
\* promise of KeyAccess: a stale snapshot never grants a withdrawn key again, and a status is
\* told only when the data plane is in it.
KeepsPromise == Access!Spec

\* One gateway process runs at a time: there is only one, or another starts when
\* the last one is gone, as in a failover or a deployment that recreates it.
OneRunning == \A m, n \in Nodes : pc[m] # "down" /\ pc[n] # "down" => m = n

\* No process is about to delete a key that another has read in a snapshot and is
\* still to restore.  The code does not see to that (projector.go:83-111); without
\* it a key comes back, which is the second finding.
NoDeleteUnderRestore ==
  \A m, n \in Nodes :
    /\ pc[m] = "target" /\ rows[cur[m]].desired = "revoked"
    /\ pc[n] \in {"restore", "hydrate"}
    => \A e \in todo[n] : e[1] # cur[m]

\* What this adds to the invariant: nothing that a pass has read or deleted is
\* undone before it is written or acknowledged.
UndisturbedInv ==
  /\ RevokedIsGone
  /\ \A n \in Nodes :
       pc[n] \in {"runtime", "commit"} /\ rows[cur[n]].desired = "revoked" =>
         cur[n] \notin configDB
  /\ \A n \in Nodes :
       pc[n] \in {"restore", "hydrate"} => \A e \in todo[n] : e[1] \in configDB

\* Why the fence of a process that runs alone speaks for its runtime cache.  The
\* fence moves only for a tenant whose keys were restored since the start, a
\* process that is down has no memory, and generations begin at one.
FenceIsRestored ==
  /\ \A k \in Keys : Exists(k) => rows[k].desiredGen > 0
  /\ \A n \in Nodes, t \in Tenants : fence[n][t] > 0 => t \in restored[n]
  /\ \A n \in Nodes : pc[n] = "down" => restored[n] = {} /\ cache[n] = {}
  /\ \A n \in Nodes :
       pc[n] \in {"list", "project", "target", "runtime", "commit"} =>
         obs[n].tenant \in restored[n]

\* Once a tenant is restored the cache holds its active keys; a restoring pass
\* has the missing ones in hand.
CacheHolds ==
  \A n \in Nodes, k \in Keys : rows[k].status = "active" =>
    /\ Owner[k] \in restored[n] => k \in cache[n]
    /\ pc[n] \in {"restore", "hydrate"} /\ Owner[k] = obs[n].tenant =>
         \/ k \in cache[n]
         \/ \E e \in todo[n] : e[1] = k
         \/ pc[n] = "hydrate" /\ cur[n] = k

\* A revoked key is not in the cache, and a restoring pass does not have it in
\* hand.
CacheLacks ==
  \A n \in Nodes, k \in Keys : rows[k].status = "revoked" =>
    /\ k \notin cache[n]
    /\ pc[n] \in {"restore", "hydrate"} => \A e \in todo[n] : e[1] # k
    /\ pc[n] = "hydrate" => cur[n] # k

\* What a pass is about to acknowledge is what its cache has.
CommitIsCached ==
  \A n \in Nodes :
    pc[n] = "commit" => (cur[n] \in cache[n] <=> rows[cur[n]].desired = "active")

SoleCacheInv == FenceIsRestored /\ CacheHolds /\ CacheLacks /\ CommitIsCached

=============================================================================
