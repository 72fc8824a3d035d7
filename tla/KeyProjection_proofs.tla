------------------------ MODULE KeyProjection_proofs ------------------------
(***************************************************************************)
(* Theorems about KeyProjection, for any sets of keys, tenants and gateway *)
(* processes and any bounds.                                               *)
(***************************************************************************)
EXTENDS KeyProjection, TLAPS

-----------------------------------------------------------------------------
(* Type correctness.                                                        *)

LEMMA NoRowIsRow == NoRow \in Row
  BY DEF NoRow, Row, Statuses

LEMMA TypeInit == Init => TypeOK
  BY NoRowIsRow DEF Init, TypeOK, PCs

LEMMA RevokedRow ==
  ASSUME NEW r \in Row, NEW g \in Nat
  PROVE  [r EXCEPT !.status = "revoking", !.desired = "revoked",
                   !.desiredGen = g] \in Row
  BY DEF Row, Statuses

LEMMA RetriedRow ==
  ASSUME NEW r \in Row, NEW s \in Statuses, NEW g \in Nat
  PROVE  [r EXCEPT !.status = s, !.desiredGen = g] \in Row
  BY DEF Row

LEMMA TypeApi == TypeOK /\ Api => TypeOK'
<1> SUFFICES ASSUME TypeOK, NEW k \in Keys,
                    CreateTx(k) \/ RevokeTx(k) \/ RetryTx(k)
             PROVE  TypeOK'
  BY DEF Api
<1>1. generation' \in [Tenants -> Nat] /\ NextGeneration(k) \in Nat
  BY OwnerAssumption DEF TypeOK, CreateTx, RevokeTx, RetryTx, PublishTx, NextGeneration
<1>2. rows' \in [Keys -> Row]
  <2>1. CASE CreateTx(k)
    BY <1>1, <2>1 DEF TypeOK, CreateTx, Row, Statuses
  <2>2. CASE RevokeTx(k)
    <3>1. rows[k] \in Row
      BY DEF TypeOK
    <3>2. [rows[k] EXCEPT !.status = "revoking", !.desired = "revoked",
                          !.desiredGen = NextGeneration(k)] \in Row
      BY <1>1, <3>1, RevokedRow
    <3>3. QED BY <2>2, <3>2 DEF TypeOK, RevokeTx
  <2>3. CASE RetryTx(k)
    <3> DEFINE s == IF rows[k].desired = "revoked" THEN "revoking" ELSE "pending"
    <3>1. rows[k] \in Row /\ s \in Statuses
      BY DEF TypeOK, Statuses
    <3>2. [rows[k] EXCEPT !.status = s, !.desiredGen = NextGeneration(k)] \in Row
      BY <1>1, <3>1, RetriedRow
    <3>3. QED BY <2>3, <3>2 DEF TypeOK, RetryTx
  <2>4. QED BY <2>1, <2>2, <2>3
<1>3. QED BY <1>1, <1>2 DEF TypeOK, CreateTx, RevokeTx, RetryTx, process

LEMMA TypeNode ==
  ASSUME TypeOK, NEW n \in Nodes,
         Start(n) \/ (\E t \in Tenants : ObserveSome(n, t)) \/ Pass(n) \/ Fault(n)
  PROVE  TypeOK'
<1> USE DEF TypeOK, control, PCs
<1>1. CASE Start(n) BY <1>1 DEF Start
<1>2. ASSUME NEW t \in Tenants, ObserveSome(n, t) PROVE TypeOK'
  BY <1>2 DEF ObserveSome, Observe
<1>3. CASE ReadSnapshot(n)
  <2>1. todo' \in [Nodes -> SUBSET (Keys \X Nat)]
    BY <1>3 DEF ReadSnapshot, Row
  <2>2. QED BY <1>3, <2>1 DEF ReadSnapshot
<1>4. CASE RestoreUpsert(n) BY <1>4 DEF RestoreUpsert
<1>5. CASE RestoreHydrate(n) BY <1>5 DEF RestoreHydrate
<1>6. CASE RestoreDone(n) BY <1>6 DEF RestoreDone
<1>7. CASE ListDirty(n)
  <2>1. todo' \in [Nodes -> SUBSET (Keys \X Nat)]
    BY <1>7 DEF ListDirty, Row
  <2>2. QED BY <1>7, <2>1 DEF ListDirty
<1>8. CASE LockRow(n)
  <2>1. PICK e \in todo[n] :
          /\ todo' = [todo EXCEPT ![n] = @ \ {e}]
          /\ \/ /\ pc' = [pc EXCEPT ![n] = "target"]
                /\ cur' = [cur EXCEPT ![n] = e[1]]
             \/ UNCHANGED <<pc, cur>>
    BY <1>8 DEF LockRow
  <2>2. e[1] \in Keys
    OBVIOUS
  <2>3. QED BY <1>8, <2>1, <2>2 DEF LockRow
<1>9. CASE TargetWrite(n) BY <1>9 DEF TargetWrite, Projected
<1>10. CASE TargetRuntime(n) BY <1>10 DEF TargetRuntime, Projected
<1>11. rows[cur[n]] \in Row
  OBVIOUS
<1>12. Acknowledged(rows[cur[n]]) \in Row
  BY <1>11 DEF Acknowledged, Row, Statuses
<1>13. CASE Acknowledge(n) BY <1>12, <1>13 DEF Acknowledge
<1>14. CASE PassDone(n) BY <1>14 DEF PassDone
<1>15. CASE Crash(n) BY <1>15 DEF Crash
<1>16. CASE PassFails(n) BY <1>16 DEF PassFails
<1>17. CASE TargetFails(n)
  <2>1. [rows[cur[n]] EXCEPT !.status = "failed"] \in Row
    BY <1>11 DEF Row, Statuses
  <2>2. rows' \in [Keys -> Row]
    BY <1>17, <2>1 DEF TargetFails
  <2>3. configDB' \in SUBSET Keys
    BY <1>17 DEF TargetFails, Projected
  <2>4. QED BY <1>17, <2>2, <2>3 DEF TargetFails
<1>18. CASE AcknowledgeFails(n)
  <2>1. rows' \in [Keys -> Row]
    BY <1>12, <1>18 DEF AcknowledgeFails
  <2>2. QED BY <1>18, <2>1 DEF AcknowledgeFails
<1>19. QED
  BY <1>1, <1>2, <1>3, <1>4, <1>5, <1>6, <1>7, <1>8, <1>9, <1>10, <1>13, <1>14,
     <1>15, <1>16, <1>17, <1>18 DEF Pass, Fault

LEMMA TypeStep == TypeOK /\ [Next]_vars => TypeOK'
<1> SUFFICES ASSUME TypeOK, [Next]_vars PROVE TypeOK'
  OBVIOUS
<1>1. CASE Api BY <1>1, TypeApi
<1>2. CASE UNCHANGED vars BY <1>2 DEF TypeOK, vars
<1>3. QED BY <1>1, <1>2, TypeNode DEF Next

\* Every state of the projection is well typed, for every instance.
THEOREM TypeCorrect == Spec => []TypeOK
<1>1. QED BY TypeInit, TypeStep, PTL DEF Spec

-----------------------------------------------------------------------------
(* What a step may do to the control database.                              *)

\* The steps of one gateway process.
NodeStep(n) ==
  Start(n) \/ (\E t \in Tenants : ObserveSome(n, t)) \/ Pass(n) \/ Fault(n)

\* An API transaction gives one key that no process holds the tenant's next
\* generation and leaves it unapplied.
ApiChange(k) ==
  /\ ~Locked(k)
  /\ rows' = [rows EXCEPT ![k] = rows'[k]]
  /\ rows'[k] \in Row
  /\ rows'[k].status = IF rows'[k].desired = "active" THEN "pending" ELSE "revoking"
  /\ rows'[k].appliedGen < rows'[k].desiredGen
  /\ rows'[k].desiredGen = generation[Owner[k]] + 1
  /\ generation' = [generation EXCEPT ![Owner[k]] = @ + 1]
  /\ UNCHANGED <<configDB, process, faults>>

LEMMA ApiChanges ==
  ASSUME ProjectionInv, Api
  PROVE  \E k \in Keys : ApiChange(k)
<1>1. PICK k \in Keys : CreateTx(k) \/ RevokeTx(k) \/ RetryTx(k)
  BY DEF Api
<1> SUFFICES ApiChange(k)
  OBVIOUS
<1> USE DEF ProjectionInv
<1>2. TypeOK'
  BY TypeApi
<1>3. generation[Owner[k]] \in Nat /\ rows[k] \in Row /\ rows'[k] \in Row
  BY <1>2, OwnerAssumption DEF TypeOK
<1>4. ~Locked(k)
  BY <1>1 DEF CreateTx, RevokeTx, RetryTx, Locked, HoldsRow, RowHeldOnce, Dirty
<1>5. Exists(k) => rows[k].appliedGen <= generation[Owner[k]]
  BY <1>3 DEF GenerationBounds, StatusTruthful, Row, Statuses, Exists
<1>6. CASE CreateTx(k)
  BY <1>3, <1>4, <1>6 DEF TypeOK, CreateTx, PublishTx, NextGeneration, ApiChange
<1>7. CASE RevokeTx(k)
  <2>1. /\ rows'[k].status = "revoking"
        /\ rows'[k].desired = "revoked"
        /\ rows'[k].desiredGen = generation[Owner[k]] + 1
        /\ rows'[k].appliedGen = rows[k].appliedGen
        /\ rows' = [rows EXCEPT ![k] = rows'[k]]
    BY <1>3, <1>7 DEF TypeOK, RevokeTx, NextGeneration, Row
  <2>2. QED BY <1>3, <1>4, <1>5, <1>7, <2>1 DEF RevokeTx, PublishTx, ApiChange, Row
<1>8. CASE RetryTx(k)
  <2>1. /\ rows'[k].status = IF rows[k].desired = "revoked" THEN "revoking" ELSE "pending"
        /\ rows'[k].desired = rows[k].desired
        /\ rows'[k].desiredGen = generation[Owner[k]] + 1
        /\ rows'[k].appliedGen = rows[k].appliedGen
        /\ rows' = [rows EXCEPT ![k] = rows'[k]]
    BY <1>3, <1>8 DEF TypeOK, RetryTx, NextGeneration, Row
  <2>2. Exists(k)
    BY <1>8 DEF RetryTx, Exists
  <2>3. rows[k].desired \in {"active", "revoked"}
    BY <1>3 DEF Row
  <2>4. QED
    BY <1>3, <1>4, <1>5, <1>8, <2>1, <2>2, <2>3 DEF RetryTx, PublishTx, ApiChange, Row
<1>9. QED BY <1>1, <1>6, <1>7, <1>8

\* A gateway process writes the control database only at the row it holds: it
\* marks it failed or acknowledges it, and lets it go.
LEMMA NodeRows ==
  ASSUME TypeOK, NEW n \in Nodes, NodeStep(n)
  PROVE  /\ generation' = generation
         /\ \/ rows' = rows
            \/ /\ pc[n] = "target"
               /\ pc' = [pc EXCEPT ![n] = "project"]
               /\ failed'[n] = TRUE
               /\ rows' = [rows EXCEPT ![cur[n]] = [@ EXCEPT !.status = "failed"]]
            \/ /\ pc[n] = "commit"
               /\ pc' = [pc EXCEPT ![n] = "project"]
               /\ rows' = [rows EXCEPT ![cur[n]] = Acknowledged(@)]
  BY DEF TypeOK, NodeStep, Start, ObserveSome, Observe, Pass, Fault, ReadSnapshot,
         RestoreUpsert, RestoreHydrate, RestoreDone, ListDirty, LockRow, TargetWrite,
         TargetRuntime, Acknowledge, PassDone, Crash, PassFails, TargetFails,
         AcknowledgeFails, control

\* Acknowledgement and failure, field by field, on a row of the table.
LEMMA RowFields ==
  ASSUME NEW r \in Row
  PROVE  /\ Acknowledged(r).status = r.desired
         /\ Acknowledged(r).desired = r.desired
         /\ Acknowledged(r).desiredGen = r.desiredGen
         /\ Acknowledged(r).appliedGen = r.desiredGen
         /\ [r EXCEPT !.status = "failed"].status = "failed"
         /\ [r EXCEPT !.status = "failed"].desired = r.desired
         /\ [r EXCEPT !.status = "failed"].desiredGen = r.desiredGen
         /\ [r EXCEPT !.status = "failed"].appliedGen = r.appliedGen
  BY DEF Row, Acknowledged

\* What a process's step does to any row: its target, generation and desired
\* state stay, and either it stays as it is, or it was held by that process and
\* becomes failed and dirty still, or acknowledged and clean.
LEMMA NodeRow ==
  ASSUME ProjectionInv, NEW n \in Nodes, NodeStep(n), NEW k \in Keys
  PROVE  /\ rows'[k].desired = rows[k].desired
         /\ rows'[k].desiredGen = rows[k].desiredGen
         /\ \/ rows'[k] = rows[k]
            \/ /\ HoldsRow(n, k) /\ pc[n] = "target" /\ pc'[n] = "project"
               /\ failed'[n] = TRUE
               /\ rows'[k].status = "failed"
               /\ rows'[k].appliedGen = rows[k].appliedGen
            \/ /\ HoldsRow(n, k) /\ pc[n] = "commit" /\ pc'[n] = "project"
               /\ rows'[k].status = rows[k].desired
               /\ rows'[k].appliedGen = rows[k].desiredGen
<1> USE DEF ProjectionInv
<1>1. rows \in [Keys -> Row] /\ rows[k] \in Row /\ cur[n] \in Keys /\ pc \in [Nodes -> PCs]
  BY DEF TypeOK
<1>2. CASE rows' = rows
  BY <1>2
<1>3. CASE k # cur[n]
  BY <1>1, <1>3, NodeRows
<1>4. CASE k = cur[n] /\ rows' # rows
  <2>1. \/ /\ pc[n] = "target"
           /\ pc' = [pc EXCEPT ![n] = "project"]
           /\ failed'[n] = TRUE
           /\ rows' = [rows EXCEPT ![k] = [@ EXCEPT !.status = "failed"]]
        \/ /\ pc[n] = "commit"
           /\ pc' = [pc EXCEPT ![n] = "project"]
           /\ rows' = [rows EXCEPT ![k] = Acknowledged(@)]
    BY <1>4, NodeRows
  <2>2. CASE pc[n] = "target"
    <3>1. /\ rows'[k] = [rows[k] EXCEPT !.status = "failed"]
          /\ pc'[n] = "project"
          /\ failed'[n] = TRUE
      BY <1>1, <2>1, <2>2
    <3>2. HoldsRow(n, k)
      BY <1>4, <2>2 DEF HoldsRow
    <3>3. QED BY <1>1, <2>2, <3>1, <3>2, RowFields
  <2>3. CASE pc[n] = "commit"
    <3>1. rows'[k] = Acknowledged(rows[k]) /\ pc'[n] = "project"
      BY <1>1, <2>1, <2>3
    <3>2. HoldsRow(n, k)
      BY <1>4, <2>3 DEF HoldsRow
    <3>3. QED BY <1>1, <2>3, <3>1, <3>2, RowFields
  <2>4. QED BY <2>1, <2>2, <2>3
<1>5. QED BY <1>2, <1>3, <1>4

-----------------------------------------------------------------------------
(* Each conjunct of the invariant is preserved.                             *)

LEMMA StatusStep ==
  ASSUME ProjectionInv, Next
  PROVE  StatusTruthful'
<1> USE DEF ProjectionInv
<1>1. CASE Api
  <2>1. PICK k \in Keys : ApiChange(k)
    BY <1>1, ApiChanges
  <2>2. rows'[k] \in Row /\ rows \in [Keys -> Row]
    BY <2>1 DEF ApiChange, TypeOK
  <2>3. QED BY <2>1, <2>2 DEF ApiChange, StatusTruthful, Row
<1>2. ASSUME NEW n \in Nodes, NodeStep(n) PROVE StatusTruthful'
  <2> SUFFICES ASSUME NEW k \in Keys
               PROVE  LET r == rows'[k] IN
                        /\ r.status \in {"active", "revoked"} =>
                              r.status = r.desired /\ r.appliedGen = r.desiredGen
                        /\ r.status \in {"pending", "revoking", "failed"} =>
                              r.appliedGen < r.desiredGen
                        /\ r.status = "pending" => r.desired = "active"
                        /\ r.status = "revoking" => r.desired = "revoked"
    BY DEF StatusTruthful
  <2>1. rows[k] \in Row
    BY DEF TypeOK
  <2>2. HoldsRow(n, k) => Dirty(k)
    BY DEF HoldsRow, RowHeldOnce
  <2>3. CASE rows'[k] = rows[k]
    BY <2>3 DEF StatusTruthful
  <2>4. CASE rows'[k] # rows[k]
    <3>1. rows'[k].desired = rows[k].desired /\ rows'[k].desiredGen = rows[k].desiredGen
      BY <1>2, NodeRow
    <3>2. /\ HoldsRow(n, k)
          /\ \/ /\ rows'[k].status = "failed"
                /\ rows'[k].appliedGen = rows[k].appliedGen
             \/ /\ rows'[k].status = rows[k].desired
                /\ rows'[k].appliedGen = rows[k].desiredGen
      BY <1>2, <2>4, NodeRow
    <3>3. QED BY <2>1, <2>2, <3>1, <3>2 DEF Dirty, Row
  <2>5. QED BY <2>3, <2>4
<1>3. QED BY <1>1, <1>2 DEF Next, NodeStep

LEMMA BoundsStep ==
  ASSUME ProjectionInv, Next
  PROVE  GenerationBounds'
<1> USE DEF ProjectionInv
<1>1. CASE Api
  <2>1. PICK k \in Keys : ApiChange(k)
    BY <1>1, ApiChanges
  <2>2. /\ generation \in [Tenants -> Nat] /\ Owner[k] \in Tenants
        /\ obs \in [Nodes -> [tenant : Tenants, gen : Nat]]
        /\ fence \in [Nodes -> [Tenants -> Nat]]
        /\ rows \in [Keys -> Row] /\ \A j \in Keys : Owner[j] \in Tenants
    BY OwnerAssumption DEF TypeOK
  <2>3. \A j \in Keys : rows[j].desiredGen \in Nat
    BY <2>2 DEF Row
  <2>4. \A t \in Tenants : generation[t] <= generation'[t]
    BY <2>1, <2>2 DEF ApiChange
  <2>5. \A j \in Keys : Exists(j)' => rows'[j].desiredGen <= generation'[Owner[j]]
    BY <2>1, <2>2, <2>3, <2>4 DEF ApiChange, GenerationBounds, Exists
  <2>6. QED BY <2>1, <2>2, <2>4, <2>5 DEF ApiChange, GenerationBounds, process
<1>2. ASSUME NEW n \in Nodes, NodeStep(n) PROVE GenerationBounds'
  <2>1. generation' = generation
    BY <1>2, NodeRows
  <2>2. \A k \in Keys : Exists(k)' => rows'[k].desiredGen <= generation'[Owner[k]]
    <3> SUFFICES ASSUME NEW k \in Keys, Exists(k)'
                 PROVE  rows'[k].desiredGen <= generation'[Owner[k]]
      OBVIOUS
    <3>1. HoldsRow(n, k) => Exists(k)
      BY DEF HoldsRow, RowHeldOnce, Dirty
    <3>2. Exists(k)
      BY <1>2, <3>1, NodeRow DEF Exists
    <3>3. QED BY <1>2, <2>1, <3>2, NodeRow DEF GenerationBounds
  <2>3. /\ \A m \in Nodes : obs'[m].gen <= generation'[obs'[m].tenant]
        /\ \A m \in Nodes, t \in Tenants : fence'[m][t] <= generation'[t]
    <3> USE DEF TypeOK, GenerationBounds
    <3>1. CASE \E t \in Tenants : ObserveSome(n, t)
      BY <2>1, <3>1 DEF ObserveSome, Observe
    <3>2. CASE PassDone(n)
      BY <2>1, <3>2 DEF PassDone
    <3>3. CASE Crash(n)
      BY <2>1, <3>3 DEF Crash
    <3>4. CASE Start(n) \/ (Pass(n) /\ ~PassDone(n)) \/ (Fault(n) /\ ~Crash(n))
      BY <2>1, <3>4 DEF Start, Pass, Fault, ReadSnapshot, RestoreUpsert, RestoreHydrate,
         RestoreDone, ListDirty, LockRow, TargetWrite, TargetRuntime, Acknowledge,
         PassFails, TargetFails, AcknowledgeFails
    <3>5. QED BY <1>2, <3>1, <3>2, <3>3, <3>4 DEF NodeStep
  <2>4. QED BY <2>2, <2>3 DEF GenerationBounds
<1>3. QED BY <1>1, <1>2 DEF Next, NodeStep

\* A process touches only its own memory.
LEMMA NodeLocal ==
  ASSUME TypeOK, NEW n \in Nodes, NodeStep(n), NEW m \in Nodes, m # n
  PROVE  /\ pc'[m] = pc[m] /\ cur'[m] = cur[m] /\ obs'[m] = obs[m]
         /\ todo'[m] = todo[m] /\ failed'[m] = failed[m] /\ fence'[m] = fence[m]
         /\ restored'[m] = restored[m] /\ cache'[m] = cache[m]
  BY DEF TypeOK, NodeStep, Start, ObserveSome, Observe, Pass, Fault, ReadSnapshot,
         RestoreUpsert, RestoreHydrate, RestoreDone, ListDirty, LockRow, TargetWrite,
         TargetRuntime, Acknowledge, PassDone, Crash, PassFails, TargetFails,
         AcknowledgeFails, control

\* A process that holds a row after its step held it before, or has just been
\* granted the lock of a dirty row that nobody held.
LEMMA NodeHolds ==
  ASSUME TypeOK, NEW n \in Nodes, NodeStep(n),
         pc'[n] \in {"target", "runtime", "commit"}
  PROVE  /\ rows' = rows
         /\ \/ pc[n] \in {"target", "runtime"} /\ cur'[n] = cur[n]
            \/ Dirty(cur'[n]) /\ ~Locked(cur'[n])
  BY DEF TypeOK, NodeStep, Start, ObserveSome, Observe, Pass, Fault, ReadSnapshot,
         RestoreUpsert, RestoreHydrate, RestoreDone, ListDirty, LockRow, TargetWrite,
         TargetRuntime, Acknowledge, PassDone, Crash, PassFails, TargetFails,
         AcknowledgeFails, control

LEMMA HeldStep ==
  ASSUME ProjectionInv, Next
  PROVE  RowHeldOnce'
<1> USE DEF ProjectionInv
<1>1. CASE Api
  <2>1. PICK k \in Keys : ApiChange(k)
    BY <1>1, ApiChanges
  <2>2. pc' = pc /\ cur' = cur
    BY <2>1 DEF ApiChange, process
  <2>3. ASSUME NEW n \in Nodes, pc[n] \in {"target", "runtime", "commit"}
        PROVE  Dirty(cur[n])'
    <3>1. cur[n] \in Keys /\ cur[n] # k
      BY <2>1, <2>3 DEF ApiChange, Locked, HoldsRow, TypeOK
    <3>2. rows'[cur[n]] = rows[cur[n]]
      BY <2>1, <3>1 DEF ApiChange, TypeOK
    <3>3. QED BY <2>2, <2>3, <3>2 DEF RowHeldOnce, Dirty, Exists
  <2>4. QED BY <2>2, <2>3 DEF RowHeldOnce, HoldsRow
<1>2. ASSUME NEW n \in Nodes, NodeStep(n) PROVE RowHeldOnce'
  <2>1. ASSUME NEW m \in Nodes, pc'[m] \in {"target", "runtime", "commit"}
        PROVE  Dirty(cur[m])'
    <3>1. CASE m = n
      BY <1>2, <2>1, <3>1, NodeHolds DEF RowHeldOnce, Dirty, Exists
    <3>2. CASE m # n
      <4>1. pc'[m] = pc[m] /\ cur'[m] = cur[m] /\ cur[m] \in Keys
        BY <1>2, <3>2, NodeLocal DEF TypeOK
      <4>2. HoldsRow(m, cur[m]) /\ Dirty(cur[m])
        BY <2>1, <4>1 DEF RowHeldOnce, HoldsRow
      <4>3. ~HoldsRow(n, cur[m])
        BY <3>2, <4>1, <4>2 DEF RowHeldOnce
      <4>4. rows'[cur[m]] = rows[cur[m]]
        BY <1>2, <4>1, <4>3, NodeRow
      <4>5. QED BY <4>1, <4>2, <4>4 DEF Dirty, Exists
    <3>3. QED BY <3>1, <3>2
  <2>2. ASSUME NEW m \in Nodes, m # n, NEW k \in Keys,
               HoldsRow(m, k)', HoldsRow(n, k)'
        PROVE  FALSE
    <3>1. HoldsRow(m, k)
      BY <1>2, <2>2, NodeLocal DEF HoldsRow
    <3>2. pc'[n] \in {"target", "runtime", "commit"} /\ cur'[n] = k
      BY <2>2 DEF HoldsRow
    <3>3. Locked(k)
      BY <3>1 DEF Locked
    <3>4. HoldsRow(n, k)
      BY <1>2, <3>2, <3>3, NodeHolds DEF HoldsRow
    <3>5. QED BY <2>2, <3>1, <3>4 DEF RowHeldOnce
  <2>3. \A m1, m2 \in Nodes, k \in Keys :
           HoldsRow(m1, k)' /\ HoldsRow(m2, k)' => m1 = m2
    <3> SUFFICES ASSUME NEW m1 \in Nodes, NEW m2 \in Nodes, NEW k \in Keys,
                        HoldsRow(m1, k)', HoldsRow(m2, k)', m1 # m2
                 PROVE  FALSE
      OBVIOUS
    <3>1. CASE m1 = n BY <2>2, <3>1
    <3>2. CASE m2 = n BY <2>2, <3>2
    <3>3. CASE m1 # n /\ m2 # n
      <4>1. HoldsRow(m1, k) /\ HoldsRow(m2, k)
        BY <1>2, <3>3, NodeLocal DEF HoldsRow
      <4>2. QED BY <4>1 DEF RowHeldOnce
    <3>4. QED BY <3>1, <3>2, <3>3
  <2>4. QED BY <2>1, <2>3 DEF RowHeldOnce
<1>3. QED BY <1>1, <1>2 DEF Next, NodeStep

\* A pass in its loop after a step of its process has just listed the dirty keys,
\* or was in the loop, with the same fence, and has at most let go of the row it
\* held or taken one listed key in hand.
LEMMA NodeLoop ==
  ASSUME TypeOK, NEW n \in Nodes, NodeStep(n),
         pc'[n] \in {"project", "target", "runtime", "commit"}
  PROVE  /\ obs'[n] = obs[n]
         /\ \/ /\ rows' = rows
               /\ todo'[n] = {<<k, rows[k].desiredGen>> :
                    k \in {j \in Keys : Owner[j] = obs[n].tenant /\ Dirty(j)}}
            \/ /\ pc[n] \in {"project", "target", "runtime", "commit"}
               /\ failed[n] => failed'[n]
               /\ \/ /\ todo'[n] = todo[n] /\ cur'[n] = cur[n]
                     /\ pc[n] \in {"target", "runtime"}
                     /\ pc'[n] \in {"runtime", "commit"}
                  \/ /\ todo'[n] = todo[n] /\ failed'[n]
                  \/ /\ todo'[n] = todo[n] /\ pc[n] = "commit"
                     /\ rows' = [rows EXCEPT ![cur[n]] = Acknowledged(@)]
                  \/ /\ pc[n] = "project" /\ rows' = rows
                     /\ \E e \in todo[n] :
                          /\ todo'[n] = todo[n] \ {e}
                          /\ ~Dirty(e[1]) \/ (pc'[n] = "target" /\ cur'[n] = e[1])
<1> USE DEF TypeOK, control
<1>1. CASE Start(n) BY <1>1 DEF Start
<1>2. CASE \E t \in Tenants : ObserveSome(n, t) BY <1>2 DEF ObserveSome, Observe
<1>3. CASE ReadSnapshot(n) \/ RestoreUpsert(n) \/ RestoreHydrate(n) \/ RestoreDone(n)
  BY <1>3 DEF ReadSnapshot, RestoreUpsert, RestoreHydrate, RestoreDone
<1>4. CASE ListDirty(n) BY <1>4 DEF ListDirty
<1>5. CASE LockRow(n)
  <2>1. PICK e \in todo[n] :
          /\ todo' = [todo EXCEPT ![n] = @ \ {e}]
          /\ IF Dirty(e[1])
               THEN /\ pc' = [pc EXCEPT ![n] = "target"]
                    /\ cur' = [cur EXCEPT ![n] = e[1]]
               ELSE UNCHANGED <<pc, cur>>
    BY <1>5 DEF LockRow
  <2>2. todo'[n] = todo[n] \ {e} /\ (~Dirty(e[1]) \/ (pc'[n] = "target" /\ cur'[n] = e[1]))
    BY <2>1
  <2>3. QED BY <1>5, <2>2 DEF LockRow
<1>6. CASE TargetWrite(n) \/ TargetRuntime(n) BY <1>6 DEF TargetWrite, TargetRuntime
<1>7. CASE Acknowledge(n) BY <1>7 DEF Acknowledge
<1>8. CASE PassDone(n) BY <1>8 DEF PassDone
<1>9. CASE Crash(n) \/ PassFails(n) BY <1>9 DEF Crash, PassFails
<1>10. CASE TargetFails(n) \/ AcknowledgeFails(n)
  BY <1>10 DEF TargetFails, AcknowledgeFails
<1>11. QED
  BY <1>1, <1>2, <1>3, <1>4, <1>5, <1>6, <1>7, <1>8, <1>9, <1>10
     DEF NodeStep, Pass, Fault

LEMMA PassStep ==
  ASSUME ProjectionInv, Next
  PROVE  PassSound'
<1> USE DEF ProjectionInv
<1>1. CASE Api
  <2>1. PICK k \in Keys : ApiChange(k)
    BY <1>1, ApiChanges
  <2>2. UNCHANGED <<pc, cur, obs, todo, failed>>
    BY <2>1 DEF ApiChange, process
  <2>3. \A j \in Keys : j # k => rows'[j] = rows[j]
    BY <2>1 DEF ApiChange, TypeOK
  <2>4. \A n \in Nodes : Owner[k] = obs[n].tenant => ~(rows'[k].desiredGen <= obs[n].gen)
    BY <2>1, OwnerAssumption DEF ApiChange, GenerationBounds, TypeOK
  <2>5. QED BY <2>2, <2>3, <2>4 DEF PassSound, Dirty, Exists, HoldsRow
<1>2. ASSUME NEW n \in Nodes, NodeStep(n) PROVE PassSound'
  <2> SUFFICES ASSUME NEW m \in Nodes, NEW k \in Keys,
                      pc'[m] \in {"project", "target", "runtime", "commit"},
                      ~failed'[m], Owner[k] = obs'[m].tenant, Dirty(k)',
                      rows'[k].desiredGen <= obs'[m].gen
               PROVE  (\E e \in todo'[m] : e[1] = k) \/ HoldsRow(m, k)'
    BY DEF PassSound
  <2>1. Dirty(k) /\ rows'[k].desiredGen = rows[k].desiredGen
    <3>1. HoldsRow(n, k) => Dirty(k)
      BY DEF RowHeldOnce, HoldsRow
    <3>2. QED BY <1>2, <3>1, NodeRow DEF Dirty, Exists
  <2>2. CASE m # n
    <3>1. /\ pc'[m] = pc[m] /\ cur'[m] = cur[m] /\ obs'[m] = obs[m]
          /\ todo'[m] = todo[m] /\ failed'[m] = failed[m]
      BY <1>2, <2>2, NodeLocal
    <3>2. QED BY <2>1, <3>1 DEF PassSound, HoldsRow
  <2>3. CASE m = n
    <3>1. obs'[n] = obs[n]
      BY <1>2, <2>3, NodeLoop
    <3>2. CASE todo'[n] = {<<j, rows[j].desiredGen>> :
                    j \in {i \in Keys : Owner[i] = obs[n].tenant /\ Dirty(i)}}
      <4>1. <<k, rows[k].desiredGen>> \in todo'[n]
        BY <2>1, <2>3, <3>1, <3>2
      <4>2. QED BY <2>3, <4>1
    <3>3. CASE /\ pc[n] \in {"project", "target", "runtime", "commit"}
               /\ failed[n] => failed'[n]
               /\ \/ /\ todo'[n] = todo[n] /\ cur'[n] = cur[n]
                     /\ pc[n] \in {"target", "runtime"}
                     /\ pc'[n] \in {"runtime", "commit"}
                  \/ /\ todo'[n] = todo[n] /\ pc[n] = "commit"
                     /\ rows' = [rows EXCEPT ![cur[n]] = Acknowledged(@)]
                  \/ /\ pc[n] = "project" /\ rows' = rows
                     /\ \E e \in todo[n] :
                          /\ todo'[n] = todo[n] \ {e}
                          /\ ~Dirty(e[1]) \/ (pc'[n] = "target" /\ cur'[n] = e[1])
      <4>1. (\E e \in todo[n] : e[1] = k) \/ HoldsRow(n, k)
        BY <2>1, <2>3, <3>1, <3>3 DEF PassSound
      <4>2. CASE /\ todo'[n] = todo[n] /\ cur'[n] = cur[n]
                 /\ pc[n] \in {"target", "runtime"}
                 /\ pc'[n] \in {"runtime", "commit"}
        BY <2>3, <4>1, <4>2 DEF HoldsRow
      <4>3. CASE /\ todo'[n] = todo[n] /\ pc[n] = "commit"
                 /\ rows' = [rows EXCEPT ![cur[n]] = Acknowledged(@)]
        <5>1. k # cur[n]
          <6>1. cur[n] \in Keys /\ rows[cur[n]] \in Row /\ rows'[cur[n]] = Acknowledged(rows[cur[n]])
            BY <4>3 DEF TypeOK
          <6>2. ~(rows'[cur[n]].appliedGen < rows'[cur[n]].desiredGen)
            BY <6>1, RowFields DEF Row
          <6>3. QED BY <6>2 DEF Dirty
        <5>2. QED BY <2>3, <4>1, <4>3, <5>1 DEF HoldsRow
      <4>4. CASE /\ pc[n] = "project" /\ rows' = rows
                 /\ \E e \in todo[n] :
                      /\ todo'[n] = todo[n] \ {e}
                      /\ ~Dirty(e[1]) \/ (pc'[n] = "target" /\ cur'[n] = e[1])
        BY <2>1, <2>3, <4>1, <4>4 DEF HoldsRow
      <4>5. QED BY <3>3, <4>2, <4>3, <4>4
    <3>4. QED BY <1>2, <2>3, <3>2, <3>3, NodeLoop
  <2>4. QED BY <2>2, <2>3
<1>3. QED BY <1>1, <1>2 DEF Next, NodeStep

LEMMA FenceStep ==
  ASSUME ProjectionInv, Next
  PROVE  FenceSound'
<1> USE DEF ProjectionInv
<1>1. CASE Api
  <2>1. PICK k \in Keys : ApiChange(k)
    BY <1>1, ApiChanges
  <2>2. fence' = fence /\ \A j \in Keys : j # k => rows'[j] = rows[j]
    BY <2>1 DEF ApiChange, process, TypeOK
  <2>3. ASSUME NEW n \in Nodes PROVE ~(rows'[k].desiredGen <= fence[n][Owner[k]])
    <3>1. /\ Owner[k] \in Tenants /\ generation[Owner[k]] \in Nat
          /\ fence[n][Owner[k]] \in Nat
      BY OwnerAssumption DEF TypeOK
    <3>2. fence[n][Owner[k]] <= generation[Owner[k]]
      BY <3>1 DEF GenerationBounds
    <3>3. QED BY <2>1, <3>1, <3>2 DEF ApiChange
  <2>4. QED BY <2>2, <2>3 DEF FenceSound, Exists
<1>2. ASSUME NEW n \in Nodes, NodeStep(n) PROVE FenceSound'
  <2> SUFFICES ASSUME NEW m \in Nodes, NEW k \in Keys, Exists(k)',
                      rows'[k].desiredGen <= fence'[m][Owner[k]]
               PROVE  rows'[k].appliedGen = rows'[k].desiredGen
    BY DEF FenceSound
  <2>1. HoldsRow(n, k) => Dirty(k)
    BY DEF RowHeldOnce, HoldsRow
  <2>2. Exists(k) /\ rows[k] \in Row /\ Owner[k] \in Tenants
    BY <1>2, <2>1, NodeRow, OwnerAssumption DEF Exists, Dirty, TypeOK
  <2>3. rows'[k].desiredGen = rows[k].desiredGen
    BY <1>2, NodeRow
  \* A clean row stays clean: only a held, dirty row is written.
  <2>4. rows[k].appliedGen = rows[k].desiredGen =>
          rows'[k].appliedGen = rows'[k].desiredGen
    BY <1>2, <2>1, <2>2, NodeRow DEF Dirty, Row
  <2>5. CASE fence'[m][Owner[k]] <= fence[m][Owner[k]]
    <3>1. rows[k].desiredGen <= fence[m][Owner[k]]
      BY <2>2, <2>3, <2>5, TypeStep DEF TypeOK, Row
    <3>2. QED BY <2>2, <2>4, <3>1 DEF FenceSound
  <2>6. CASE ~(fence'[m][Owner[k]] <= fence[m][Owner[k]])
    <3>1. /\ m = n /\ PassDone(n) /\ ~failed[n] /\ Owner[k] = obs[n].tenant
          /\ fence'[n][Owner[k]] = obs[n].gen
      <4>1. fence[m][Owner[k]] \in Nat
        BY <2>2 DEF TypeOK
      <4>2. fence' # fence
        BY <2>6, <4>1
      <4>3. PassDone(n) \/ Crash(n)
        BY <1>2, <4>2
           DEF NodeStep, Start, ObserveSome, Observe, Pass, Fault, ReadSnapshot,
           RestoreUpsert, RestoreHydrate, RestoreDone, ListDirty, LockRow, TargetWrite,
           TargetRuntime, Acknowledge, PassFails, TargetFails, AcknowledgeFails
      <4>4. m = n
        BY <1>2, <2>6, <4>1, NodeLocal
      <4>5. ~Crash(n)
        <5>1. Crash(n) => fence'[n] = [t \in Tenants |-> 0]
          BY DEF Crash, TypeOK
        <5>2. QED BY <2>2, <2>6, <4>1, <4>4, <5>1
      <4>6. ~failed[n] /\ fence' = [fence EXCEPT ![n][obs[n].tenant] = obs[n].gen]
        BY <4>2, <4>3, <4>5 DEF PassDone
      <4>7. fence[n] \in [Tenants -> Nat] /\ fence \in [Nodes -> [Tenants -> Nat]]
        BY DEF TypeOK
      <4>8. fence'[n] = [fence[n] EXCEPT ![obs[n].tenant] = obs[n].gen]
        BY <4>6, <4>7
      <4>9. Owner[k] = obs[n].tenant /\ fence'[n][Owner[k]] = obs[n].gen
        BY <2>2, <2>6, <4>1, <4>4, <4>7, <4>8
      <4>10. QED BY <4>3, <4>4, <4>5, <4>6, <4>9
    <3>2. pc[n] = "project" /\ todo[n] = {} /\ rows' = rows
      BY <3>1 DEF PassDone, control
    <3>3. ~Dirty(k)
      BY <2>3, <3>1, <3>2 DEF PassSound, HoldsRow
    <3>4. rows[k].appliedGen <= rows[k].desiredGen
      BY <2>2 DEF StatusTruthful, Row, Statuses, Exists
    <3>5. QED BY <2>2, <3>2, <3>3, <3>4 DEF Dirty, Row
  <2>7. QED BY <2>5, <2>6
<1>3. QED BY <1>1, <1>2 DEF Next, NodeStep

\* A step of a process takes a key out of the configuration database only if it
\* holds the key's row and the key is to be revoked.
LEMMA NodeConfig ==
  ASSUME TypeOK, NEW n \in Nodes, NodeStep(n), NEW k \in configDB, k \notin configDB'
  PROVE  pc[n] = "target" /\ cur[n] = k /\ rows[k].desired # "active"
  BY DEF TypeOK, NodeStep, Start, ObserveSome, Observe, Pass, Fault, ReadSnapshot,
         RestoreUpsert, RestoreHydrate, RestoreDone, ListDirty, LockRow, TargetWrite,
         TargetRuntime, Acknowledge, PassDone, Crash, PassFails, TargetFails,
         AcknowledgeFails, Projected

LEMMA WrittenStep ==
  ASSUME ProjectionInv, Next
  PROVE  WrittenStays'
<1> USE DEF ProjectionInv
<1>1. CASE Api
  <2>1. PICK k \in Keys : ApiChange(k)
    BY <1>1, ApiChanges
  <2>2. UNCHANGED <<configDB, pc, cur>>
    BY <2>1 DEF ApiChange, process
  <2>3. \A n \in Nodes : pc[n] \in {"runtime", "commit"} => rows'[cur[n]] = rows[cur[n]]
    BY <2>1 DEF ApiChange, Locked, HoldsRow, TypeOK
  <2>4. QED BY <2>2, <2>3 DEF WrittenStays
<1>2. ASSUME NEW n \in Nodes, NodeStep(n) PROVE WrittenStays'
  <2> SUFFICES ASSUME NEW m \in Nodes, pc'[m] \in {"runtime", "commit"},
                      rows'[cur'[m]].desired = "active"
               PROVE  cur'[m] \in configDB'
    BY DEF WrittenStays
  <2>1. CASE m # n
    <3>1. pc'[m] = pc[m] /\ cur'[m] = cur[m] /\ cur[m] \in Keys
      BY <1>2, <2>1, NodeLocal DEF TypeOK
    <3>2. cur[m] \in configDB /\ rows[cur[m]].desired = "active"
      BY <1>2, <3>1, NodeRow DEF WrittenStays
    <3>3. QED BY <1>2, <3>1, <3>2, NodeConfig
  <2>2. CASE m = n
    <3>1. rows' = rows
      BY <1>2, <2>2, NodeHolds
    <3>2. \/ TargetWrite(n) /\ cur' = cur
          \/ TargetRuntime(n) /\ cur' = cur /\ configDB' = configDB
      BY <1>2, <2>2
         DEF TypeOK, NodeStep, Start, ObserveSome, Observe, Pass, Fault, ReadSnapshot,
         RestoreUpsert, RestoreHydrate, RestoreDone, ListDirty, LockRow, TargetWrite,
         TargetRuntime, Acknowledge, PassDone, Crash, PassFails, TargetFails,
         AcknowledgeFails
    <3>3. QED
      BY <2>2, <3>1, <3>2 DEF TargetWrite, TargetRuntime, Projected, WrittenStays
  <2>3. QED BY <2>1, <2>2
<1>3. QED BY <1>1, <1>2 DEF Next, NodeStep

LEMMA ConfiguredStep ==
  ASSUME ProjectionInv, Next
  PROVE  ActiveIsConfigured'
<1> USE DEF ProjectionInv
<1>1. CASE Api
  <2>1. PICK k \in Keys : ApiChange(k)
    BY <1>1, ApiChanges
  <2>2. configDB' = configDB /\ rows'[k].status # "active"
        /\ \A j \in Keys : j # k => rows'[j] = rows[j]
    BY <2>1 DEF ApiChange, TypeOK
  <2>3. QED BY <2>2 DEF ActiveIsConfigured
<1>2. ASSUME NEW n \in Nodes, NodeStep(n) PROVE ActiveIsConfigured'
  <2> SUFFICES ASSUME NEW k \in Keys, rows'[k].status = "active"
               PROVE  k \in configDB'
    BY DEF ActiveIsConfigured
  <2>1. CASE rows'[k] = rows[k]
    <3>1. k \in configDB /\ rows[k].desired = "active"
      BY <2>1 DEF ActiveIsConfigured, StatusTruthful
    <3>2. QED BY <1>2, <3>1, NodeConfig
  <2>2. CASE rows'[k] # rows[k]
    <3>1. pc[n] = "commit" /\ cur[n] = k /\ rows[k].desired = "active"
      BY <1>2, <2>2, NodeRow DEF HoldsRow
    <3>2. k \in configDB
      BY <3>1 DEF WrittenStays
    <3>3. QED BY <1>2, <3>1, <3>2, NodeConfig
  <2>3. QED BY <2>1, <2>2
<1>3. QED BY <1>1, <1>2 DEF Next, NodeStep

-----------------------------------------------------------------------------
LEMMA InvInit == Init => ProjectionInv
<1> SUFFICES ASSUME Init PROVE ProjectionInv
  OBVIOUS
<1>1. TypeOK
  BY TypeInit
<1>2. /\ \A k \in Keys : rows[k] = NoRow
      /\ \A n \in Nodes : pc[n] = "down"
      /\ \A n \in Nodes : obs[n].gen = 0
      /\ \A n \in Nodes, t \in Tenants : fence[n][t] = 0
      /\ \A t \in Tenants : generation[t] = 0
  BY DEF Init
<1>3. \A n \in Nodes : obs[n].tenant \in Tenants
  BY DEF Init
<1>4. QED
  BY <1>1, <1>2, <1>3
     DEF ProjectionInv, StatusTruthful, GenerationBounds, RowHeldOnce, PassSound,
         FenceSound, WrittenStays, ActiveIsConfigured, NoRow, Exists, Dirty, HoldsRow

LEMMA InvStep == ProjectionInv /\ [Next]_vars => ProjectionInv'
<1> SUFFICES ASSUME ProjectionInv, [Next]_vars PROVE ProjectionInv'
  OBVIOUS
<1>1. CASE Next
  <2>1. TypeOK'
    BY TypeStep DEF ProjectionInv
  <2>2. QED
    BY <1>1, <2>1, StatusStep, BoundsStep, HeldStep, PassStep, FenceStep, WrittenStep,
       ConfiguredStep DEF ProjectionInv
<1>2. CASE UNCHANGED vars
  BY <1>2 DEF vars, ProjectionInv, TypeOK, StatusTruthful, GenerationBounds, RowHeldOnce,
     PassSound, FenceSound, WrittenStays, ActiveIsConfigured, Exists, Dirty, HoldsRow
<1>3. QED BY <1>1, <1>2

\* The inductive invariant holds of every fleet of gateways, whatever the faults.
THEOREM ProjectionInvariant == Spec => []ProjectionInv
<1>1. QED BY InvInit, InvStep, PTL DEF Spec

\* A fence that has reached a generation leaves no key of it unapplied, for every
\* number of gateway processes, keys and tenants (reconcile.go:50-64 with
\* projector.go:57-77).
THEOREM FenceIsSound == Spec => []FenceSound
<1>1. ProjectionInv => FenceSound
  BY DEF ProjectionInv
<1>2. QED BY <1>1, ProjectionInvariant, PTL

\* The status shown to the tenant never claims more than was applied.
THEOREM StatusIsTruthful == Spec => []StatusTruthful
<1>1. ProjectionInv => StatusTruthful
  BY DEF ProjectionInv
<1>2. QED BY <1>1, ProjectionInvariant, PTL

\* A key reported active has its row in the database the resolver reads.
THEOREM ActiveKeysAreConfigured == Spec => []ActiveIsConfigured
<1>1. ProjectionInv => ActiveIsConfigured
  BY DEF ProjectionInv
<1>2. QED BY <1>1, ProjectionInvariant, PTL

-----------------------------------------------------------------------------
(* Any number of processes: what never goes back.                           *)

\* A key that is to be revoked is never to be active again, and one reported
\* revoked is not touched any more: no retry, no late acknowledgement and no
\* failure of another process reopens it (store.go's guards with the row lock).
RevokedForGood ==
  \A k \in Keys :
    /\ Exists(k) /\ rows[k].desired = "revoked" => Exists(k)' /\ rows'[k].desired = "revoked"
    /\ rows[k].status = "revoked" => rows'[k] = rows[k]

\* While a process runs no generation it has reached is left again, although
\* notifications arrive late, repeated and out of order (reconcile.go:50-64).
FencesGoForward ==
  \A n \in Nodes, t \in Tenants : pc'[n] # "down" => fence[n][t] <= fence'[n][t]

\* A pass is about a generation ahead of its process's fence.
PassIsAhead ==
  \A n \in Nodes :
    pc[n] \notin {"down", "idle"} => fence[n][obs[n].tenant] < obs[n].gen

LEMMA RevokedStep ==
  ASSUME ProjectionInv, Next
  PROVE  RevokedForGood
<1> USE DEF ProjectionInv
<1> SUFFICES ASSUME NEW k \in Keys
             PROVE  /\ Exists(k) /\ rows[k].desired = "revoked" =>
                          Exists(k)' /\ rows'[k].desired = "revoked"
                    /\ rows[k].status = "revoked" => rows'[k] = rows[k]
  BY DEF RevokedForGood
<1>1. rows \in [Keys -> Row] /\ rows[k] \in Row
  BY DEF TypeOK
<1>2. CASE Api
  <2>1. PICK j \in Keys : CreateTx(j) \/ RevokeTx(j) \/ RetryTx(j)
    BY <1>2 DEF Api
  <2>2. CASE j # k
    BY <1>1, <2>1, <2>2 DEF CreateTx, RevokeTx, RetryTx, Exists
  <2>3. CASE j = k /\ CreateTx(k)
    BY <1>1, <2>3 DEF CreateTx, Exists
  <2>4. CASE j = k /\ RevokeTx(k)
    BY <1>1, <2>4 DEF RevokeTx, Exists, Row
  <2>5. CASE j = k /\ RetryTx(k)
    BY <1>1, <2>5 DEF RetryTx, Exists, Row
  <2>6. QED BY <2>1, <2>2, <2>3, <2>4, <2>5
<1>3. ASSUME NEW n \in Nodes, NodeStep(n)
      PROVE  /\ Exists(k) /\ rows[k].desired = "revoked" =>
                   Exists(k)' /\ rows'[k].desired = "revoked"
             /\ rows[k].status = "revoked" => rows'[k] = rows[k]
  <2>1. HoldsRow(n, k) => Dirty(k)
    BY DEF RowHeldOnce, HoldsRow
  <2>2. rows[k].status = "revoked" => ~Dirty(k)
    BY <1>1 DEF StatusTruthful, Dirty, Row
  <2>3. QED BY <1>1, <1>3, <2>1, <2>2, NodeRow DEF Exists, Row
<1>4. QED BY <1>2, <1>3 DEF Next, NodeStep

LEMMA AheadStep ==
  ASSUME ProjectionInv, PassIsAhead, Next
  PROVE  PassIsAhead' /\ FencesGoForward
<1> USE DEF ProjectionInv
<1>1. CASE Api
  <2>1. UNCHANGED <<pc, fence, obs>>
    BY <1>1, ApiChanges DEF ApiChange, process
  <2>2. \A n \in Nodes, t \in Tenants : fence[n][t] <= fence[n][t]
    BY DEF TypeOK
  <2>3. QED BY <2>1, <2>2 DEF PassIsAhead, FencesGoForward
<1>2. ASSUME NEW n \in Nodes, NodeStep(n) PROVE PassIsAhead' /\ FencesGoForward
  <2>1. \A m \in Nodes : m # n =>
          pc'[m] = pc[m] /\ obs'[m] = obs[m] /\ fence'[m] = fence[m]
    BY <1>2, NodeLocal
  <2>2. fence[n] \in [Tenants -> Nat] /\ obs[n].tenant \in Tenants /\ obs[n].gen \in Nat
    BY DEF TypeOK
  <2>3. /\ pc'[n] \notin {"down", "idle"} => fence'[n][obs'[n].tenant] < obs'[n].gen
        /\ \A t \in Tenants : pc'[n] # "down" => fence[n][t] <= fence'[n][t]
    <3> USE DEF TypeOK
    <3>1. CASE Start(n)
      BY <2>2, <3>1 DEF Start
    <3>2. CASE Crash(n)
      BY <3>2 DEF Crash
    <3>3. CASE \E t \in Tenants : ObserveSome(n, t)
      BY <2>2, <3>3 DEF ObserveSome, Observe
    <3>4. CASE PassDone(n)
      <4>1. fence'[n] \in {fence[n], [fence[n] EXCEPT ![obs[n].tenant] = obs[n].gen]}
            /\ pc'[n] = "idle" /\ fence[n][obs[n].tenant] < obs[n].gen
        BY <3>4 DEF PassDone, PassIsAhead
      <4>2. ASSUME NEW t \in Tenants PROVE fence[n][t] <= fence'[n][t]
        <5>1. CASE fence'[n] = fence[n]
          BY <2>2, <5>1
        <5>2. CASE fence'[n] = [fence[n] EXCEPT ![obs[n].tenant] = obs[n].gen]
          BY <2>2, <4>1, <5>2
        <5>3. QED BY <4>1, <5>1, <5>2
      <4>3. QED BY <4>1, <4>2
    <3>5. CASE Pass(n) /\ ~PassDone(n)
      <4>1. fence' = fence /\ obs' = obs /\ pc[n] \notin {"down", "idle"}
        BY <3>5 DEF Pass, ReadSnapshot, RestoreUpsert, RestoreHydrate, RestoreDone, ListDirty,
           LockRow, TargetWrite, TargetRuntime, Acknowledge
      <4>2. QED BY <2>2, <4>1 DEF PassIsAhead
    <3>6. CASE Fault(n) /\ ~Crash(n)
      <4>1. fence' = fence /\ obs' = obs /\ pc[n] \notin {"down", "idle"}
        BY <3>6 DEF Fault, PassFails, TargetFails, AcknowledgeFails
      <4>2. QED BY <2>2, <4>1 DEF PassIsAhead
    <3>7. QED BY <1>2, <3>1, <3>2, <3>3, <3>4, <3>5, <3>6 DEF NodeStep
  <2>4. PassIsAhead'
    BY <2>1, <2>3 DEF PassIsAhead
  <2>5. FencesGoForward
    <3> SUFFICES ASSUME NEW m \in Nodes, NEW t \in Tenants, pc'[m] # "down"
                 PROVE  fence[m][t] <= fence'[m][t]
      BY DEF FencesGoForward
    <3>1. fence[m][t] <= fence[m][t]
      BY DEF TypeOK
    <3>2. QED BY <2>1, <2>3, <3>1
  <2>6. QED BY <2>4, <2>5
<1>3. QED BY <1>1, <1>2 DEF Next, NodeStep

\* A revocation is for good in every fleet of gateways: the control plane never
\* takes it back, and no process changes a row reported revoked.
THEOREM RevocationIsKept == Spec => [][RevokedForGood]_vars
<1>1. ProjectionInv /\ [Next]_vars => [RevokedForGood]_vars
  BY RevokedStep
<1>2. QED BY <1>1, ProjectionInvariant, PTL DEF Spec

\* The fence of a running process never goes back, in every fleet of gateways.
THEOREM FencesOnlyAdvance == Spec => [][FencesGoForward]_vars
<1>1. Init => PassIsAhead
  BY DEF Init, PassIsAhead
<1>2. ProjectionInv /\ PassIsAhead /\ [Next]_vars => PassIsAhead' /\ [FencesGoForward]_vars
  <2>1. CASE Next
    BY <2>1, AheadStep
  <2>2. CASE UNCHANGED vars
    BY <2>2 DEF vars, PassIsAhead
  <2>3. QED BY <2>1, <2>2
<1>3. QED BY <1>1, <1>2, ProjectionInvariant, PTL DEF Spec

-----------------------------------------------------------------------------
(* No deletion under a restore: revocation is final.                        *)

\* A key is added to the configuration database only to project one that is to be
\* active: a restore writes what is there.
LEMMA UndisturbedConfig ==
  ASSUME ProjectionInv, UndisturbedInv, NEW n \in Nodes, NodeStep(n)
  PROVE  \/ configDB' = configDB
         \/ /\ pc[n] = "target"
            /\ configDB' = Projected(cur[n], configDB)
            /\ TargetWrite(n) \/ TargetFails(n)
<1>1. CASE RestoreUpsert(n) \/ PassFails(n)
  <2>1. configDB' = configDB \/ \E e \in todo[n] : configDB' = configDB \union {e[1]}
    BY <1>1 DEF RestoreUpsert, PassFails
  <2>2. CASE pc[n] = "restore"
    <3>1. \A e \in todo[n] : configDB \union {e[1]} = configDB
      BY <2>2 DEF UndisturbedInv
    <3>2. QED BY <2>1, <3>1
  <2>3. CASE pc[n] # "restore"
    BY <1>1, <2>3 DEF RestoreUpsert, PassFails
  <2>4. QED BY <2>2, <2>3
<1>2. CASE TargetWrite(n) \/ TargetFails(n)
  BY <1>2 DEF TargetWrite, TargetFails
<1>3. QED
  BY <1>1, <1>2 DEF NodeStep, Start, ObserveSome, Observe, Pass, Fault, ReadSnapshot,
     RestoreHydrate, RestoreDone, ListDirty, LockRow, TargetRuntime, Acknowledge,
     PassDone, Crash, AcknowledgeFails

LEMMA UndisturbedStep ==
  ASSUME NoDeleteUnderRestore, ProjectionInv, UndisturbedInv, Next
  PROVE  UndisturbedInv'
<1> USE DEF ProjectionInv
<1>1. CASE Api
  <2>1. PICK k \in Keys : ApiChange(k)
    BY <1>1, ApiChanges
  <2>2. UNCHANGED <<configDB, pc, cur, todo>>
    BY <2>1 DEF ApiChange, process
  <2>3. rows'[k].status # "revoked" /\ \A j \in Keys : j # k => rows'[j] = rows[j]
    BY <2>1 DEF ApiChange, TypeOK
  <2>4. \A n \in Nodes : pc[n] \in {"runtime", "commit"} => rows'[cur[n]] = rows[cur[n]]
    BY <2>1 DEF ApiChange, Locked, HoldsRow, TypeOK
  <2>5. QED BY <2>2, <2>3, <2>4 DEF UndisturbedInv, RevokedIsGone
<1>2. ASSUME NEW n \in Nodes, NodeStep(n) PROVE UndisturbedInv'
  <2>1. RevokedIsGone'
    <3> SUFFICES ASSUME NEW k \in Keys, rows'[k].status = "revoked"
                 PROVE  k \notin configDB'
      BY DEF RevokedIsGone
    <3>1. CASE rows'[k] = rows[k]
      <4>1. k \notin configDB /\ rows[k].desired = "revoked"
        BY <3>1 DEF UndisturbedInv, RevokedIsGone, StatusTruthful
      <4>2. QED BY <1>2, <4>1, UndisturbedConfig DEF Projected
    <3>2. CASE rows'[k] # rows[k]
      <4>1. pc[n] = "commit" /\ cur[n] = k /\ rows[k].desired = "revoked"
        BY <1>2, <3>2, NodeRow DEF HoldsRow
      <4>2. k \notin configDB
        BY <4>1 DEF UndisturbedInv
      <4>3. QED BY <1>2, <4>1, <4>2, UndisturbedConfig
    <3>3. QED BY <3>1, <3>2
  <2>2. ASSUME pc'[n] \in {"runtime", "commit"}, rows'[cur'[n]].desired = "revoked"
        PROVE  cur'[n] \notin configDB'
    <3>1. rows' = rows
      BY <1>2, <2>2, NodeHolds
    <3>2. \/ TargetWrite(n) /\ cur' = cur
          \/ TargetRuntime(n) /\ cur' = cur /\ configDB' = configDB
      BY <1>2, <2>2
         DEF TypeOK, NodeStep, Start, ObserveSome, Observe, Pass, Fault, ReadSnapshot,
         RestoreUpsert, RestoreHydrate, RestoreDone, ListDirty, LockRow, TargetWrite,
         TargetRuntime, Acknowledge, PassDone, Crash, PassFails, TargetFails,
         AcknowledgeFails
    <3>3. QED
      BY <2>2, <3>1, <3>2 DEF TargetWrite, TargetRuntime, Projected, UndisturbedInv
  <2>3. ASSUME pc'[n] \in {"restore", "hydrate"}, NEW e \in todo'[n]
        PROVE  e[1] \in configDB'
    <3>1. CASE ReadSnapshot(n)
      <4>1. todo'[n] = {<<k, rows[k].desiredGen>> :
                    k \in {j \in Keys : Owner[j] = obs[n].tenant /\ Restorable(j)}}
        BY <3>1 DEF ReadSnapshot, TypeOK
      <4>2. PICK k \in Keys : Restorable(k) /\ e = <<k, rows[k].desiredGen>>
        BY <2>3, <4>1
      <4>3. QED
        BY <3>1, <4>2 DEF ReadSnapshot, Restorable, ActiveIsConfigured
    <3>2. CASE ~ReadSnapshot(n)
      <4>1. pc[n] \in {"restore", "hydrate"} /\ todo'[n] \subseteq todo[n]
        BY <1>2, <2>3, <3>2
           DEF TypeOK, NodeStep, Start, ObserveSome, Observe, Pass, Fault,
           RestoreUpsert, RestoreHydrate, RestoreDone, ListDirty, LockRow, TargetWrite,
           TargetRuntime, Acknowledge, PassDone, Crash, PassFails, TargetFails,
           AcknowledgeFails
      <4>2. configDB' = configDB
        BY <1>2, <4>1, UndisturbedConfig
      <4>3. QED BY <2>3, <4>1, <4>2 DEF UndisturbedInv
    <3>3. QED BY <3>1, <3>2
  <2>4. ASSUME NEW m \in Nodes, m # n, pc'[m] \in {"runtime", "commit"},
               rows'[cur'[m]].desired = "revoked"
        PROVE  cur'[m] \notin configDB'
    <3>1. pc[m] \in {"runtime", "commit"} /\ cur'[m] = cur[m] /\ cur[m] \in Keys
      BY <1>2, <2>4, NodeLocal DEF TypeOK
    <3>2. rows[cur[m]].desired = "revoked"
      BY <1>2, <2>4, <3>1, NodeRow
    <3>3. cur[m] \notin configDB
      BY <3>1, <3>2 DEF UndisturbedInv
    <3>4. pc[n] = "target" => cur[n] # cur[m]
      BY <2>4, <3>1 DEF RowHeldOnce, HoldsRow
    <3>5. QED BY <1>2, <3>1, <3>3, <3>4, UndisturbedConfig DEF Projected
  <2>5. ASSUME NEW m \in Nodes, m # n, pc'[m] \in {"restore", "hydrate"},
               NEW e \in todo'[m]
        PROVE  e[1] \in configDB'
    <3>1. pc[m] \in {"restore", "hydrate"} /\ e \in todo[m]
      BY <1>2, <2>5, NodeLocal
    <3>2. e[1] \in configDB
      BY <3>1 DEF UndisturbedInv
    <3>3. CASE pc[n] = "target" /\ configDB' = Projected(cur[n], configDB)
      <4>1. rows[cur[n]].desired \in {"active", "revoked"}
        BY DEF TypeOK, Row
      <4>2. rows[cur[n]].desired = "revoked" => e[1] # cur[n]
        BY <3>1, <3>3 DEF NoDeleteUnderRestore
      <4>3. QED BY <3>2, <3>3, <4>1, <4>2 DEF Projected
    <3>4. QED BY <1>2, <3>2, <3>3, UndisturbedConfig
  <2>6. QED BY <2>1, <2>2, <2>3, <2>4, <2>5 DEF UndisturbedInv
<1>3. QED BY <1>1, <1>2 DEF Next, NodeStep

LEMMA UndisturbedInit == Init => UndisturbedInv
  BY DEF Init, UndisturbedInv, RevokedIsGone, NoRow

LEMMA UndisturbedInvariant ==
  Spec /\ []NoDeleteUnderRestore => [](ProjectionInv /\ UndisturbedInv)
<1>1. Init => ProjectionInv /\ UndisturbedInv
  BY InvInit, UndisturbedInit
<1>2. NoDeleteUnderRestore /\ ProjectionInv /\ UndisturbedInv /\ [Next]_vars
      => (ProjectionInv /\ UndisturbedInv)'
  <2> SUFFICES ASSUME NoDeleteUnderRestore, ProjectionInv, UndisturbedInv, [Next]_vars
               PROVE  (ProjectionInv /\ UndisturbedInv)'
    OBVIOUS
  <2>1. ProjectionInv'
    BY InvStep
  <2>2. CASE Next
    BY <2>1, <2>2, UndisturbedStep
  <2>3. CASE UNCHANGED vars
    BY <2>1, <2>3 DEF vars, UndisturbedInv, RevokedIsGone
  <2>4. QED BY <2>2, <2>3
<1>3. QED BY <1>1, <1>2, PTL DEF Spec

\* However many gateway processes run, crash and fail together, a key reported
\* revoked is never resolved again, unless one was deleted under another's restore:
\* the window of restoreTenantOnce is the only one (projector.go:83-111).
THEOREM RevocationIsFinal == Spec /\ []NoDeleteUnderRestore => []RevokedIsGone
<1>1. UndisturbedInv => RevokedIsGone
  BY DEF UndisturbedInv
<1>2. QED BY <1>1, UndisturbedInvariant, PTL

-----------------------------------------------------------------------------
(* One gateway process at a time: the fence speaks for the runtime cache.   *)

\* The condition of the results above is met.
LEMMA OneRunningIsApart == OneRunning => NoDeleteUnderRestore
  BY DEF OneRunning, NoDeleteUnderRestore

\* Every other process is down before and after a step of the one that runs.
LEMMA OthersDown ==
  ASSUME TypeOK, OneRunning, OneRunning', NEW n \in Nodes, NodeStep(n),
         NEW m \in Nodes, m # n
  PROVE  pc[m] = "down" /\ pc'[m] = "down"
<1>1. pc'[m] = pc[m]
  BY NodeLocal
<1>2. CASE pc[n] # "down"
  BY <1>1, <1>2 DEF OneRunning
<1>3. CASE pc[n] = "down"
  <2>1. Start(n)
    BY <1>3 DEF NodeStep, ObserveSome, Observe, Pass, Fault, ReadSnapshot, RestoreUpsert,
       RestoreHydrate, RestoreDone, ListDirty, LockRow, TargetWrite, TargetRuntime,
       Acknowledge, PassDone, Crash, PassFails, TargetFails, AcknowledgeFails
  <2>2. pc'[n] = "idle"
    BY <2>1 DEF Start, TypeOK
  <2>3. QED BY <1>1, <2>2 DEF OneRunning
<1>4. QED BY <1>2, <1>3

\* A change of the control plane leaves the key neither active nor revoked, so it
\* asks nothing of any cache.
LEMMA CacheApi ==
  ASSUME ProjectionInv, SoleCacheInv, Api
  PROVE  SoleCacheInv'
<1> USE DEF ProjectionInv
<1>1. PICK k \in Keys : ApiChange(k)
  BY ApiChanges
<1>2. UNCHANGED <<cache, fence, restored, pc, obs, todo, cur>>
  BY <1>1 DEF ApiChange, process
<1>3. /\ rows'[k].status \notin {"active", "revoked"}
      /\ \A j \in Keys : j # k => rows'[j] = rows[j]
  BY <1>1 DEF ApiChange, TypeOK
<1>4. rows'[k].desiredGen > 0
  <2>1. generation[Owner[k]] \in Nat
    BY OwnerAssumption DEF TypeOK
  <2>2. QED BY <1>1, <2>1 DEF ApiChange
<1>5. FenceIsRestored'
  BY <1>2, <1>3, <1>4 DEF SoleCacheInv, FenceIsRestored, Exists
<1>6. CacheHolds'
  BY <1>2, <1>3 DEF SoleCacheInv, CacheHolds
<1>7. CacheLacks'
  BY <1>2, <1>3 DEF SoleCacheInv, CacheLacks
<1>8. \A n \in Nodes : pc[n] = "commit" => rows'[cur[n]] = rows[cur[n]]
  BY <1>1 DEF ApiChange, Locked, HoldsRow, TypeOK
<1>9. CommitIsCached'
  BY <1>2, <1>8 DEF SoleCacheInv, CommitIsCached
<1>10. QED BY <1>5, <1>6, <1>7, <1>9 DEF SoleCacheInv

LEMMA FenceRestoredStep ==
  ASSUME ProjectionInv, SoleCacheInv, NEW n \in Nodes, NodeStep(n)
  PROVE  FenceIsRestored'
<1> USE DEF ProjectionInv
<1>1. ASSUME NEW k \in Keys, Exists(k)'
      PROVE  rows'[k].desiredGen > 0
  <2>1. HoldsRow(n, k) => Exists(k)
    BY DEF HoldsRow, RowHeldOnce, Dirty
  <2>2. Exists(k)
    BY <1>1, <2>1, NodeRow DEF Exists
  <2>3. QED BY <2>2, NodeRow DEF SoleCacheInv, FenceIsRestored
<1>2. /\ \A t \in Tenants : fence'[n][t] > 0 => t \in restored'[n]
      /\ pc'[n] = "down" => restored'[n] = {} /\ cache'[n] = {}
      /\ pc'[n] \in {"list", "project", "target", "runtime", "commit"} =>
           obs'[n].tenant \in restored'[n]
  <2> USE DEF TypeOK, SoleCacheInv, FenceIsRestored
  <2>1. CASE \E t \in Tenants : ObserveSome(n, t)
    BY <2>1 DEF ObserveSome, Observe
  <2>2. CASE RestoreDone(n)
    BY <2>2 DEF RestoreDone
  <2>3. CASE PassDone(n)
    BY <2>3 DEF PassDone
  <2>4. CASE Crash(n)
    BY <2>4 DEF Crash
  <2>5. CASE Start(n)
    BY <2>5 DEF Start
  <2>6. CASE Pass(n) /\ ~PassDone(n) /\ ~RestoreDone(n)
    BY <2>6 DEF Pass, ReadSnapshot, RestoreUpsert, RestoreHydrate, ListDirty, LockRow,
       TargetWrite, TargetRuntime, Acknowledge
  <2>7. CASE Fault(n) /\ ~Crash(n)
    BY <2>7 DEF Fault, PassFails, TargetFails, AcknowledgeFails
  <2>8. QED BY <2>1, <2>2, <2>3, <2>4, <2>5, <2>6, <2>7 DEF NodeStep
<1>3. ASSUME NEW m \in Nodes, m # n
      PROVE  /\ \A t \in Tenants : fence'[m][t] > 0 => t \in restored'[m]
             /\ pc'[m] = "down" => restored'[m] = {} /\ cache'[m] = {}
             /\ pc'[m] \in {"list", "project", "target", "runtime", "commit"} =>
                  obs'[m].tenant \in restored'[m]
  <2>1. /\ pc'[m] = pc[m] /\ obs'[m] = obs[m] /\ fence'[m] = fence[m]
        /\ restored'[m] = restored[m] /\ cache'[m] = cache[m]
    BY <1>3, NodeLocal
  <2>2. QED BY <2>1 DEF SoleCacheInv, FenceIsRestored
<1>4. QED BY <1>1, <1>2, <1>3 DEF FenceIsRestored

\* A row held is dirty, so it is shown neither as active nor as revoked.
LEMMA HeldIsUntold ==
  ASSUME ProjectionInv, NEW n \in Nodes, pc[n] \in {"target", "runtime", "commit"}
  PROVE  rows[cur[n]].status \notin {"active", "revoked"}
<1>1. Dirty(cur[n]) /\ cur[n] \in Keys /\ rows[cur[n]] \in Row
  BY DEF ProjectionInv, RowHeldOnce, TypeOK
<1>2. QED BY <1>1 DEF ProjectionInv, StatusTruthful, Dirty, Row

\* A row becomes active or revoked when the process that holds it acknowledges it.
LEMMA BecomesTold ==
  ASSUME ProjectionInv, NEW n \in Nodes, NodeStep(n), NEW k \in Keys,
         rows'[k].status \in {"active", "revoked"}
  PROVE  \/ rows'[k].status = rows[k].status
         \/ /\ pc[n] = "commit" /\ cur[n] = k /\ rows'[k].status = rows[k].desired
            /\ pc'[n] = "project"
            /\ Acknowledge(n) \/ AcknowledgeFails(n)
<1>1. CASE rows'[k] = rows[k]
  BY <1>1
<1>2. CASE rows'[k] # rows[k]
  <2>1. /\ pc[n] = "commit" /\ cur[n] = k /\ rows'[k].status = rows[k].desired
        /\ pc'[n] = "project"
    BY <1>2, NodeRow DEF HoldsRow
  <2>2. Acknowledge(n) \/ AcknowledgeFails(n) \/ Crash(n)
    BY <2>1 DEF NodeStep, Start, ObserveSome, Observe, Pass, Fault, ReadSnapshot,
       RestoreUpsert, RestoreHydrate, RestoreDone, ListDirty, LockRow, TargetWrite,
       TargetRuntime, PassDone, PassFails, TargetFails
  <2>3. QED BY <1>2, <2>1, <2>2 DEF Crash, control
<1>3. QED BY <1>1, <1>2

LEMMA CacheHoldsStep ==
  ASSUME OneRunning, OneRunning', ProjectionInv, SoleCacheInv,
         NEW n \in Nodes, NodeStep(n)
  PROVE  CacheHolds'
<1> USE DEF ProjectionInv
<1>1. \A m \in Nodes : m # n => pc'[m] = "down" /\ restored'[m] = {} /\ cache'[m] = {}
  BY OthersDown, FenceRestoredStep DEF FenceIsRestored
<1> SUFFICES ASSUME NEW k \in Keys, rows'[k].status = "active"
             PROVE  /\ Owner[k] \in restored'[n] => k \in cache'[n]
                    /\ pc'[n] \in {"restore", "hydrate"} /\ Owner[k] = obs'[n].tenant =>
                         \/ k \in cache'[n]
                         \/ \E e \in todo'[n] : e[1] = k
                         \/ pc'[n] = "hydrate" /\ cur'[n] = k
  BY <1>1 DEF CacheHolds
<1>2. CASE rows[k].status # "active"
  <2>1. /\ pc[n] = "commit" /\ cur[n] = k /\ rows[k].desired = "active"
        /\ pc'[n] = "project"
        /\ Acknowledge(n) \/ AcknowledgeFails(n)
    BY <1>2, BecomesTold
  <2>2. k \in cache[n] /\ cache' = cache
    BY <2>1 DEF SoleCacheInv, CommitIsCached, Acknowledge, AcknowledgeFails
  <2>3. QED BY <2>1, <2>2
<1>3. CASE rows[k].status = "active"
  <2> USE DEF TypeOK
  <2>1. /\ Owner[k] \in restored[n] => k \in cache[n]
        /\ pc[n] \in {"restore", "hydrate"} /\ Owner[k] = obs[n].tenant =>
             \/ k \in cache[n]
             \/ \E e \in todo[n] : e[1] = k
             \/ pc[n] = "hydrate" /\ cur[n] = k
    BY <1>3 DEF SoleCacheInv, CacheHolds
  <2>2. CASE Start(n)
    BY <2>2 DEF Start, SoleCacheInv, FenceIsRestored
  <2>3. CASE Crash(n)
    BY <2>3 DEF Crash
  <2>4. CASE \E t \in Tenants : ObserveSome(n, t)
    BY <2>1, <2>4 DEF ObserveSome, Observe
  <2>5. CASE ReadSnapshot(n)
    <3>1. todo'[n] = {<<j, rows[j].desiredGen>> :
                  j \in {i \in Keys : Owner[i] = obs[n].tenant /\ Restorable(i)}}
      BY <2>5 DEF ReadSnapshot
    <3>2. Restorable(k)
      BY <1>3 DEF Restorable, Exists, StatusTruthful
    <3>3. Owner[k] = obs[n].tenant => <<k, rows[k].desiredGen>> \in todo'[n]
      BY <3>1, <3>2
    <3>4. Owner[k] = obs[n].tenant => \E e \in todo'[n] : e[1] = k
      BY <3>3
    <3>5. UNCHANGED <<cache, restored, obs>>
      BY <2>5 DEF ReadSnapshot
    <3>6. QED BY <2>1, <3>4, <3>5
  <2>6. CASE RestoreUpsert(n)
    BY <2>1, <2>6 DEF RestoreUpsert
  <2>7. CASE RestoreHydrate(n)
    BY <2>1, <2>7 DEF RestoreHydrate
  <2>8. CASE RestoreDone(n)
    BY <2>1, <2>8 DEF RestoreDone
  <2>9. CASE TargetRuntime(n)
    <3>1. k # cur[n]
      BY <1>3, <2>9, HeldIsUntold DEF TargetRuntime
    <3>2. QED BY <2>1, <2>9, <3>1 DEF TargetRuntime, Projected
  <2>10. CASE ListDirty(n) \/ LockRow(n) \/ TargetWrite(n) \/ Acknowledge(n) \/ PassDone(n)
    BY <2>1, <2>10 DEF ListDirty, LockRow, TargetWrite, Acknowledge, PassDone
  <2>11. CASE PassFails(n) \/ TargetFails(n) \/ AcknowledgeFails(n)
    BY <2>1, <2>11 DEF PassFails, TargetFails, AcknowledgeFails
  <2>12. QED
    BY <2>2, <2>3, <2>4, <2>5, <2>6, <2>7, <2>8, <2>9, <2>10, <2>11
       DEF NodeStep, Pass, Fault
<1>4. QED BY <1>2, <1>3

LEMMA CacheLacksStep ==
  ASSUME OneRunning, OneRunning', ProjectionInv, UndisturbedInv, SoleCacheInv,
         NEW n \in Nodes, NodeStep(n)
  PROVE  CacheLacks'
<1> USE DEF ProjectionInv
<1>1. \A m \in Nodes : m # n => pc'[m] = "down" /\ restored'[m] = {} /\ cache'[m] = {}
  BY OthersDown, FenceRestoredStep DEF FenceIsRestored
<1> SUFFICES ASSUME NEW k \in Keys, rows'[k].status = "revoked"
             PROVE  /\ k \notin cache'[n]
                    /\ pc'[n] \in {"restore", "hydrate"} => \A e \in todo'[n] : e[1] # k
                    /\ pc'[n] = "hydrate" => cur'[n] # k
  BY <1>1 DEF CacheLacks
<1>2. CASE rows[k].status # "revoked"
  <2>1. /\ pc[n] = "commit" /\ cur[n] = k /\ rows[k].desired = "revoked"
        /\ pc'[n] = "project"
        /\ Acknowledge(n) \/ AcknowledgeFails(n)
    BY <1>2, BecomesTold
  <2>2. k \notin cache[n] /\ cache' = cache
    BY <2>1 DEF SoleCacheInv, CommitIsCached, Acknowledge, AcknowledgeFails
  <2>3. QED BY <2>1, <2>2
<1>3. CASE rows[k].status = "revoked"
  <2> USE DEF TypeOK
  <2>1. /\ k \notin cache[n]
        /\ pc[n] \in {"restore", "hydrate"} => \A e \in todo[n] : e[1] # k
        /\ pc[n] = "hydrate" => cur[n] # k
    BY <1>3 DEF SoleCacheInv, CacheLacks
  <2>2. CASE Start(n)
    <3>1. k \notin configDB
      BY <1>3 DEF UndisturbedInv, RevokedIsGone
    <3>2. QED BY <2>2, <3>1 DEF Start
  <2>3. CASE Crash(n)
    BY <2>3 DEF Crash
  <2>4. CASE \E t \in Tenants : ObserveSome(n, t)
    BY <2>1, <2>4 DEF ObserveSome, Observe
  <2>5. CASE ReadSnapshot(n)
    <3>1. todo'[n] = {<<j, rows[j].desiredGen>> :
                  j \in {i \in Keys : Owner[i] = obs[n].tenant /\ Restorable(i)}}
      BY <2>5 DEF ReadSnapshot
    <3>2. \A e \in todo'[n] : e[1] # k
      BY <1>3, <3>1 DEF Restorable
    <3>3. QED BY <2>1, <2>5, <3>2 DEF ReadSnapshot
  <2>6. CASE RestoreUpsert(n)
    BY <2>1, <2>6 DEF RestoreUpsert
  <2>7. CASE RestoreHydrate(n)
    BY <2>1, <2>7 DEF RestoreHydrate
  <2>8. CASE RestoreDone(n)
    BY <2>1, <2>8 DEF RestoreDone
  <2>9. CASE TargetRuntime(n)
    <3>1. k # cur[n]
      BY <1>3, <2>9, HeldIsUntold DEF TargetRuntime
    <3>2. QED BY <2>1, <2>9, <3>1 DEF TargetRuntime, Projected
  <2>10. CASE ListDirty(n) \/ LockRow(n) \/ TargetWrite(n) \/ Acknowledge(n) \/ PassDone(n)
    BY <2>1, <2>10 DEF ListDirty, LockRow, TargetWrite, Acknowledge, PassDone
  <2>11. CASE PassFails(n) \/ TargetFails(n) \/ AcknowledgeFails(n)
    BY <2>1, <2>11 DEF PassFails, TargetFails, AcknowledgeFails
  <2>12. QED
    BY <2>2, <2>3, <2>4, <2>5, <2>6, <2>7, <2>8, <2>9, <2>10, <2>11
       DEF NodeStep, Pass, Fault
<1>4. QED BY <1>2, <1>3

LEMMA CommitCachedStep ==
  ASSUME OneRunning, OneRunning', ProjectionInv, NEW n \in Nodes, NodeStep(n)
  PROVE  CommitIsCached'
<1> USE DEF ProjectionInv
<1>1. \A m \in Nodes : m # n => pc'[m] = "down"
  BY OthersDown
<1> SUFFICES ASSUME pc'[n] = "commit"
             PROVE  cur'[n] \in cache'[n] <=> rows'[cur'[n]].desired = "active"
  BY <1>1 DEF CommitIsCached
<1>2. TargetRuntime(n)
  BY DEF TypeOK, NodeStep, Start, ObserveSome, Observe, Pass, Fault, ReadSnapshot,
     RestoreUpsert, RestoreHydrate, RestoreDone, ListDirty, LockRow, TargetWrite,
     Acknowledge, PassDone, Crash, PassFails, TargetFails, AcknowledgeFails
<1>3. rows' = rows /\ cur' = cur /\ cache'[n] = Projected(cur[n], cache[n])
  BY <1>2 DEF TargetRuntime, control, TypeOK
<1>4. QED BY <1>3 DEF Projected

LEMMA CacheInit == Init => SoleCacheInv
  BY DEF Init, SoleCacheInv, FenceIsRestored, CacheHolds, CacheLacks, CommitIsCached,
     Exists, NoRow

\* While one gateway process runs at a time, one whose fence has passed a key's
\* last change holds that change in its runtime cache: the restored snapshot and
\* the dirty keys of the pass together miss nothing, through any crashes,
\* failovers and failures (projector.go:57-77; with two processes that run
\* together this is finding 1).
THEOREM CacheCatchesUp == Spec /\ []OneRunning => []CaughtUpCache
<1>1. /\ OneRunning /\ OneRunning'
      /\ UndisturbedInv /\ ProjectionInv /\ SoleCacheInv /\ [Next]_vars
      => SoleCacheInv'
  <2> SUFFICES ASSUME OneRunning, OneRunning', UndisturbedInv, ProjectionInv, SoleCacheInv,
                      [Next]_vars
               PROVE  SoleCacheInv'
    OBVIOUS
  <2>1. CASE Api
    BY <2>1, CacheApi
  <2>2. ASSUME NEW n \in Nodes, NodeStep(n) PROVE SoleCacheInv'
    BY <2>2, FenceRestoredStep, CacheHoldsStep, CacheLacksStep, CommitCachedStep
       DEF SoleCacheInv
  <2>3. CASE UNCHANGED vars
    BY <2>3 DEF vars, SoleCacheInv, FenceIsRestored, CacheHolds, CacheLacks,
       CommitIsCached, Exists
  <2>4. QED BY <2>1, <2>2, <2>3 DEF Next, NodeStep
<1>2. ProjectionInv /\ SoleCacheInv => CaughtUpCache
  <2> SUFFICES ASSUME ProjectionInv, SoleCacheInv, NEW n \in Nodes, NEW k \in Keys,
                      Exists(k), rows[k].desiredGen <= fence[n][Owner[k]]
               PROVE  k \in cache[n] <=> rows[k].desired = "active"
    BY DEF CaughtUpCache
  <2>1. rows[k] \in Row /\ Owner[k] \in Tenants /\ fence[n][Owner[k]] \in Nat
    BY OwnerAssumption DEF ProjectionInv, TypeOK
  <2>2. rows[k].appliedGen = rows[k].desiredGen
    BY DEF ProjectionInv, FenceSound
  <2>3. rows[k].status \in {"active", "revoked"} /\ rows[k].status = rows[k].desired
    BY <2>1, <2>2 DEF ProjectionInv, StatusTruthful, Row, Statuses, Exists
  <2>4. Owner[k] \in restored[n]
    BY <2>1 DEF SoleCacheInv, FenceIsRestored, Row
  <2>5. QED BY <2>3, <2>4 DEF SoleCacheInv, CacheHolds, CacheLacks
<1>3. QED BY <1>1, <1>2, CacheInit, OneRunningIsApart, UndisturbedInvariant, PTL DEF Spec

-----------------------------------------------------------------------------
(* Gateways that do not delete under a restore implement KeyAccess.         *)

\* Dirty rows are told nothing, so losing or repeating a write changes nothing
\* the tenant was told.
LEMMA StepSimulates ==
  ASSUME ProjectionInv, UndisturbedInv, [Next]_vars
  PROVE  [Access!Next]_(Access!vars)
<1> USE DEF ProjectionInv
<1>1. CASE Api
  <2>1. PICK k \in Keys : CreateTx(k) \/ RevokeTx(k) \/ RetryTx(k)
    BY <1>1 DEF Api
  <2>2. rows \in [Keys -> Row] /\ rows[k] \in Row
    BY DEF TypeOK
  <2>3. CASE CreateTx(k)
    <3>1. configDB' = configDB /\ ~Exists(k)
      BY <2>3 DEF CreateTx
    <3>2. Wanted' = [Wanted EXCEPT ![k] = "active"] /\ Wanted[k] = "none"
      BY <2>2, <2>3 DEF CreateTx, Wanted, Exists
    <3>3. Told' = Told
      BY <2>2, <2>3 DEF CreateTx, Told, Exists
    <3>4. Access!Request(k)
      BY <3>1, <3>2, <3>3 DEF Access!Request
    <3>5. QED BY <3>4 DEF Access!Next
  <2>4. CASE RevokeTx(k)
    <3>1. /\ configDB' = configDB /\ Exists(k)
          /\ rows' = [rows EXCEPT ![k] = rows'[k]]
          /\ rows'[k].status = "revoking" /\ rows'[k].desired = "revoked"
      BY <2>2, <2>4 DEF RevokeTx, Row
    <3>2. Wanted' = [Wanted EXCEPT ![k] = "revoked"] /\ Wanted[k] = rows[k].desired
      BY <2>2, <3>1 DEF Wanted, Exists
    <3>3. Told' = [Told EXCEPT ![k] = "unknown"]
      BY <2>2, <3>1 DEF Told
    <3>4. CASE rows[k].desired = "active"
      BY <3>1, <3>2, <3>3, <3>4 DEF Access!Next, Access!Withdraw
    <3>5. CASE rows[k].desired = "revoked"
      <4>1. Told[k] = "unknown"
        BY <2>4, <3>5 DEF RevokeTx, Told, StatusTruthful
      <4>2. Wanted' = Wanted
        BY <3>2, <3>5 DEF Wanted
      <4>3. Told' = Told
        BY <3>3, <4>1 DEF Told
      <4>4. QED BY <3>1, <4>2, <4>3 DEF Access!vars
    <3>6. QED BY <2>2, <3>4, <3>5 DEF Row
  <2>5. CASE RetryTx(k)
    <3>1. /\ configDB' = configDB /\ Exists(k) /\ rows[k].status = "failed"
          /\ rows' = [rows EXCEPT ![k] = rows'[k]]
          /\ rows'[k].status \in {"pending", "revoking"}
          /\ rows'[k].desired = rows[k].desired
      BY <2>2, <2>5 DEF RetryTx, Row, Exists
    <3>2. Wanted' = Wanted /\ Told' = Told
      BY <2>2, <3>1 DEF Wanted, Told, Exists
    <3>3. QED BY <3>1, <3>2 DEF Access!vars
  <2>6. QED BY <2>1, <2>3, <2>4, <2>5
<1>2. ASSUME NEW n \in Nodes, NodeStep(n) PROVE [Access!Next]_(Access!vars)
  <2>1. cur[n] \in Keys /\ rows \in [Keys -> Row] /\ rows[cur[n]] \in Row
    BY DEF TypeOK
  <2>2. Wanted' = Wanted
    <3>1. \A k \in Keys : HoldsRow(n, k) => Dirty(k)
      BY DEF RowHeldOnce, HoldsRow
    <3>2. \A k \in Keys : Exists(k)' = Exists(k) /\ rows'[k].desired = rows[k].desired
      <4> SUFFICES ASSUME NEW k \in Keys
                   PROVE  Exists(k)' = Exists(k) /\ rows'[k].desired = rows[k].desired
        OBVIOUS
      <4>1. rows[k].desired # "absent"
        BY DEF TypeOK, Row
      <4>2. QED BY <1>2, <3>1, <4>1, NodeRow DEF Dirty, Exists
    <3>3. QED BY <3>2 DEF Wanted
  <2>3. CASE pc[n] # "commit"
    <3>1. Told' = Told
      <4>1. \A k \in Keys : HoldsRow(n, k) => rows[k].status \notin {"active", "revoked"}
        <5> SUFFICES ASSUME NEW k \in Keys, HoldsRow(n, k)
                     PROVE  rows[k].status \notin {"active", "revoked"}
          OBVIOUS
        <5>1. Dirty(k) /\ rows[k] \in Row
          BY DEF RowHeldOnce, HoldsRow, TypeOK
        <5>2. QED BY <5>1 DEF Dirty, StatusTruthful, Row
      <4>2. \A k \in Keys : \/ rows'[k] = rows[k]
                            \/ HoldsRow(n, k) /\ rows'[k].status = "failed"
        BY <1>2, <2>3, NodeRow
      <4>3. QED BY <4>1, <4>2 DEF Told
    <3>2. CASE configDB' = configDB
      BY <2>2, <3>1, <3>2 DEF Access!vars
    <3>3. CASE pc[n] = "target" /\ configDB' = Projected(cur[n], configDB)
      <4>1. Wanted[cur[n]] = rows[cur[n]].desired
        BY <2>1, <3>3 DEF RowHeldOnce, Dirty, Wanted
      <4>2. Access!Grant(cur[n]) \/ Access!Cut(cur[n])
        BY <2>1, <2>2, <3>1, <3>3, <4>1 DEF Projected, Access!Grant, Access!Cut, Row
      <4>3. QED BY <2>1, <4>2 DEF Access!Next
    <3>4. QED BY <1>2, <3>2, <3>3, UndisturbedConfig
  <2>4. CASE pc[n] = "commit"
    <3>1. configDB' = configDB
      BY <1>2, <2>4, UndisturbedConfig
    <3>2. Exists(cur[n]) /\ Wanted[cur[n]] = rows[cur[n]].desired
      BY <2>1, <2>4 DEF RowHeldOnce, Dirty, Wanted
    <3>3. cur[n] \in configDB <=> Wanted[cur[n]] = "active"
      BY <2>1, <2>4, <3>2 DEF WrittenStays, UndisturbedInv, Row
    <3>4. CASE rows' = rows
      <4>1. Told' = Told
        BY <3>4 DEF Told
      <4>2. QED BY <2>2, <3>1, <4>1 DEF Access!vars
    <3>5. CASE rows' = [rows EXCEPT ![cur[n]] = Acknowledged(@)]
      <4>1. rows'[cur[n]].status = rows[cur[n]].desired
        BY <2>1, <3>5, RowFields
      <4>2. Told' = [Told EXCEPT ![cur[n]] = Wanted[cur[n]]]
        BY <2>1, <3>2, <3>5, <4>1 DEF Told, Row
      <4>3. Wanted[cur[n]] # "none"
        BY <2>1, <3>2 DEF Row
      <4>4. Access!Tell(cur[n])
        BY <2>2, <3>1, <3>3, <4>2, <4>3 DEF Access!Tell
      <4>5. QED BY <2>1, <4>4 DEF Access!Next
    <3>6. QED BY <1>2, <2>4, <3>4, <3>5, NodeRows
  <2>5. QED BY <2>3, <2>4
<1>3. CASE UNCHANGED vars
  BY <1>3 DEF vars, Access!vars, Wanted, Told, Exists
<1>4. QED BY <1>1, <1>2, <1>3 DEF Next, NodeStep

\* Gateways that run together implement KeyAccess as long as none deletes a key
\* under another's restore: every step of any of them is a step of the promise or
\* changes nothing the tenant can see.
THEOREM PromiseIsKept == Spec /\ []NoDeleteUnderRestore => KeepsPromise
<1>1. Init => Access!Init
  BY DEF Init, Access!Init, Wanted, Told, Exists, NoRow
<1>2. ProjectionInv /\ UndisturbedInv /\ [Next]_vars => [Access!Next]_(Access!vars)
  BY StepSimulates
<1>3. QED BY <1>1, <1>2, UndisturbedInvariant, PTL DEF Spec, KeepsPromise, Access!Spec

\* In particular when one process runs at a time, through any crashes and
\* failovers: then there is nobody to delete under a restore.
THEOREM OneGatewayKeepsPromise == Spec /\ []OneRunning => []RevokedIsGone /\ KeepsPromise
  BY OneRunningIsApart, RevocationIsFinal, PromiseIsKept, PTL

=============================================================================
