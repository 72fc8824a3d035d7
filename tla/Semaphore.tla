------------------------------ MODULE Semaphore ------------------------------
(***************************************************************************)
(* The cluster-wide expiring semaphore (internal/fairness/semaphore.go) as *)
(* the tenantusage plugin uses it.                                         *)
(*                                                                         *)
(* A granted attempt is a member of two sorted sets, its tenant's and its  *)
(* provider's, scored with the expiry its client computed, and owns a      *)
(* lease key that Redis expires.  Each script runs atomically.  A keeper   *)
(* goroutine renews the lease every third of the TTL until PostLLMHook     *)
(* stops it and releases the lease.                                        *)
(*                                                                         *)
(* Time is discrete.  Redis counts `now'; the client of attempt a reads    *)
(* now + Skew[a].  Timers are punctual and messages take less than a tick: *)
(* time does not pass a renewal that is due, so a missed one is a fault.   *)
(***************************************************************************)
EXTENDS Naturals, FiniteSets

CONSTANTS Attempts,
          TenantOf, ProviderOf,       \* of each attempt
          TenantLimit, ProviderLimit, \* 0 for none
          Skew,                       \* the clock of each attempt's gateway
          TTL, Interval,              \* the lease and its renewal period, TTL/3
          MaxTime,                    \* bound: the clock
          MaxFaults                   \* bound: failed or unanswered Redis calls

ASSUME SemaphoreAssumption ==
  /\ {TenantLimit, ProviderLimit, TTL, Interval, MaxTime, MaxFaults} \subseteq Nat
  /\ 0 < Interval /\ Interval < TTL /\ 0 < MaxTime
  /\ Skew \in [Attempts -> Nat]
  /\ DOMAIN TenantOf = Attempts /\ DOMAIN ProviderOf = Attempts

VARIABLES
  now,      \* Redis's clock
  tenantZ,  \* score in the tenant's sorted set, 0 for no member
  provZ,    \* score in the provider's sorted set, 0 for no member
  lease,    \* expiry of the lease key, 0 for no key
  stage,    \* of the attempt
  keeper,   \* the renewal goroutine runs
  due,      \* when it renews next
  sent,     \* a renewal on its way: the client time it carries, 0 for none
  ended,    \* history: when the attempt stopped needing its slot
  faults

zsets == <<tenantZ, provZ, lease>>
vars == <<now, tenantZ, provZ, lease, stage, keeper, due, sent, ended, faults>>

Stages == {"new", "running", "settled", "released", "refused", "dead"}

TypeOK ==
  /\ now \in 1 .. MaxTime
  /\ tenantZ \in [Attempts -> Nat]
  /\ provZ \in [Attempts -> Nat]
  /\ lease \in [Attempts -> Nat]
  /\ stage \in [Attempts -> Stages]
  /\ keeper \in [Attempts -> BOOLEAN]
  /\ due \in [Attempts -> Nat]
  /\ sent \in [Attempts -> Nat]
  /\ ended \in [Attempts -> Nat]
  /\ faults \in 0 .. MaxFaults

Zero == [a \in Attempts |-> 0]

Init ==
  /\ now = 1
  /\ tenantZ = Zero /\ provZ = Zero /\ lease = Zero
  /\ stage = [a \in Attempts |-> "new"]
  /\ keeper = [a \in Attempts |-> FALSE]
  /\ due = Zero /\ sent = Zero /\ ended = Zero
  /\ faults = 0

Clock(a) == now + Skew[a]
Fault == faults < MaxFaults /\ faults' = faults + 1

\* Redis keeps a key through the instant of its expiry.
LeaseExists(a) == lease[a] # 0 /\ now <= lease[a]

-----------------------------------------------------------------------------
(* acquireScript.                                                           *)

\* ZREMRANGEBYSCORE key -inf t on the set of a's tenant, or of its provider.
Purge(z, group, a, t) ==
  [b \in Attempts |-> IF group[b] = group[a] /\ z[b] <= t THEN 0 ELSE z[b]]

\* ZCARD of the set a belongs to.
Members(z, group, a) == Cardinality({b \in Attempts : group[b] = group[a] /\ z[b] # 0})

HasRoom(z, group, a, limit) == limit = 0 \/ Members(z, group, a) < limit

\* Mutant: the provider's limit is not looked at.
RoomForTenant(tz, pz, a) == HasRoom(tz, TenantOf, a, TenantLimit)

Room(tz, pz, a) ==
  /\ HasRoom(tz, TenantOf, a, TenantLimit)
  /\ HasRoom(pz, ProviderOf, a, ProviderLimit)

\* The script's effect: granted or not, what has expired is removed.
AcquireScript(a, granted) ==
  LET tz == Purge(tenantZ, TenantOf, a, Clock(a))
      pz == Purge(provZ, ProviderOf, a, Clock(a))
  IN  /\ granted = Room(tz, pz, a)
      /\ tenantZ' = IF granted THEN [tz EXCEPT ![a] = Clock(a) + TTL] ELSE tz
      /\ provZ' = IF granted THEN [pz EXCEPT ![a] = Clock(a) + TTL] ELSE pz
      /\ lease' = IF granted THEN [lease EXCEPT ![a] = now + TTL] ELSE lease

\* Acquire in PreLLMHook; a grant starts the keeper.
Acquire(a) ==
  /\ stage[a] = "new"
  /\ \E granted \in BOOLEAN :
       /\ AcquireScript(a, granted)
       /\ stage' = [stage EXCEPT ![a] = IF granted THEN "running" ELSE "refused"]
       /\ keeper' = [keeper EXCEPT ![a] = granted]
       /\ due' = [due EXCEPT ![a] = IF granted THEN now + Interval ELSE 0]
  /\ UNCHANGED <<now, sent, ended, faults>>

\* The script ran and its reply was lost: the request fails, the slot is taken.
AcquireUnanswered(a) ==
  /\ stage[a] = "new"
  /\ Fault
  /\ \E granted \in BOOLEAN : AcquireScript(a, granted)
  /\ stage' = [stage EXCEPT ![a] = "refused"]
  /\ ended' = [ended EXCEPT ![a] = now]
  /\ UNCHANGED <<now, keeper, due, sent>>

-----------------------------------------------------------------------------
(* keepLeaseAlive and renewScript.                                          *)

\* Mutant: the lifetime is taken from the time instead of added to it.
RenewSendBackdated(a) ==
  /\ keeper[a] /\ due[a] <= now /\ sent[a] = 0
  /\ sent' = [sent EXCEPT ![a] = Clock(a) - TTL]
  /\ due' = [due EXCEPT ![a] = now + Interval]
  /\ UNCHANGED <<now, zsets, stage, keeper, ended, faults>>

RenewSend(a) ==
  /\ keeper[a] /\ due[a] <= now /\ sent[a] = 0
  /\ sent' = [sent EXCEPT ![a] = Clock(a)]
  /\ due' = [due EXCEPT ![a] = now + Interval]
  /\ UNCHANGED <<now, zsets, stage, keeper, ended, faults>>

\* Mutant: the lease key is not looked up.
RenewScriptAlways(a) ==
  /\ tenantZ' = [tenantZ EXCEPT ![a] = sent[a] + TTL]
  /\ provZ' = [provZ EXCEPT ![a] = sent[a] + TTL]
  /\ lease' = [lease EXCEPT ![a] = now + TTL]

\* Mutant: only the tenant's set is refreshed.
RenewScriptTenantOnly(a) ==
  IF LeaseExists(a)
    THEN /\ tenantZ' = [tenantZ EXCEPT ![a] = sent[a] + TTL]
         /\ lease' = [lease EXCEPT ![a] = now + TTL]
         /\ UNCHANGED provZ
    ELSE UNCHANGED zsets

\* The script's effect: nothing once the lease key is gone.
RenewScript(a) ==
  IF LeaseExists(a)
    THEN /\ tenantZ' = [tenantZ EXCEPT ![a] = sent[a] + TTL]
         /\ provZ' = [provZ EXCEPT ![a] = sent[a] + TTL]
         /\ lease' = [lease EXCEPT ![a] = now + TTL]
    ELSE UNCHANGED zsets

\* ErrLeaseExpired ends the keeper.
RenewRun(a) ==
  /\ sent[a] # 0
  /\ RenewScript(a)
  /\ keeper' = [keeper EXCEPT ![a] = @ /\ LeaseExists(a)]
  /\ sent' = [sent EXCEPT ![a] = 0]
  /\ UNCHANGED <<now, stage, due, ended, faults>>

\* Any other error keeps it going; the script may have run unseen.
RenewFails(a) ==
  /\ sent[a] # 0
  /\ Fault
  /\ RenewScript(a) \/ UNCHANGED zsets
  /\ sent' = [sent EXCEPT ![a] = 0]
  /\ UNCHANGED <<now, stage, keeper, due, ended>>

-----------------------------------------------------------------------------
(* The end of an attempt.                                                   *)

\* Mutant: the keeper is not told.
SettleKeepsRenewing(a) ==
  /\ stage[a] = "running"
  /\ stage' = [stage EXCEPT ![a] = "settled"]
  /\ ended' = [ended EXCEPT ![a] = now]
  /\ UNCHANGED <<now, zsets, keeper, due, sent, faults>>

\* PostLLMHook sets the settled flag and closes stopRenew; a renewal that is on
\* its way stays on its way.
Settle(a) ==
  /\ stage[a] = "running"
  /\ stage' = [stage EXCEPT ![a] = "settled"]
  /\ keeper' = [keeper EXCEPT ![a] = FALSE]
  /\ ended' = [ended EXCEPT ![a] = now]
  /\ UNCHANGED <<now, zsets, due, sent, faults>>

\* releaseScript.
Release(a) ==
  /\ stage[a] = "settled"
  /\ tenantZ' = [tenantZ EXCEPT ![a] = 0]
  /\ provZ' = [provZ EXCEPT ![a] = 0]
  /\ lease' = [lease EXCEPT ![a] = 0]
  /\ stage' = [stage EXCEPT ![a] = "released"]
  /\ UNCHANGED <<now, keeper, due, sent, ended, faults>>

\* The release fails and is only logged.
ReleaseFails(a) ==
  /\ stage[a] = "settled"
  /\ Fault
  /\ stage' = [stage EXCEPT ![a] = "dead"]
  /\ UNCHANGED <<now, zsets, keeper, due, sent, ended>>

\* The process dies.
Crash(a) ==
  /\ stage[a] \in {"running", "settled"}
  /\ stage' = [stage EXCEPT ![a] = "dead"]
  /\ keeper' = [keeper EXCEPT ![a] = FALSE]
  /\ ended' = [ended EXCEPT ![a] = IF stage[a] = "running" THEN now ELSE @]
  /\ UNCHANGED <<now, zsets, due, sent, faults>>

\* A due renewal is sent, and a message arrives or is lost, before time passes it.
Tick ==
  /\ now < MaxTime
  /\ \A a \in Attempts : sent[a] = 0 /\ (keeper[a] => now < due[a])
  /\ now' = now + 1
  /\ UNCHANGED <<zsets, stage, keeper, due, sent, ended, faults>>

-----------------------------------------------------------------------------
Next ==
  \/ \E a \in Attempts :
       \/ Acquire(a) \/ AcquireUnanswered(a)
       \/ RenewSend(a) \/ RenewRun(a) \/ RenewFails(a)
       \/ Settle(a) \/ Release(a) \/ ReleaseFails(a) \/ Crash(a)
  \/ Tick

Spec == Init /\ [][Next]_vars

-----------------------------------------------------------------------------
(* Properties.                                                              *)

Running(group, a) == {b \in Attempts : group[b] = group[a] /\ stage[b] = "running"}
WithinLimit(S, limit) == limit = 0 \/ Cardinality(S) <= limit

\* The limits the plan and the platform set hold over the whole cluster: no more
\* attempts of a tenant, or to a provider, are running than its limit, and the
\* sorted sets hold no more members.  It needs every Redis call to succeed and no
\* clock ahead by what a renewal leaves of the TTL: after a missed renewal a fast
\* clock may reclaim a member that a later renewal adds again.
WithinLimits ==
  faults = 0 =>
    \A a \in Attempts :
      /\ WithinLimit(Running(TenantOf, a), TenantLimit)
      /\ WithinLimit(Running(ProviderOf, a), ProviderLimit)
      /\ TenantLimit # 0 => Members(tenantZ, TenantOf, a) <= TenantLimit
      /\ ProviderLimit # 0 => Members(provZ, ProviderOf, a) <= ProviderLimit

\* A released slot stays free: the renewal that a release overtakes does not take
\* it again (renewScript's EXISTS, semaphore.go:47).
ReleasedStaysFree ==
  \A a \in Attempts :
    stage[a] = "released" => tenantZ[a] = 0 /\ provZ[a] = 0 /\ lease[a] = 0

\* The two limits count the same attempts: a member of one set is a member of the
\* other with the same score, unless it has expired there for some client.
SetsAgree ==
  \A a \in Attempts :
    tenantZ[a] # provZ[a] =>
      /\ 0 \in {tenantZ[a], provZ[a]}
      /\ \E b \in Attempts : tenantZ[a] + provZ[a] <= Clock(b)

\* What the scripts maintain together: both limits hold over the cluster, and the
\* two sorted sets they are counted in hold the same attempts.
SemaphoreInv == TypeOK /\ WithinLimits /\ SetsAgree

\* A slot nobody needs comes free by itself one TTL after its attempt ended, also
\* when the release was lost or the process died (semaphore.go:1-3).
AbandonedExpires ==
  \A a \in Attempts :
    stage[a] \in {"settled", "refused", "dead"} =>
      /\ tenantZ[a] <= ended[a] + Skew[a] + TTL
      /\ provZ[a] <= ended[a] + Skew[a] + TTL

=============================================================================
