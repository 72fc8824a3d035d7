---------------------------- MODULE UsageMetering ----------------------------
(***************************************************************************)
(* The credit of one tenant: admission, settlement and the two accounts of *)
(* what was spent (plugins/tenantusage, internal/quota, internal/billing). *)
(*                                                                         *)
(* A provider attempt is admitted by PreLLMHook, which reads the usage     *)
(* ledger and then the month's Redis counter and believes the larger.      *)
(* PostLLMHook settles it once: the concurrency slot is released, the      *)
(* counter is charged under an idempotency claim, the ledger row is        *)
(* written.  Neither charge is retried: an error is logged and the hook    *)
(* goes on.                                                                *)
(*                                                                         *)
(* An attempt stands for its idempotency key (request id and attempt       *)
(* number).  The plan rejects overage.  Its concurrency slot is the lease  *)
(* of module Semaphore, here without its clocks.                           *)
(***************************************************************************)
EXTENDS Naturals, FiniteSets, Sums

CONSTANTS Attempts,
          Included,         \* the plan's included credit
          MaxConcurrent,    \* the plan's concurrency limit, 0 for none
          MaxCost,          \* bound: the charge of one attempt
          MaxMonth,         \* bound: months
          MaxLedgerFaults,  \* bound: failed RecordUsage calls
          MaxRedisFaults    \* bound: failed or lost Redis operations

ASSUME MeteringAssumption ==
  /\ {Included, MaxConcurrent, MaxCost, MaxLedgerFaults, MaxRedisFaults} \subseteq Nat
  /\ MaxMonth \in Nat \ {0}

\* A tenant makes finitely many attempts.
ASSUME FiniteAttempts == IsFiniteSet(Attempts)

Months == 1 .. MaxMonth
InFlight == {"checked", "counted", "running", "charging", "recording"}
Ended == {"done", "rejected", "dead"}

VARIABLES
  month,        \* the clock, in months
  counter,      \* Redis: the credit counter of each month
  claims,       \* Redis: the claims of ChargeOnce, by month and attempt
  ledger,       \* UsageEvent rows: the attempt, the month of period_start, the amount
  leases,       \* the attempts that hold a concurrency slot
  stage,        \* where each attempt is
  from,         \* the month whose window admitted it
  used,         \* the ledger's sum that CheckAllowance returned
  cost,         \* its charge, once known
  to,           \* the month in which it was settled
  exhausted,    \* history: the credit was spent when its admission began
  peak,         \* history: most attempts in flight at once
  ledgerFaults, redisFaults

redis == <<counter, claims>>
attempt == <<stage, from, used, cost, to, exhausted>>
vars == <<month, counter, claims, ledger, leases, stage, from, used, cost, to,
          exhausted, peak, ledgerFaults, redisFaults>>

TypeOK ==
  /\ month \in Months
  /\ counter \in [Months -> Nat]
  /\ claims \subseteq Months \X Attempts
  /\ ledger \subseteq [id : Attempts, month : Months, amount : 0 .. MaxCost]
  /\ leases \subseteq Attempts
  /\ stage \in [Attempts -> {"new"} \union InFlight \union Ended]
  /\ from \in [Attempts -> Months]
  /\ used \in [Attempts -> Nat]
  /\ cost \in [Attempts -> 0 .. MaxCost]
  /\ to \in [Attempts -> Months]
  /\ exhausted \in [Attempts -> BOOLEAN]
  /\ peak \in 0 .. Cardinality(Attempts)
  /\ ledgerFaults \in 0 .. MaxLedgerFaults
  /\ redisFaults \in 0 .. MaxRedisFaults

Init ==
  /\ month = 1
  /\ counter = [m \in Months |-> 0]
  /\ claims = {}
  /\ ledger = {}
  /\ leases = {}
  /\ stage = [a \in Attempts |-> "new"]
  /\ from = [a \in Attempts |-> 1]
  /\ used = [a \in Attempts |-> 0]
  /\ cost = [a \in Attempts |-> 0]
  /\ to = [a \in Attempts |-> 1]
  /\ exhausted = [a \in Attempts |-> FALSE]
  /\ peak = 0
  /\ ledgerFaults = 0
  /\ redisFaults = 0

RedisFault == redisFaults < MaxRedisFaults /\ redisFaults' = redisFaults + 1
LedgerFault == ledgerFaults < MaxLedgerFaults /\ ledgerFaults' = ledgerFaults + 1

\* SUM(amount_micros) over the rows whose period_start is in month m.
LedgerUse(m) ==
  LET inMonth == {row \in ledger : row.month = m}
  IN  SumOver([row \in inMonth |-> row.amount], inMonth)

\* History: the charges of the attempts whose PostLLMHook has returned.
Spent(m) ==
  SumOver(cost, {a \in Attempts : stage[a] = "done" /\ to[a] = m})

-----------------------------------------------------------------------------
(* PreLLMHook.                                                              *)

\* CheckAllowance over the current month's window; p.now() is read once.
CheckAllowance(a) ==
  /\ stage[a] = "new"
  /\ stage' = [stage EXCEPT ![a] = "checked"]
  /\ from' = [from EXCEPT ![a] = month]
  /\ used' = [used EXCEPT ![a] = LedgerUse(month)]
  /\ exhausted' = [exhausted EXCEPT ![a] = Spent(month) >= Included]
  /\ LET now == 1 + Cardinality({b \in Attempts : stage[b] \in InFlight})
     IN  peak' = IF now > peak THEN now ELSE peak
  /\ UNCHANGED <<month, redis, ledger, leases, cost, to, ledgerFaults, redisFaults>>

\* Mutant: the counter is not consulted.
SeenLedgerOnly(a) == used[a]

\* The ledger's sum, or the counter where it is larger.
Seen(a) == IF counter[from[a]] > used[a] THEN counter[from[a]] ELSE used[a]

\* Mutant: credit that is just used up still admits.
ReadCounterInclusive(a) ==
  /\ stage[a] = "checked"
  /\ stage' = [stage EXCEPT ![a] = IF Seen(a) <= Included THEN "counted"
                                   ELSE "rejected"]
  /\ UNCHANGED <<month, redis, ledger, leases, from, used, cost, to, exhausted,
                 peak, ledgerFaults, redisFaults>>

\* Counter.Usage, then the credit decision.
ReadCounter(a) ==
  /\ stage[a] = "checked"
  /\ stage' = [stage EXCEPT ![a] = IF Seen(a) < Included THEN "counted"
                                   ELSE "rejected"]
  /\ UNCHANGED <<month, redis, ledger, leases, from, used, cost, to, exhausted,
                 peak, ledgerFaults, redisFaults>>

SlotFree == MaxConcurrent = 0 \/ Cardinality(leases) < MaxConcurrent

Acquire(a) ==
  /\ stage[a] = "counted"
  /\ IF SlotFree
       THEN /\ leases' = leases \union {a}
            /\ stage' = [stage EXCEPT ![a] = "running"]
       ELSE /\ stage' = [stage EXCEPT ![a] = "rejected"]
            /\ UNCHANGED leases
  /\ UNCHANGED <<month, redis, ledger, from, used, cost, to, exhausted, peak,
                 ledgerFaults, redisFaults>>

\* No tenant, a failed lookup, a model outside the plan or without a price.
Refused(a) ==
  /\ stage[a] = "new"
  /\ stage' = [stage EXCEPT ![a] = "rejected"]
  /\ UNCHANGED <<month, redis, ledger, leases, from, used, cost, to, exhausted,
                 peak, ledgerFaults, redisFaults>>

\* A Redis error rejects with 503; a lost reply of Acquire leaves its slot taken.
AdmissionFails(a) ==
  /\ stage[a] \in {"checked", "counted"}
  /\ RedisFault
  /\ stage' = [stage EXCEPT ![a] = "rejected"]
  /\ \/ UNCHANGED leases
     \/ stage[a] = "counted" /\ SlotFree /\ leases' = leases \union {a}
  /\ UNCHANGED <<month, redis, ledger, from, used, cost, to, exhausted, peak,
                 ledgerFaults>>

-----------------------------------------------------------------------------
(* PostLLMHook.  The settled flag lets one call through; the slot goes first. *)

\* Mutant: the markup is added a second time.
SettleMarkedUpTwice(a, c) ==
  /\ stage[a] = "running"
  /\ cost' = [cost EXCEPT ![a] = c + c]
  /\ stage' = [stage EXCEPT ![a] = IF c > 0 THEN "charging" ELSE "recording"]
  /\ leases' = leases \ {a}
  /\ UNCHANGED <<month, redis, ledger, from, used, to, exhausted, peak,
                 ledgerFaults, redisFaults>>

\* c is the provider cost and markup; 0 when there is no usage, no cost and no
\* price.  Only a positive charge touches the counter.
Settle(a, c) ==
  /\ stage[a] = "running"
  /\ cost' = [cost EXCEPT ![a] = c]
  /\ stage' = [stage EXCEPT ![a] = IF c > 0 THEN "charging" ELSE "recording"]
  /\ \/ leases' = leases \ {a} /\ UNCHANGED redisFaults
     \/ RedisFault /\ UNCHANGED leases
  /\ UNCHANGED <<month, redis, ledger, from, used, to, exhausted, peak,
                 ledgerFaults>>

\* Mutant: no claim is looked up.
ChargedTwice(a) ==
  /\ counter' = [counter EXCEPT ![from[a]] = @ + cost[a]]
  /\ claims' = claims \union {<<from[a], a>>}

\* The script of ChargeOnce, on the budget of the admission month.
Charged(a) ==
  /\ counter' = IF <<from[a], a>> \in claims THEN counter
                ELSE [counter EXCEPT ![from[a]] = @ + cost[a]]
  /\ claims' = claims \union {<<from[a], a>>}

\* The call succeeds or returns an error; an error may hide a charge that was made.
ChargeOnce(a) ==
  /\ stage[a] = "charging"
  /\ \/ Charged(a) /\ UNCHANGED redisFaults
     \/ RedisFault /\ (Charged(a) \/ UNCHANGED redis)
  /\ stage' = [stage EXCEPT ![a] = "recording"]
  /\ UNCHANGED <<month, ledger, leases, from, used, cost, to, exhausted, peak,
                 ledgerFaults>>

\* The reply is lost and the Redis client sends the script again.
ChargeResent(a) ==
  /\ stage[a] = "charging"
  /\ RedisFault
  /\ Charged(a)
  /\ UNCHANGED <<month, ledger, leases, attempt, peak, ledgerFaults>>

\* Store.RecordUsage, with the time of settlement as period_start.
RecordAttempt(a) ==
  /\ stage[a] = "recording"
  /\ \/ /\ ledger' = ledger \union {[id |-> a, month |-> month, amount |-> cost[a]]}
        /\ UNCHANGED ledgerFaults
     \/ LedgerFault /\ UNCHANGED ledger
  /\ stage' = [stage EXCEPT ![a] = "done"]
  /\ to' = [to EXCEPT ![a] = month]
  /\ UNCHANGED <<month, redis, leases, from, used, cost, exhausted, peak,
                 redisFaults>>

-----------------------------------------------------------------------------
(* The world.                                                               *)

\* The process dies, or the request is abandoned without a settlement.
Dies(a) ==
  /\ stage[a] \in InFlight
  /\ stage' = [stage EXCEPT ![a] = "dead"]
  /\ UNCHANGED <<month, redis, ledger, leases, from, used, cost, to, exhausted,
                 peak, ledgerFaults, redisFaults>>

\* Nobody renews a lease that has lost its attempt; its TTL frees the slot.
LeaseExpires(a) ==
  /\ a \in leases
  /\ stage[a] # "running"
  /\ leases' = leases \ {a}
  /\ UNCHANGED <<month, redis, ledger, attempt, peak, ledgerFaults, redisFaults>>

\* Redis restarts empty: counters, claims and leases are gone.
RedisLoses ==
  /\ RedisFault
  /\ counter' = [m \in Months |-> 0]
  /\ claims' = {}
  /\ leases' = {}
  /\ UNCHANGED <<month, ledger, attempt, peak, ledgerFaults>>

NextMonth ==
  /\ month < MaxMonth
  /\ month' = month + 1
  /\ UNCHANGED <<redis, ledger, leases, attempt, peak, ledgerFaults, redisFaults>>

-----------------------------------------------------------------------------
SettleSome(a) == \E c \in 0 .. MaxCost : Settle(a, c)

Hook(a) ==
  \/ ReadCounter(a) \/ Acquire(a) \/ SettleSome(a) \/ ChargeOnce(a)
  \/ RecordAttempt(a)

Next ==
  \/ \E a \in Attempts : \/ CheckAllowance(a) \/ Hook(a)
                         \/ Refused(a) \/ AdmissionFails(a) \/ ChargeResent(a)
                         \/ Dies(a) \/ LeaseExpires(a)
  \/ RedisLoses
  \/ NextMonth

Spec == Init /\ [][Next]_vars

-----------------------------------------------------------------------------
(* Properties.                                                              *)

\* What admission relies on: of its two accounts of a month, one has all of it.
\* The ledger never failed, or the counter never did and nothing was admitted
\* in one month and settled in another, which splits the two accounts.
OneAccountComplete ==
  \/ ledgerFaults = 0
  \/ redisFaults = 0 /\ \A a \in Attempts : stage[a] = "done" => from[a] = to[a]

\* Once the month's credit is spent, a request whose admission starts later does
\* not reach the provider, although one of the accounts may be failing, lagging
\* or empty (plugin.go:129-144 believes the larger of the two).
ExhaustedIsRejected ==
  OneAccountComplete =>
    \A a \in Attempts :
      exhausted[a] => stage[a] \in {"checked", "rejected", "dead"}

\* The overshoot of a reject policy is bounded by what is in flight, each attempt
\* at its largest charge (billing.go:739-742): not by the concurrency limit, since
\* the check comes before the slot and the slot is released before the charge.
OvershootBounded ==
  OneAccountComplete =>
    \A m \in Months : Spent(m) > 0 => Spent(m) < Included + peak * MaxCost

\* The counter holds each attempt's charge at most once, however often the script
\* is sent (ChargeOnce, counter.go:122-125), and never more than the attempts of
\* the month cost.
ChargedAtMostOnce ==
  /\ TypeOK
  /\ \A m \in Months :
       counter[m] <= SumOver(cost, {a \in Attempts : from[a] = m})

=============================================================================
