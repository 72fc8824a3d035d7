-------------------------- MODULE Semaphore_proofs --------------------------
(***************************************************************************)
(* The expiring semaphore is safe for any number of attempts, limits,      *)
(* clocks and faults.  The limits themselves need two things: that no      *)
(* Redis call has failed, and that no clock is ahead by what a renewal     *)
(* period leaves of the lease (ClocksClose).                               *)
(***************************************************************************)
EXTENDS Semaphore, FiniteSetTheorems, TLAPS

\* How far apart the clocks of two gateways may be.
ClocksClose == \A a, b \in Attempts : Skew[b] + Interval < Skew[a] + TTL

\* A keeper renews a running attempt only, and a script that may still run
\* carries a time at which the attempt was running.
Renewal(a) ==
  /\ keeper[a] => stage[a] = "running"
  /\ stage[a] = "new" => tenantZ[a] = 0 /\ provZ[a] = 0 /\ lease[a] = 0
  /\ stage[a] \in {"new", "refused"} => sent[a] = 0
  /\ sent[a] <= Clock(a)
  /\ stage[a] \in {"settled", "dead"} => sent[a] <= ended[a] + Skew[a]
  /\ stage[a] = "running" => /\ tenantZ[a] <= Clock(a) + TTL
                             /\ provZ[a] <= Clock(a) + TTL

\* The part of the inductive invariant that holds whatever fails.
LeaseInv ==
  /\ TypeOK
  /\ \A a \in Attempts : Renewal(a)
  /\ SetsAgree
  /\ ReleasedStaysFree
  /\ AbandonedExpires

-----------------------------------------------------------------------------
(* The sorted sets. *)

\* The members of a sorted set, over all its groups.
Present(z) == {b \in Attempts : z[b] # 0}
Group(z, group, a) == {b \in Attempts : group[b] = group[a] /\ z[b] # 0}

LEMMA ClockIsNat ==
    ASSUME TypeOK, NEW a \in Attempts
    PROVE  now \in Nat /\ 0 < now /\ Skew[a] \in Nat /\ Clock(a) \in Nat /\ 0 < Clock(a)
<1>1. now \in Nat /\ 0 < now /\ Skew[a] \in Nat
  BY SemaphoreAssumption DEF TypeOK
<1> QED
  BY <1>1 DEF Clock

\* ZREMRANGEBYSCORE only removes, and only what has expired for the caller.
LEMMA PurgeRemoves ==
    ASSUME NEW z \in [Attempts -> Nat], NEW group, NEW a \in Attempts, NEW t \in Nat
    PROVE  /\ Purge(z, group, a, t) \in [Attempts -> Nat]
           /\ \A b \in Attempts :
                \/ Purge(z, group, a, t)[b] = z[b]
                \/ Purge(z, group, a, t)[b] = 0 /\ z[b] <= t
  BY DEF Purge

\* What AcquireScript does to either set.
Acquired(z, group, a, granted) ==
  IF granted THEN [Purge(z, group, a, Clock(a)) EXCEPT ![a] = Clock(a) + TTL]
             ELSE Purge(z, group, a, Clock(a))

LEMMA AcquiredScores ==
    ASSUME TypeOK, NEW z \in [Attempts -> Nat], NEW group, NEW a \in Attempts,
           NEW granted \in BOOLEAN
    PROVE  /\ Acquired(z, group, a, granted) \in [Attempts -> Nat]
           /\ \A b \in Attempts : b # a \/ ~granted =>
                \/ Acquired(z, group, a, granted)[b] = z[b]
                \/ Acquired(z, group, a, granted)[b] = 0 /\ z[b] <= Clock(a)
           /\ granted => Acquired(z, group, a, granted)[a] = Clock(a) + TTL
<1>1. Clock(a) \in Nat /\ Clock(a) + TTL \in Nat
  BY ClockIsNat, SemaphoreAssumption
<1>2. /\ Purge(z, group, a, Clock(a)) \in [Attempts -> Nat]
      /\ \A b \in Attempts :
           \/ Purge(z, group, a, Clock(a))[b] = z[b]
           \/ Purge(z, group, a, Clock(a))[b] = 0 /\ z[b] <= Clock(a)
  BY <1>1, PurgeRemoves
<1> QED
  BY <1>1, <1>2 DEF Acquired

LEMMA AcquireScriptSets ==
    ASSUME NEW a \in Attempts, NEW granted \in BOOLEAN, AcquireScript(a, granted)
    PROVE  /\ tenantZ' = Acquired(tenantZ, TenantOf, a, granted)
           /\ provZ' = Acquired(provZ, ProviderOf, a, granted)
           /\ lease' = IF granted THEN [lease EXCEPT ![a] = now + TTL] ELSE lease
  BY DEF AcquireScript, Acquired

-----------------------------------------------------------------------------
LEMMA InitLease == Init => LeaseInv
  BY SemaphoreAssumption
     DEF Init, LeaseInv, TypeOK, Renewal, SetsAgree, ReleasedStaysFree,
         AbandonedExpires, Zero, Stages, Clock

\* acquireScript with the stage and the end its caller gives the attempt.
LEMMA AcquireScriptLease ==
    ASSUME LeaseInv, NEW a \in Attempts, stage[a] = "new",
           NEW granted \in BOOLEAN, AcquireScript(a, granted),
           UNCHANGED <<now, sent>>,
           NEW s \in {"running", "refused"}, stage' = [stage EXCEPT ![a] = s],
           keeper' \in [Attempts -> BOOLEAN],
           \A b \in Attempts : b # a => keeper'[b] = keeper[b],
           keeper'[a] => s = "running",
           due' \in [Attempts -> Nat], ended' \in [Attempts -> Nat],
           \A b \in Attempts : b # a => ended'[b] = ended[b],
           s = "refused" /\ granted => ended'[a] = now,
           faults' \in 0 .. MaxFaults
    PROVE  LeaseInv'
<1> USE SemaphoreAssumption DEF LeaseInv
<1> DEFINE tz == Acquired(tenantZ, TenantOf, a, granted)
           pz == Acquired(provZ, ProviderOf, a, granted)
<1>1. /\ tenantZ' = tz /\ provZ' = pz
      /\ lease' = IF granted THEN [lease EXCEPT ![a] = now + TTL] ELSE lease
  BY AcquireScriptSets
<1>2. /\ tz \in [Attempts -> Nat]
      /\ \A b \in Attempts : b # a \/ ~granted =>
           tz[b] = tenantZ[b] \/ (tz[b] = 0 /\ tenantZ[b] <= Clock(a))
      /\ granted => tz[a] = Clock(a) + TTL
  BY AcquiredScores DEF TypeOK
<1>3. /\ pz \in [Attempts -> Nat]
      /\ \A b \in Attempts : b # a \/ ~granted =>
           pz[b] = provZ[b] \/ (pz[b] = 0 /\ provZ[b] <= Clock(a))
      /\ granted => pz[a] = Clock(a) + TTL
  BY AcquiredScores DEF TypeOK
<1> HIDE DEF tz, pz
<1>4. now \in Nat /\ \A b \in Attempts : Skew[b] \in Nat /\ Clock(b) \in Nat
  BY ClockIsNat, SemaphoreAssumption DEF TypeOK
<1>5. \A b \in Attempts : Clock(b)' = Clock(b)
  BY DEF Clock
<1>6. \A b \in Attempts : b # a => stage'[b] = stage[b] /\ lease'[b] = lease[b]
  BY <1>1 DEF TypeOK
<1>7. stage'[a] = s
  BY DEF TypeOK
<1>8. tenantZ[a] = 0 /\ provZ[a] = 0 /\ sent[a] = 0 /\ ~keeper[a]
  BY DEF Renewal
<1>9. \A b \in Attempts : tenantZ[b] \in Nat /\ provZ[b] \in Nat
  BY DEF TypeOK
<1>10. TypeOK'
  <2>1. lease' \in [Attempts -> Nat]
    BY <1>1, <1>4 DEF TypeOK
  <2>2. stage' \in [Attempts -> Stages]
    BY DEF TypeOK, Stages
  <2> QED BY <1>1, <1>2, <1>3, <2>1, <2>2 DEF TypeOK
<1>11. \A b \in Attempts : b # a => tz[b] <= tenantZ[b] /\ pz[b] <= provZ[b]
  BY <1>2, <1>3, <1>9
<1>12. ~granted => tz[a] = 0 /\ pz[a] = 0
  BY <1>2, <1>3, <1>8
<1>13. ASSUME NEW b \in Attempts PROVE Renewal(b)'
  <2>1. CASE b = a
    BY <1>1, <1>2, <1>3, <1>4, <1>5, <1>7, <1>8, <1>12, <2>1 DEF Renewal, Clock, TypeOK
  <2>2. CASE b # a
    <3>1. Renewal(b)
      OBVIOUS
    <3>2. tz[b] \in Nat /\ pz[b] \in Nat /\ tz[b] <= tenantZ[b] /\ pz[b] <= provZ[b]
          /\ tenantZ[b] \in Nat /\ provZ[b] \in Nat /\ Clock(b) + TTL \in Nat
      BY <1>2, <1>3, <1>4, <1>9, <1>11, <2>2
    <3> QED BY <1>1, <1>5, <1>6, <2>2, <3>1, <3>2 DEF Renewal
  <2> QED BY <2>1, <2>2
<1>14. SetsAgree'
  <2> SUFFICES ASSUME NEW b \in Attempts, tz[b] # pz[b]
               PROVE  0 \in {tz[b], pz[b]} /\ \E c \in Attempts : tz[b] + pz[b] <= Clock(c)
    BY <1>1, <1>5 DEF SetsAgree
  <2>1. b # a \/ ~granted
    BY <1>2, <1>3
  <2>2. CASE tz[b] = tenantZ[b] /\ pz[b] = provZ[b]
    BY <2>2 DEF SetsAgree
  <2>3. CASE tz[b] = 0 /\ tenantZ[b] <= Clock(a) /\ pz[b] = provZ[b]
    <3>1. CASE provZ[b] = tenantZ[b]
      BY <1>9, <2>3, <3>1
    <3>2. CASE provZ[b] # tenantZ[b]
      BY <1>9, <2>3, <3>2 DEF SetsAgree
    <3> QED BY <3>1, <3>2
  <2>4. CASE pz[b] = 0 /\ provZ[b] <= Clock(a) /\ tz[b] = tenantZ[b]
    <3>1. CASE provZ[b] = tenantZ[b]
      BY <1>9, <2>4, <3>1
    <3>2. CASE provZ[b] # tenantZ[b]
      BY <1>9, <2>4, <3>2 DEF SetsAgree
    <3> QED BY <3>1, <3>2
  <2> QED BY <1>2, <1>3, <2>1, <2>2, <2>3, <2>4
<1>15. ReleasedStaysFree'
  <2> SUFFICES ASSUME NEW b \in Attempts, stage'[b] = "released"
               PROVE  tenantZ'[b] = 0 /\ provZ'[b] = 0 /\ lease'[b] = 0
    BY DEF ReleasedStaysFree
  <2>1. b # a
    BY <1>7
  <2> QED BY <1>1, <1>2, <1>3, <1>6, <2>1 DEF ReleasedStaysFree
<1>16. AbandonedExpires'
  <2> SUFFICES ASSUME NEW b \in Attempts, stage'[b] \in {"settled", "refused", "dead"}
               PROVE  /\ tz[b] <= ended'[b] + Skew[b] + TTL
                      /\ pz[b] <= ended'[b] + Skew[b] + TTL
    BY <1>1 DEF AbandonedExpires
  <2>1. CASE b # a
    <3>1. /\ tenantZ[b] <= ended[b] + Skew[b] + TTL /\ provZ[b] <= ended[b] + Skew[b] + TTL
      BY <1>6, <2>1 DEF AbandonedExpires
    <3>2. ended[b] + Skew[b] + TTL \in Nat /\ tz[b] \in Nat /\ pz[b] \in Nat
      BY <1>2, <1>3, <1>4 DEF TypeOK
    <3> QED BY <1>9, <1>11, <2>1, <3>1, <3>2
  <2>2. CASE b = a /\ granted
    <3>1. ended'[a] = now
      BY <1>7, <2>2
    <3> QED BY <1>2, <1>3, <1>4, <2>2, <3>1 DEF Clock
  <2>3. CASE b = a /\ ~granted
    <3>1. ended'[a] \in Nat
      OBVIOUS
    <3> QED BY <1>4, <1>12, <2>3, <3>1
  <2> QED BY <2>1, <2>2, <2>3
<1> QED
  BY <1>10, <1>13, <1>14, <1>15, <1>16

LEMMA AcquireLease ==
    ASSUME LeaseInv, NEW a \in Attempts, Acquire(a) \/ AcquireUnanswered(a)
    PROVE  LeaseInv'
<1> USE SemaphoreAssumption
<1>0. now \in Nat /\ now + Interval \in Nat
  BY ClockIsNat DEF LeaseInv
<1>1. CASE Acquire(a)
  <2>1. PICK granted \in BOOLEAN :
          /\ AcquireScript(a, granted)
          /\ stage' = [stage EXCEPT ![a] = IF granted THEN "running" ELSE "refused"]
          /\ keeper' = [keeper EXCEPT ![a] = granted]
          /\ due' = [due EXCEPT ![a] = IF granted THEN now + Interval ELSE 0]
    BY <1>1 DEF Acquire
  <2>2. stage[a] = "new" /\ UNCHANGED <<now, sent, ended, faults>>
    BY <1>1 DEF Acquire
  <2>3. /\ keeper' \in [Attempts -> BOOLEAN] /\ due' \in [Attempts -> Nat]
        /\ ended' \in [Attempts -> Nat] /\ faults' \in 0 .. MaxFaults
        /\ \A b \in Attempts : b # a => keeper'[b] = keeper[b] /\ ended'[b] = ended[b]
        /\ keeper'[a] = granted
    BY <1>0, <2>1, <2>2 DEF LeaseInv, TypeOK
  <2>4. CASE granted
    <3>1. stage' = [stage EXCEPT ![a] = "running"]
      BY <2>1, <2>4
    <3> QED BY <2>1, <2>2, <2>3, <3>1, AcquireScriptLease
  <2>5. CASE ~granted
    <3>1. stage' = [stage EXCEPT ![a] = "refused"]
      BY <2>1, <2>5
    <3> QED BY <2>1, <2>2, <2>3, <2>5, <3>1, AcquireScriptLease
  <2> QED BY <2>4, <2>5
<1>2. CASE AcquireUnanswered(a)
  <2>1. PICK granted \in BOOLEAN : AcquireScript(a, granted)
    BY <1>2 DEF AcquireUnanswered
  <2>2. /\ stage[a] = "new" /\ stage' = [stage EXCEPT ![a] = "refused"]
        /\ ended' = [ended EXCEPT ![a] = now] /\ UNCHANGED <<now, keeper, due, sent>>
        /\ faults < MaxFaults /\ faults' = faults + 1
    BY <1>2 DEF AcquireUnanswered, Fault
  <2>3. /\ keeper' \in [Attempts -> BOOLEAN] /\ due' \in [Attempts -> Nat]
        /\ ended' \in [Attempts -> Nat] /\ faults' \in 0 .. MaxFaults
        /\ \A b \in Attempts : b # a => keeper'[b] = keeper[b] /\ ended'[b] = ended[b]
        /\ ~keeper'[a] /\ ended'[a] = now
    BY <1>0, <2>2 DEF LeaseInv, TypeOK, Renewal
  <2> QED BY <2>1, <2>2, <2>3, AcquireScriptLease
<1> QED
  BY <1>1, <1>2

LEMMA RenewSendLease ==
    ASSUME LeaseInv, NEW a \in Attempts, RenewSend(a)
    PROVE  LeaseInv'
<1> USE SemaphoreAssumption DEF LeaseInv
<1>1. /\ keeper[a] /\ sent' = [sent EXCEPT ![a] = Clock(a)]
      /\ due' = [due EXCEPT ![a] = now + Interval]
      /\ UNCHANGED <<now, tenantZ, provZ, lease, stage, keeper, ended, faults>>
  BY DEF RenewSend, zsets
<1>2. now \in Nat /\ Clock(a) \in Nat /\ now + Interval \in Nat
  BY ClockIsNat
<1>3. TypeOK'
  BY <1>1, <1>2 DEF TypeOK
<1>4. stage[a] = "running"
  BY <1>1 DEF Renewal
<1>5. ASSUME NEW b \in Attempts PROVE Renewal(b)'
  <2>1. CASE b = a
    <3>1. sent'[a] = Clock(a)
      BY <1>1 DEF TypeOK
    <3> QED BY <1>1, <1>2, <1>4, <2>1, <3>1 DEF Renewal, Clock
  <2>2. CASE b # a
    <3>1. sent'[b] = sent[b]
      BY <1>1, <2>2 DEF TypeOK
    <3> QED BY <1>1, <3>1 DEF Renewal, Clock
  <2> QED BY <2>1, <2>2
<1>6. (SetsAgree /\ ReleasedStaysFree /\ AbandonedExpires)'
  BY <1>1 DEF SetsAgree, ReleasedStaysFree, AbandonedExpires, Clock
<1> QED
  BY <1>3, <1>5, <1>6

\* renewScript leaves the other members alone.  It renews an attempt that still
\* has its lease, hence not a released one, to the time it carries.
LEMMA RenewScriptLease ==
    ASSUME LeaseInv, NEW a \in Attempts, sent[a] # 0,
           RenewScript(a) \/ UNCHANGED zsets,
           sent' = [sent EXCEPT ![a] = 0],
           UNCHANGED <<now, stage, due, ended>>,
           keeper' \in [Attempts -> BOOLEAN],
           \A b \in Attempts : keeper'[b] => keeper[b],
           faults' \in 0 .. MaxFaults
    PROVE  LeaseInv'
<1> USE SemaphoreAssumption DEF LeaseInv
<1>0. /\ now \in Nat /\ Skew[a] \in Nat /\ sent[a] \in Nat /\ Clock(a) \in Nat
      /\ ended[a] \in Nat
  BY ClockIsNat DEF TypeOK
<1>1. sent'[a] = 0 /\ \A b \in Attempts : b # a => sent'[b] = sent[b]
  BY DEF TypeOK
<1>2. \A b \in Attempts : Clock(b)' = Clock(b)
  BY DEF Clock
<1>3. CASE UNCHANGED zsets
  <2>1. UNCHANGED <<tenantZ, provZ, lease>>
    BY <1>3 DEF zsets
  <2>2. TypeOK'
    BY <2>1 DEF TypeOK
  <2>3. ASSUME NEW b \in Attempts PROVE Renewal(b)'
    <3>1. sent'[b] <= sent[b] /\ (sent[b] = 0 => sent'[b] = 0) /\ sent'[b] \in Nat
          /\ sent[b] \in Nat /\ Clock(b) \in Nat /\ ended[b] + Skew[b] \in Nat
      BY <1>1, ClockIsNat DEF TypeOK
    <3>2. Renewal(b)
      OBVIOUS
    <3> QED BY <1>2, <2>1, <3>1, <3>2 DEF Renewal
  <2>4. (SetsAgree /\ ReleasedStaysFree /\ AbandonedExpires)'
    BY <1>2, <2>1 DEF SetsAgree, ReleasedStaysFree, AbandonedExpires
  <2> QED BY <2>2, <2>3, <2>4
<1>4. CASE ~UNCHANGED zsets
  <2>1. /\ lease[a] # 0
        /\ tenantZ' = [tenantZ EXCEPT ![a] = sent[a] + TTL]
        /\ provZ' = [provZ EXCEPT ![a] = sent[a] + TTL]
        /\ lease' = [lease EXCEPT ![a] = now + TTL]
    BY <1>4 DEF RenewScript, LeaseExists
  <2>2. /\ tenantZ'[a] = sent[a] + TTL /\ provZ'[a] = sent[a] + TTL
        /\ \A b \in Attempts : b # a =>
             tenantZ'[b] = tenantZ[b] /\ provZ'[b] = provZ[b] /\ lease'[b] = lease[b]
    BY <2>1 DEF TypeOK
  <2>3. stage[a] \in {"running", "settled", "dead"} /\ sent[a] <= Clock(a)
        /\ (stage[a] # "running" => sent[a] <= ended[a] + Skew[a])
    BY <2>1 DEF ReleasedStaysFree, Renewal, TypeOK, Stages
  <2>4. TypeOK'
    BY <1>0, <2>1 DEF TypeOK
  <2>5. ASSUME NEW b \in Attempts PROVE Renewal(b)'
    <3>1. CASE b = a
      <4>1. stage'[a] = stage[a] /\ Renewal(a)
        OBVIOUS
      <4>2. tenantZ'[a] <= Clock(a) + TTL /\ provZ'[a] <= Clock(a) + TTL
        BY <1>0, <2>2, <2>3
      <4> QED BY <1>0, <1>1, <1>2, <2>3, <3>1, <4>1, <4>2 DEF Renewal
    <3>2. CASE b # a
      BY <1>1, <1>2, <2>2, <3>2 DEF Renewal
    <3> QED BY <3>1, <3>2
  <2>6. SetsAgree'
    <3> SUFFICES ASSUME NEW b \in Attempts, tenantZ'[b] # provZ'[b]
                 PROVE  /\ 0 \in {tenantZ'[b], provZ'[b]}
                        /\ \E c \in Attempts : tenantZ'[b] + provZ'[b] <= Clock(c)
      BY <1>2 DEF SetsAgree
    <3> QED BY <2>2 DEF SetsAgree
  <2>7. ReleasedStaysFree'
    BY <2>2, <2>3 DEF ReleasedStaysFree
  <2>8. AbandonedExpires'
    <3> SUFFICES ASSUME NEW b \in Attempts, stage[b] \in {"settled", "refused", "dead"}
                 PROVE  /\ tenantZ'[b] <= ended[b] + Skew[b] + TTL
                        /\ provZ'[b] <= ended[b] + Skew[b] + TTL
      BY DEF AbandonedExpires
    <3>1. CASE b = a
      BY <1>0, <2>2, <2>3, <3>1
    <3>2. CASE b # a
      BY <2>2, <3>2 DEF AbandonedExpires
    <3> QED BY <3>1, <3>2
  <2> QED BY <2>4, <2>5, <2>6, <2>7, <2>8
<1> QED
  BY <1>3, <1>4

LEMMA RenewLease ==
    ASSUME LeaseInv, NEW a \in Attempts, RenewRun(a) \/ RenewFails(a)
    PROVE  LeaseInv'
<1>1. CASE RenewRun(a)
  <2>1. keeper' \in [Attempts -> BOOLEAN] /\ \A b \in Attempts : keeper'[b] => keeper[b]
    BY <1>1 DEF RenewRun, LeaseInv, TypeOK
  <2> QED BY <1>1, <2>1, RenewScriptLease DEF RenewRun, LeaseInv, TypeOK
<1>2. CASE RenewFails(a)
  <2>1. faults' \in 0 .. MaxFaults
    BY <1>2, SemaphoreAssumption DEF RenewFails, Fault, LeaseInv, TypeOK
  <2>2. keeper' \in [Attempts -> BOOLEAN] /\ \A b \in Attempts : keeper'[b] => keeper[b]
    BY <1>2 DEF RenewFails, LeaseInv, TypeOK
  <2> QED BY <1>2, <2>1, <2>2, RenewScriptLease DEF RenewFails
<1> QED
  BY <1>1, <1>2

\* The attempt stops needing its slot; what it holds is bounded by the clock.
LEMMA EndLease ==
    ASSUME LeaseInv, NEW a \in Attempts, Settle(a) \/ Crash(a)
    PROVE  LeaseInv'
<1> USE SemaphoreAssumption DEF LeaseInv
<1>0. now \in Nat /\ Skew[a] \in Nat /\ Clock(a) = now + Skew[a]
  BY ClockIsNat DEF Clock
<1>1. PICK s \in {"settled", "dead"} :
        /\ stage[a] \in {"running", "settled"}
        /\ stage' = [stage EXCEPT ![a] = s]
        /\ keeper' = [keeper EXCEPT ![a] = FALSE]
        /\ ended' = [ended EXCEPT ![a] = IF stage[a] = "running" THEN now ELSE @]
        /\ UNCHANGED <<now, tenantZ, provZ, lease, due, sent, faults>>
  BY DEF Settle, Crash, zsets
<1>2. /\ stage'[a] = s /\ ~keeper'[a]
      /\ ended'[a] = IF stage[a] = "running" THEN now ELSE ended[a]
      /\ \A b \in Attempts : b # a => /\ stage'[b] = stage[b] /\ keeper'[b] = keeper[b]
                                      /\ ended'[b] = ended[b]
  BY <1>1 DEF TypeOK
<1>3. TypeOK'
  BY <1>0, <1>1 DEF TypeOK, Stages
<1>4. \A b \in Attempts : Clock(b)' = Clock(b)
  BY <1>1 DEF Clock
<1>5. sent[a] <= ended'[a] + Skew[a]
  BY <1>0, <1>1, <1>2 DEF Renewal
<1>6. ASSUME NEW b \in Attempts PROVE Renewal(b)'
  <2>1. Renewal(b)
    OBVIOUS
  <2>2. CASE b = a
    BY <1>1, <1>2, <1>4, <1>5, <2>1, <2>2 DEF Renewal
  <2>3. CASE b # a
    BY <1>1, <1>2, <1>4, <2>1, <2>3 DEF Renewal
  <2> QED BY <2>2, <2>3
<1>7. SetsAgree'
  BY <1>1, <1>4 DEF SetsAgree
<1>8. ReleasedStaysFree'
  BY <1>1, <1>2 DEF ReleasedStaysFree
<1>9. AbandonedExpires'
  <2> SUFFICES ASSUME NEW b \in Attempts, stage'[b] \in {"settled", "refused", "dead"}
               PROVE  /\ tenantZ[b] <= ended'[b] + Skew[b] + TTL
                      /\ provZ[b] <= ended'[b] + Skew[b] + TTL
    BY <1>1 DEF AbandonedExpires
  <2>1. CASE b = a
    BY <1>0, <1>1, <1>2, <2>1 DEF AbandonedExpires, Renewal
  <2>2. CASE b # a
    BY <1>2, <2>2 DEF AbandonedExpires
  <2> QED BY <2>1, <2>2
<1> QED
  BY <1>3, <1>6, <1>7, <1>8, <1>9

LEMMA ReleaseLease ==
    ASSUME LeaseInv, NEW a \in Attempts, Release(a)
    PROVE  LeaseInv'
<1> USE SemaphoreAssumption DEF LeaseInv
<1>1. /\ stage[a] = "settled" /\ stage' = [stage EXCEPT ![a] = "released"]
      /\ tenantZ' = [tenantZ EXCEPT ![a] = 0] /\ provZ' = [provZ EXCEPT ![a] = 0]
      /\ lease' = [lease EXCEPT ![a] = 0]
      /\ UNCHANGED <<now, keeper, due, sent, ended, faults>>
  BY DEF Release
<1>2. /\ stage'[a] = "released" /\ tenantZ'[a] = 0 /\ provZ'[a] = 0 /\ lease'[a] = 0
      /\ \A b \in Attempts : b # a =>
           /\ stage'[b] = stage[b] /\ tenantZ'[b] = tenantZ[b] /\ provZ'[b] = provZ[b]
           /\ lease'[b] = lease[b]
  BY <1>1 DEF TypeOK
<1>3. TypeOK'
  BY <1>1 DEF TypeOK, Stages
<1>4. \A b \in Attempts : Clock(b)' = Clock(b)
  BY <1>1 DEF Clock
<1>5. ASSUME NEW b \in Attempts PROVE Renewal(b)'
  <2>1. Renewal(b)
    OBVIOUS
  <2>2. CASE b = a
    BY <1>1, <1>2, <1>4, <2>1, <2>2 DEF Renewal
  <2>3. CASE b # a
    BY <1>1, <1>2, <1>4, <2>1, <2>3 DEF Renewal
  <2> QED BY <2>2, <2>3
<1>6. SetsAgree'
  BY <1>2, <1>4 DEF SetsAgree
<1>7. ReleasedStaysFree'
  BY <1>2 DEF ReleasedStaysFree
<1>8. AbandonedExpires'
  BY <1>1, <1>2 DEF AbandonedExpires
<1> QED
  BY <1>3, <1>5, <1>6, <1>7, <1>8

LEMMA ReleaseFailsLease ==
    ASSUME LeaseInv, NEW a \in Attempts, ReleaseFails(a)
    PROVE  LeaseInv'
<1> USE SemaphoreAssumption DEF LeaseInv
<1>1. /\ stage[a] = "settled" /\ stage' = [stage EXCEPT ![a] = "dead"]
      /\ faults < MaxFaults /\ faults' = faults + 1
      /\ UNCHANGED <<now, tenantZ, provZ, lease, keeper, due, sent, ended>>
  BY DEF ReleaseFails, Fault, zsets
<1>2. stage'[a] = "dead" /\ \A b \in Attempts : b # a => stage'[b] = stage[b]
  BY <1>1 DEF TypeOK
<1>3. TypeOK'
  BY <1>1 DEF TypeOK, Stages
<1>4. \A b \in Attempts : Clock(b)' = Clock(b)
  BY <1>1 DEF Clock
<1>5. ASSUME NEW b \in Attempts PROVE Renewal(b)'
  <2>1. Renewal(b)
    OBVIOUS
  <2> QED BY <1>1, <1>2, <1>4, <2>1 DEF Renewal
<1>6. SetsAgree'
  BY <1>1, <1>4 DEF SetsAgree
<1>7. ReleasedStaysFree'
  BY <1>1, <1>2 DEF ReleasedStaysFree
<1>8. AbandonedExpires'
  BY <1>1, <1>2 DEF AbandonedExpires
<1> QED
  BY <1>3, <1>5, <1>6, <1>7, <1>8

LEMMA TickLease == ASSUME LeaseInv, Tick PROVE LeaseInv'
<1> USE SemaphoreAssumption DEF LeaseInv
<1>1. /\ now < MaxTime /\ now' = now + 1
      /\ UNCHANGED <<tenantZ, provZ, lease, stage, keeper, due, sent, ended, faults>>
  BY DEF Tick, zsets
<1>2. TypeOK'
  BY <1>1 DEF TypeOK
<1>3. \A b \in Attempts : Clock(b)' = Clock(b) + 1 /\ Clock(b) \in Nat
  <2> TAKE b \in Attempts
  <2>1. now \in Nat /\ Skew[b] \in Nat /\ Clock(b) \in Nat
    BY ClockIsNat
  <2> QED BY <1>1, <2>1 DEF Clock
<1>4. ASSUME NEW b \in Attempts PROVE Renewal(b)'
  <2>1. sent[b] \in Nat /\ tenantZ[b] \in Nat /\ provZ[b] \in Nat
    BY DEF TypeOK
  <2>2. Renewal(b)
    OBVIOUS
  <2> QED BY <1>1, <1>3, <2>1, <2>2 DEF Renewal
<1>5. SetsAgree'
  <2>1. \A b \in Attempts : tenantZ[b] \in Nat /\ provZ[b] \in Nat
    BY DEF TypeOK
  <2>2. \A b, c \in Attempts : tenantZ[b] + provZ[b] <= Clock(c)
          => tenantZ[b] + provZ[b] <= Clock(c)'
    BY <1>3, <2>1
  <2> QED BY <1>1, <2>2 DEF SetsAgree
<1>6. (ReleasedStaysFree /\ AbandonedExpires)'
  BY <1>1 DEF ReleasedStaysFree, AbandonedExpires
<1> QED
  BY <1>2, <1>4, <1>5, <1>6

LEMMA NextLease == LeaseInv /\ [Next]_vars => LeaseInv'
<1> SUFFICES ASSUME LeaseInv, [Next]_vars PROVE LeaseInv'
  OBVIOUS
<1>1. CASE UNCHANGED vars
  BY <1>1 DEF vars, LeaseInv, TypeOK, Renewal, SetsAgree, ReleasedStaysFree,
              AbandonedExpires, Clock
<1> QED
  BY <1>1, AcquireLease, RenewSendLease, RenewLease, EndLease, ReleaseLease,
     ReleaseFailsLease, TickLease DEF Next

\* The part of the invariant that needs no assumption about clocks or failures.
THEOREM LeaseInvariant == Spec => []LeaseInv
  BY InitLease, NextLease, PTL DEF Spec

\* A renewal that a release overtakes never takes the slot again, for any number
\* of attempts, clocks and failures.
THEOREM ReleaseIsFinal == Spec => []ReleasedStaysFree
<1>1. LeaseInv => ReleasedStaysFree
  BY DEF LeaseInv
<1> QED
  BY LeaseInvariant, <1>1, PTL

\* Whatever fails, a slot nobody needs any more is free one TTL after its
\* attempt ended.
THEOREM SlotsComeFree == Spec => []AbandonedExpires
<1>1. LeaseInv => AbandonedExpires
  BY DEF LeaseInv
<1> QED
  BY LeaseInvariant, <1>1, PTL

-----------------------------------------------------------------------------
(* The limits. *)

\* A set holds no more members of a group than its limit, and finitely many.
Bounded(z, group, limit) ==
  /\ IsFiniteSet(Present(z))
  /\ limit # 0 => \A a \in Attempts : Members(z, group, a) <= limit

\* The attempts whose lease is being renewed: a keeper runs, or its last renewal
\* has not arrived yet.
Renewed(a) == keeper[a] \/ (sent[a] # 0 /\ stage[a] # "released")

\* While nothing has failed, a running attempt has a keeper, a renewal arrives
\* when it is due, and the scores and the lease are those of the last renewal.
Punctual(a) ==
  /\ stage[a] = "running" => keeper[a]
  /\ keeper[a] /\ sent[a] = 0 => now <= due[a] /\ lease[a] + Interval = due[a] + TTL
  /\ keeper[a] /\ sent[a] # 0 => due[a] = now + Interval
  /\ sent[a] # 0 /\ stage[a] # "released" =>
       sent[a] = Clock(a) /\ lease[a] + Interval = now + TTL
  /\ Renewed(a) => tenantZ[a] = lease[a] + Skew[a] /\ provZ[a] = lease[a] + Skew[a]

LimitInv ==
  faults = 0 =>
    /\ \A a \in Attempts : Punctual(a)
    /\ Bounded(tenantZ, TenantOf, TenantLimit)
    /\ Bounded(provZ, ProviderOf, ProviderLimit)

\* A set that loses members stays within its limit.
LEMMA BoundedShrinks ==
    ASSUME NEW z, NEW y, NEW group, NEW limit \in Nat, Bounded(z, group, limit),
           \A b \in Attempts : y[b] # 0 => z[b] # 0
    PROVE  Bounded(y, group, limit)
<1>1. Present(y) \in SUBSET Present(z) /\ IsFiniteSet(Present(z))
  BY DEF Present, Bounded
<1>2. IsFiniteSet(Present(y))
  BY <1>1, FS_Subset
<1>3. ASSUME limit # 0, NEW a \in Attempts
      PROVE  Members(y, group, a) <= limit
  <2>1. Group(z, group, a) \in SUBSET Present(z)
    BY DEF Group, Present
  <2>2. IsFiniteSet(Group(z, group, a))
    BY <1>1, <2>1, FS_Subset
  <2>3. Group(y, group, a) \in SUBSET Group(z, group, a)
    BY DEF Group
  <2>4. /\ IsFiniteSet(Group(y, group, a))
        /\ Cardinality(Group(y, group, a)) <= Cardinality(Group(z, group, a))
    BY <2>2, <2>3, FS_Subset
  <2>5. Cardinality(Group(y, group, a)) \in Nat /\ Cardinality(Group(z, group, a)) \in Nat
    BY <2>2, <2>4, FS_CardinalityType
  <2>6. Members(y, group, a) = Cardinality(Group(y, group, a))
        /\ Members(z, group, a) = Cardinality(Group(z, group, a))
    BY DEF Members, Group
  <2>7. Members(z, group, a) <= limit
    BY <1>3 DEF Bounded
  <2> QED BY <2>4, <2>5, <2>6, <2>7
<1> QED
  BY <1>2, <1>3 DEF Bounded

\* A set with room for a stays within its limit when a joins it.
LEMMA BoundedGrant ==
    ASSUME NEW z, NEW y, NEW group, NEW limit \in Nat, NEW a \in Attempts,
           Bounded(z, group, limit), HasRoom(z, group, a, limit),
           \A b \in Attempts : b # a => y[b] = z[b]
    PROVE  Bounded(y, group, limit)
<1>1. Present(y) \in SUBSET (Present(z) \cup {a}) /\ IsFiniteSet(Present(z))
  BY DEF Present, Bounded
<1>2. IsFiniteSet(Present(z) \cup {a})
  BY <1>1, FS_AddElement
<1>3. IsFiniteSet(Present(y))
  BY <1>1, <1>2, FS_Subset
<1>4. ASSUME limit # 0, NEW c \in Attempts
      PROVE  Members(y, group, c) <= limit
  <2>1. Group(z, group, c) \in SUBSET Present(z)
    BY DEF Group, Present
  <2>2. IsFiniteSet(Group(z, group, c))
    BY <1>1, <2>1, FS_Subset
  <2>3. Cardinality(Group(z, group, c)) \in Nat
    BY <2>2, FS_CardinalityType
  <2>4. Members(y, group, c) = Cardinality(Group(y, group, c))
        /\ Members(z, group, c) = Cardinality(Group(z, group, c))
    BY DEF Members, Group
  <2>5. Members(z, group, c) <= limit
    BY <1>4 DEF Bounded
  <2>6. CASE group[a] = group[c]
    <3>1. Group(y, group, c) \in SUBSET (Group(z, group, c) \cup {a})
      BY DEF Group
    <3>2. /\ IsFiniteSet(Group(z, group, c) \cup {a})
          /\ Cardinality(Group(z, group, c) \cup {a}) <= Cardinality(Group(z, group, c)) + 1
      <4>1. /\ IsFiniteSet(Group(z, group, c) \cup {a})
            /\ Cardinality(Group(z, group, c) \cup {a}) =
                 IF a \in Group(z, group, c) THEN Cardinality(Group(z, group, c))
                                             ELSE Cardinality(Group(z, group, c)) + 1
        BY <2>2, FS_AddElement
      <4> QED BY <2>3, <4>1
    <3>3. /\ Cardinality(Group(y, group, c)) <= Cardinality(Group(z, group, c) \cup {a})
          /\ IsFiniteSet(Group(y, group, c))
      BY <3>1, <3>2, FS_Subset
    <3>4. /\ Cardinality(Group(y, group, c)) \in Nat
          /\ Cardinality(Group(z, group, c) \cup {a}) \in Nat
      BY <3>2, <3>3, FS_CardinalityType
    <3>5. Group(z, group, c) = Group(z, group, a)
      BY <2>6 DEF Group
    <3>6. Cardinality(Group(z, group, c)) < limit
      BY <1>4, <3>5 DEF HasRoom, Members, Group
    <3> QED BY <2>3, <2>4, <3>2, <3>3, <3>4, <3>6
  <2>7. CASE group[a] # group[c]
    <3>1. Group(y, group, c) = Group(z, group, c)
      BY <2>7 DEF Group
    <3> QED BY <2>4, <2>5, <3>1
  <2> QED BY <2>6, <2>7
<1> QED
  BY <1>3, <1>4 DEF Bounded

\* A renewed attempt still has its lease, and no other gateway's clock has
\* reached its score.
LEMMA RenewedIsAlive ==
    ASSUME ClocksClose, LeaseInv, NEW a \in Attempts, Punctual(a), Renewed(a)
    PROVE  /\ LeaseExists(a)
           /\ tenantZ[a] = lease[a] + Skew[a] /\ provZ[a] = lease[a] + Skew[a]
           /\ \A b \in Attempts : Clock(b) < lease[a] + Skew[a]
<1> USE SemaphoreAssumption
<1>1. /\ now \in Nat /\ 0 < now /\ due[a] \in Nat /\ lease[a] \in Nat /\ Skew[a] \in Nat
      /\ Interval \in Nat /\ TTL \in Nat
  BY ClockIsNat DEF TypeOK, LeaseInv
<1>2. now + TTL <= lease[a] + Interval
  <2>1. keeper[a] => stage[a] # "released"
    BY DEF LeaseInv, Renewal
  <2>2. CASE sent[a] = 0
    BY <1>1, <2>2 DEF Punctual, Renewed
  <2>3. CASE sent[a] # 0
    BY <1>1, <2>1, <2>3 DEF Punctual, Renewed
  <2> QED BY <2>2, <2>3
<1>3. ASSUME NEW b \in Attempts PROVE Clock(b) < lease[a] + Skew[a]
  <2>1. Skew[b] \in Nat /\ Skew[b] + Interval < Skew[a] + TTL
    BY DEF ClocksClose
  <2> QED BY <1>1, <1>2, <2>1 DEF Clock
<1> QED
  BY <1>1, <1>2, <1>3 DEF LeaseExists, Punctual

LEMMA InitLimit == Init => LimitInv
<1> SUFFICES ASSUME Init PROVE LimitInv
  OBVIOUS
<1>1. \A a \in Attempts : Punctual(a)
  BY DEF Init, Punctual, Renewed, Zero
<1>2. ASSUME NEW z, z = Zero, NEW group, NEW limit \in Nat
      PROVE  Bounded(z, group, limit)
  <2>1. Present(z) = {}
    BY <1>2 DEF Present, Zero
  <2>2. \A a \in Attempts : Members(z, group, a) = 0
    <3> TAKE a \in Attempts
    <3>1. {b \in Attempts : group[b] = group[a] /\ z[b] # 0} = {}
      BY <1>2 DEF Zero
    <3> QED BY <3>1, FS_EmptySet DEF Members
  <2> QED BY <2>1, <2>2, FS_EmptySet DEF Bounded
<1> QED
  BY <1>1, <1>2, SemaphoreAssumption DEF Init, LimitInv

LEMMA AcquireLimit ==
    ASSUME ClocksClose, LeaseInv, LimitInv, NEW a \in Attempts, Acquire(a)
    PROVE  LimitInv'
<1> USE SemaphoreAssumption
<1> SUFFICES ASSUME faults = 0
             PROVE  /\ \A b \in Attempts : Punctual(b)'
                    /\ Bounded(tenantZ, TenantOf, TenantLimit)'
                    /\ Bounded(provZ, ProviderOf, ProviderLimit)'
  BY DEF LimitInv, Acquire
<1>0. PICK granted \in BOOLEAN :
        /\ AcquireScript(a, granted)
        /\ stage' = [stage EXCEPT ![a] = IF granted THEN "running" ELSE "refused"]
        /\ keeper' = [keeper EXCEPT ![a] = granted]
        /\ due' = [due EXCEPT ![a] = IF granted THEN now + Interval ELSE 0]
  BY DEF Acquire
<1>1. stage[a] = "new" /\ UNCHANGED <<now, sent, ended, faults>>
  BY DEF Acquire
<1>2. TypeOK /\ Renewal(a) /\ \A b \in Attempts : Punctual(b)
  BY DEF LeaseInv, LimitInv
<1>3. /\ tenantZ' = Acquired(tenantZ, TenantOf, a, granted)
      /\ provZ' = Acquired(provZ, ProviderOf, a, granted)
      /\ lease' = IF granted THEN [lease EXCEPT ![a] = now + TTL] ELSE lease
  BY <1>0, AcquireScriptSets
<1>4. /\ \A b \in Attempts : b # a \/ ~granted =>
           tenantZ'[b] = tenantZ[b] \/ (tenantZ'[b] = 0 /\ tenantZ[b] <= Clock(a))
      /\ granted => tenantZ'[a] = Clock(a) + TTL
  <2> DEFINE z == Acquired(tenantZ, TenantOf, a, granted)
  <2>1. /\ \A b \in Attempts : b # a \/ ~granted =>
             z[b] = tenantZ[b] \/ (z[b] = 0 /\ tenantZ[b] <= Clock(a))
        /\ granted => z[a] = Clock(a) + TTL
    <3>1. TypeOK /\ tenantZ \in [Attempts -> Nat]
      BY <1>2 DEF TypeOK
    <3> QED BY <3>1, AcquiredScores
  <2>2. tenantZ' = z
    BY <1>3
  <2> QED BY <2>1, <2>2
<1>5. /\ \A b \in Attempts : b # a \/ ~granted =>
           provZ'[b] = provZ[b] \/ (provZ'[b] = 0 /\ provZ[b] <= Clock(a))
      /\ granted => provZ'[a] = Clock(a) + TTL
  <2> DEFINE z == Acquired(provZ, ProviderOf, a, granted)
  <2>1. /\ \A b \in Attempts : b # a \/ ~granted =>
             z[b] = provZ[b] \/ (z[b] = 0 /\ provZ[b] <= Clock(a))
        /\ granted => z[a] = Clock(a) + TTL
    <3>1. TypeOK /\ provZ \in [Attempts -> Nat]
      BY <1>2 DEF TypeOK
    <3> QED BY <3>1, AcquiredScores
  <2>2. provZ' = z
    BY <1>3
  <2> QED BY <2>1, <2>2
<1>6. now \in Nat /\ Skew[a] \in Nat /\ Clock(a) = now + Skew[a]
  BY <1>2, ClockIsNat DEF Clock
<1>7. ASSUME NEW b \in Attempts PROVE Punctual(b)'
  <2>1. CASE b = a
    <3>1. /\ sent'[a] = 0 /\ keeper'[a] = granted
          /\ stage'[a] = IF granted THEN "running" ELSE "refused"
          /\ granted => due'[a] = now + Interval /\ lease'[a] = now + TTL
      BY <1>0, <1>1, <1>2, <1>3 DEF TypeOK, Renewal
    <3> QED BY <1>1, <1>4, <1>5, <1>6, <2>1, <3>1 DEF Punctual, Renewed
  <2>2. CASE b # a
    <3>1. /\ stage'[b] = stage[b] /\ keeper'[b] = keeper[b] /\ due'[b] = due[b]
          /\ lease'[b] = lease[b] /\ sent'[b] = sent[b]
      BY <1>0, <1>1, <1>2, <1>3, <2>2 DEF TypeOK
    <3>2. Renewed(b) => tenantZ'[b] = tenantZ[b] /\ provZ'[b] = provZ[b]
      <4> SUFFICES ASSUME Renewed(b) PROVE tenantZ'[b] = tenantZ[b] /\ provZ'[b] = provZ[b]
        OBVIOUS
      <4>1. Clock(a) < tenantZ[b] /\ Clock(a) < provZ[b]
        <5>1. Punctual(b)
          BY <1>2
        <5> QED BY <5>1, RenewedIsAlive
      <4>2. tenantZ[b] \in Nat /\ provZ[b] \in Nat /\ Clock(a) \in Nat
        BY <1>2, ClockIsNat DEF TypeOK
      <4> QED BY <1>4, <1>5, <2>2, <4>1, <4>2
    <3>3. Punctual(b)
      BY <1>2
    <3> QED BY <1>1, <3>1, <3>2, <3>3 DEF Punctual, Renewed, Clock
  <2> QED BY <2>1, <2>2
<1>8. ASSUME NEW z \in [Attempts -> Nat], NEW group, NEW limit \in Nat,
             Bounded(z, group, limit),
             granted => HasRoom(Purge(z, group, a, Clock(a)), group, a, limit)
      PROVE  Bounded(Acquired(z, group, a, granted), group, limit)
  <2> DEFINE p == Purge(z, group, a, Clock(a))
  <2>1. p \in [Attempts -> Nat] /\ \A b \in Attempts : p[b] # 0 => z[b] # 0
    BY <1>6, PurgeRemoves
  <2> HIDE DEF p
  <2>2. Bounded(p, group, limit)
    BY <1>8, <2>1, BoundedShrinks
  <2>3. CASE granted
    <3>1. Acquired(z, group, a, granted) = [p EXCEPT ![a] = Clock(a) + TTL]
      BY <2>3 DEF Acquired, p
    <3>2. \A b \in Attempts : b # a => Acquired(z, group, a, granted)[b] = p[b]
      BY <2>1, <3>1
    <3>3. HasRoom(p, group, a, limit)
      BY <1>8, <2>3 DEF p
    <3> QED BY <2>2, <3>2, <3>3, BoundedGrant
  <2>4. CASE ~granted
    BY <2>2, <2>4 DEF Acquired, p
  <2> QED BY <2>3, <2>4
<1>9. granted => /\ HasRoom(Purge(tenantZ, TenantOf, a, Clock(a)), TenantOf, a, TenantLimit)
                 /\ HasRoom(Purge(provZ, ProviderOf, a, Clock(a)), ProviderOf, a, ProviderLimit)
  BY <1>0 DEF AcquireScript, Room
<1>10. /\ Bounded(tenantZ, TenantOf, TenantLimit) /\ Bounded(provZ, ProviderOf, ProviderLimit)
       /\ tenantZ \in [Attempts -> Nat] /\ provZ \in [Attempts -> Nat]
       /\ TenantLimit \in Nat /\ ProviderLimit \in Nat
  BY <1>2 DEF LimitInv, TypeOK
<1>11. /\ Bounded(Acquired(tenantZ, TenantOf, a, granted), TenantOf, TenantLimit)
       /\ Bounded(Acquired(provZ, ProviderOf, a, granted), ProviderOf, ProviderLimit)
  BY <1>8, <1>9, <1>10
<1>12. Bounded(tenantZ, TenantOf, TenantLimit)' /\ Bounded(provZ, ProviderOf, ProviderLimit)'
  BY <1>3, <1>11 DEF Bounded, Present, Members
<1> QED
  BY <1>7, <1>12

LEMMA RenewSendLimit ==
    ASSUME LeaseInv, LimitInv, NEW a \in Attempts, RenewSend(a)
    PROVE  LimitInv'
<1> USE SemaphoreAssumption
<1>1. /\ keeper[a] /\ due[a] <= now /\ sent[a] = 0
      /\ sent' = [sent EXCEPT ![a] = Clock(a)]
      /\ due' = [due EXCEPT ![a] = now + Interval]
      /\ UNCHANGED <<now, tenantZ, provZ, lease, stage, keeper, ended, faults>>
  BY DEF RenewSend, zsets
<1> SUFFICES ASSUME faults = 0
             PROVE  /\ \A b \in Attempts : Punctual(b)'
                    /\ Bounded(tenantZ, TenantOf, TenantLimit)'
                    /\ Bounded(provZ, ProviderOf, ProviderLimit)'
  BY <1>1 DEF LimitInv
<1>2. TypeOK /\ Renewal(a) /\ \A b \in Attempts : Punctual(b)
  BY DEF LeaseInv, LimitInv
<1>3. ASSUME NEW b \in Attempts PROVE Punctual(b)'
  <2>1. Punctual(b)
    BY <1>2
  <2>2. CASE b = a
    <3>1. now \in Nat /\ due[a] \in Nat /\ lease[a] \in Nat
      BY <1>2, ClockIsNat DEF TypeOK
    <3>2. now = due[a] /\ lease[a] + Interval = now + TTL
      BY <1>1, <2>1, <2>2, <3>1 DEF Punctual
    <3>3. sent'[a] = Clock(a) /\ due'[a] = now + Interval /\ Clock(a)' = Clock(a)
          /\ sent'[a] # 0
      BY <1>1, <1>2, ClockIsNat DEF TypeOK, Clock
    <3>4. stage[a] = "running"
      BY <1>1, <1>2 DEF Renewal
    <3>5. tenantZ[a] = lease[a] + Skew[a] /\ provZ[a] = lease[a] + Skew[a]
      BY <1>1, <2>1, <2>2 DEF Punctual, Renewed
    <3> QED BY <1>1, <2>2, <3>2, <3>3, <3>4, <3>5 DEF Punctual, Renewed
  <2>3. CASE b # a
    <3>1. sent'[b] = sent[b] /\ due'[b] = due[b]
      BY <1>1, <1>2, <2>3 DEF TypeOK
    <3> QED BY <1>1, <2>1, <3>1 DEF Punctual, Renewed, Clock
  <2> QED BY <2>2, <2>3
<1>4. (Bounded(tenantZ, TenantOf, TenantLimit) /\ Bounded(provZ, ProviderOf, ProviderLimit))'
  BY <1>1 DEF LimitInv, Bounded, Present, Members
<1> QED
  BY <1>3, <1>4

LEMMA RenewRunLimit ==
    ASSUME ClocksClose, LeaseInv, LimitInv, NEW a \in Attempts, RenewRun(a)
    PROVE  LimitInv'
<1> USE SemaphoreAssumption
<1>1. /\ sent[a] # 0 /\ RenewScript(a)
      /\ keeper' = [keeper EXCEPT ![a] = @ /\ LeaseExists(a)]
      /\ sent' = [sent EXCEPT ![a] = 0]
      /\ UNCHANGED <<now, stage, due, ended, faults>>
  BY DEF RenewRun
<1> SUFFICES ASSUME faults = 0
             PROVE  /\ \A b \in Attempts : Punctual(b)'
                    /\ Bounded(tenantZ, TenantOf, TenantLimit)'
                    /\ Bounded(provZ, ProviderOf, ProviderLimit)'
  BY <1>1 DEF LimitInv
<1>2. TypeOK /\ Renewal(a) /\ \A b \in Attempts : Punctual(b)
  BY DEF LeaseInv, LimitInv
<1>3. /\ Bounded(tenantZ, TenantOf, TenantLimit) /\ Bounded(provZ, ProviderOf, ProviderLimit)
      /\ TenantLimit \in Nat /\ ProviderLimit \in Nat
  BY DEF LimitInv
<1>4. /\ sent'[a] = 0 /\ keeper'[a] = (keeper[a] /\ LeaseExists(a))
      /\ \A b \in Attempts : b # a => sent'[b] = sent[b] /\ keeper'[b] = keeper[b]
      /\ \A b \in Attempts : Clock(b)' = Clock(b)
  BY <1>1, <1>2 DEF TypeOK, Clock
<1>5. CASE stage[a] = "released"
  <2>1. ~LeaseExists(a)
    BY <1>5 DEF LeaseExists, LeaseInv, ReleasedStaysFree
  <2>2. UNCHANGED <<tenantZ, provZ, lease>>
    BY <1>1, <2>1 DEF RenewScript, zsets
  <2>3. ~keeper[a]
    BY <1>2, <1>5 DEF Renewal
  <2>4. ASSUME NEW b \in Attempts PROVE Punctual(b)'
    <3>1. Punctual(b)
      BY <1>2
    <3> QED BY <1>1, <1>4, <1>5, <2>2, <2>3, <3>1 DEF Punctual, Renewed
  <2>5. (Bounded(tenantZ, TenantOf, TenantLimit) /\ Bounded(provZ, ProviderOf, ProviderLimit))'
    BY <1>3, <2>2 DEF Bounded, Present, Members
  <2> QED BY <2>4, <2>5
<1>6. CASE stage[a] # "released"
  <2>1. /\ Renewed(a) /\ LeaseExists(a)
        /\ tenantZ[a] = lease[a] + Skew[a] /\ provZ[a] = lease[a] + Skew[a]
        /\ sent[a] = Clock(a)
    BY <1>1, <1>2, <1>6, RenewedIsAlive DEF Renewed, Punctual
  <2>2. /\ now \in Nat /\ lease[a] \in Nat /\ lease[a] # 0 /\ Skew[a] \in Nat
        /\ Clock(a) = now + Skew[a] /\ Clock(a) \in Nat
    BY <1>2, <2>1, ClockIsNat DEF TypeOK, LeaseExists, Clock
  <2>3. /\ tenantZ' = [tenantZ EXCEPT ![a] = Clock(a) + TTL]
        /\ provZ' = [provZ EXCEPT ![a] = Clock(a) + TTL]
        /\ lease' = [lease EXCEPT ![a] = now + TTL]
    BY <1>1, <2>1 DEF RenewScript
  <2>4. /\ tenantZ'[a] = now + Skew[a] + TTL /\ provZ'[a] = now + Skew[a] + TTL
        /\ lease'[a] = now + TTL
        /\ \A b \in Attempts : b # a => /\ tenantZ'[b] = tenantZ[b] /\ provZ'[b] = provZ[b]
                                        /\ lease'[b] = lease[b]
    BY <1>2, <2>2, <2>3 DEF TypeOK
  <2>5. ASSUME NEW b \in Attempts PROVE Punctual(b)'
    <3>1. Punctual(b)
      BY <1>2
    <3>2. CASE b = a
      <4>1. keeper'[a] = keeper[a] /\ (stage[a] = "running" => keeper[a])
            /\ (keeper[a] => due[a] = now + Interval)
        <5>1. keeper[a] \in BOOLEAN
          BY <1>2 DEF TypeOK
        <5>2. keeper'[a] = keeper[a]
          BY <1>4, <2>1, <5>1
        <5> QED BY <1>1, <3>1, <3>2, <5>2 DEF Punctual
      <4>2. now <= now + Interval /\ now + TTL + Interval = now + Interval + TTL
            /\ now + Skew[a] + TTL = now + TTL + Skew[a]
        BY <2>2
      <4> QED BY <1>1, <1>4, <2>4, <3>2, <4>1, <4>2 DEF Punctual, Renewed
    <3>3. CASE b # a
      BY <1>1, <1>4, <2>4, <3>1, <3>3 DEF Punctual, Renewed
    <3> QED BY <3>2, <3>3
  <2>6. tenantZ[a] # 0 /\ provZ[a] # 0
    BY <2>1, <2>2
  <2>7. \A b \in Attempts : (tenantZ'[b] # 0 => tenantZ[b] # 0)
                            /\ (provZ'[b] # 0 => provZ[b] # 0)
    BY <2>4, <2>6
  <2>8. ASSUME NEW tz, tz = tenantZ' PROVE Bounded(tz, TenantOf, TenantLimit)
    BY <1>3, <2>7, <2>8, BoundedShrinks
  <2>9. ASSUME NEW pz, pz = provZ' PROVE Bounded(pz, ProviderOf, ProviderLimit)
    BY <1>3, <2>7, <2>9, BoundedShrinks
  <2>10. (Bounded(tenantZ, TenantOf, TenantLimit) /\ Bounded(provZ, ProviderOf, ProviderLimit))'
    BY <2>8, <2>9 DEF Bounded, Present, Members
  <2> QED BY <2>5, <2>10
<1> QED
  BY <1>5, <1>6

LEMMA EndLimit ==
    ASSUME LeaseInv, LimitInv, NEW a \in Attempts, Settle(a) \/ Crash(a) \/ Release(a)
    PROVE  LimitInv'
<1> USE SemaphoreAssumption
<1> DEFINE Ends(s) ==
             /\ stage' = [stage EXCEPT ![a] = s]
             /\ stage[a] \in {"running", "settled"}
             /\ keeper' = [keeper EXCEPT ![a] = FALSE] \/ (keeper' = keeper /\ s = "released")
             /\ \/ s # "released" /\ UNCHANGED <<tenantZ, provZ, lease>>
                \/ /\ s = "released" /\ stage[a] = "settled"
                   /\ tenantZ' = [tenantZ EXCEPT ![a] = 0]
                   /\ provZ' = [provZ EXCEPT ![a] = 0]
                   /\ lease' = [lease EXCEPT ![a] = 0]
             /\ UNCHANGED <<now, due, sent, faults>>
<1>0. PICK s \in {"settled", "dead", "released"} : Ends(s)
  <2>1. Settle(a) => Ends("settled")
    BY DEF Settle, zsets
  <2>2. Crash(a) => Ends("dead")
    BY DEF Crash, zsets
  <2>3. Release(a) => Ends("released")
    BY DEF Release
  <2> HIDE DEF Ends
  <2> QED BY <2>1, <2>2, <2>3
<1> SUFFICES ASSUME faults = 0
             PROVE  /\ \A b \in Attempts : Punctual(b)'
                    /\ Bounded(tenantZ, TenantOf, TenantLimit)'
                    /\ Bounded(provZ, ProviderOf, ProviderLimit)'
  BY <1>0 DEF LimitInv
<1>1. TypeOK /\ Renewal(a) /\ \A b \in Attempts : Punctual(b)
  BY DEF LeaseInv, LimitInv
<1>2. /\ Bounded(tenantZ, TenantOf, TenantLimit) /\ Bounded(provZ, ProviderOf, ProviderLimit)
      /\ TenantLimit \in Nat /\ ProviderLimit \in Nat
  BY DEF LimitInv
<1>3. stage'[a] = s /\ ~keeper'[a]
  BY <1>0, <1>1 DEF TypeOK, Renewal
<1>4. \A b \in Attempts : b # a =>
        /\ stage'[b] = stage[b] /\ keeper'[b] = keeper[b] /\ lease'[b] = lease[b]
        /\ tenantZ'[b] = tenantZ[b] /\ provZ'[b] = provZ[b]
  BY <1>0, <1>1 DEF TypeOK
<1>5. ASSUME NEW b \in Attempts PROVE Punctual(b)'
  <2>1. Punctual(b)
    BY <1>1
  <2>2. CASE b = a
    <3>1. s # "released" => UNCHANGED <<tenantZ, provZ, lease>>
      BY <1>0
    <3>2. stage[a] # "released" /\ s # "running"
      BY <1>0
    <3> QED BY <1>0, <1>3, <2>1, <2>2, <3>1, <3>2 DEF Punctual, Renewed, Clock
  <2>3. CASE b # a
    BY <1>0, <1>4, <2>1, <2>3 DEF Punctual, Renewed, Clock
  <2> QED BY <2>2, <2>3
<1>6. \A b \in Attempts : (tenantZ'[b] # 0 => tenantZ[b] # 0)
                          /\ (provZ'[b] # 0 => provZ[b] # 0)
  BY <1>0, <1>1 DEF TypeOK
<1>7. ASSUME NEW tz, tz = tenantZ' PROVE Bounded(tz, TenantOf, TenantLimit)
  BY <1>2, <1>6, <1>7, BoundedShrinks
<1>8. ASSUME NEW pz, pz = provZ' PROVE Bounded(pz, ProviderOf, ProviderLimit)
  BY <1>2, <1>6, <1>8, BoundedShrinks
<1>9. (Bounded(tenantZ, TenantOf, TenantLimit) /\ Bounded(provZ, ProviderOf, ProviderLimit))'
  BY <1>7, <1>8 DEF Bounded, Present, Members
<1> QED
  BY <1>5, <1>9

LEMMA TickLimit == ASSUME LeaseInv, LimitInv, Tick PROVE LimitInv'
<1> USE SemaphoreAssumption
<1>1. /\ now' = now + 1
      /\ \A a \in Attempts : sent[a] = 0 /\ (keeper[a] => now < due[a])
      /\ UNCHANGED <<tenantZ, provZ, lease, stage, keeper, due, sent, ended, faults>>
  BY DEF Tick, zsets
<1> SUFFICES ASSUME faults = 0
             PROVE  /\ \A b \in Attempts : Punctual(b)'
                    /\ Bounded(tenantZ, TenantOf, TenantLimit)'
                    /\ Bounded(provZ, ProviderOf, ProviderLimit)'
  BY <1>1 DEF LimitInv
<1>2. TypeOK /\ \A b \in Attempts : Punctual(b)
  BY DEF LeaseInv, LimitInv
<1>3. ASSUME NEW b \in Attempts PROVE Punctual(b)'
  <2>1. now \in Nat /\ due[b] \in Nat
    BY <1>2, ClockIsNat DEF TypeOK
  <2>2. Punctual(b)
    BY <1>2
  <2> QED BY <1>1, <2>1, <2>2 DEF Punctual, Renewed
<1>4. (Bounded(tenantZ, TenantOf, TenantLimit) /\ Bounded(provZ, ProviderOf, ProviderLimit))'
  BY <1>1 DEF LimitInv, Bounded, Present, Members
<1> QED
  BY <1>3, <1>4

\* After a failed call the limits are no longer claimed.
LEMMA FaultLimit ==
    ASSUME LeaseInv, NEW a \in Attempts,
           AcquireUnanswered(a) \/ RenewFails(a) \/ ReleaseFails(a)
    PROVE  LimitInv'
<1>1. faults \in Nat /\ faults' = faults + 1
  BY SemaphoreAssumption
     DEF LeaseInv, TypeOK, AcquireUnanswered, RenewFails, ReleaseFails, Fault
<1> QED
  BY <1>1 DEF LimitInv

LEMMA NextLimit ==
    ASSUME ClocksClose
    PROVE  LeaseInv /\ LimitInv /\ [Next]_vars => LimitInv'
<1> SUFFICES ASSUME LeaseInv, LimitInv, [Next]_vars PROVE LimitInv'
  OBVIOUS
<1>1. CASE UNCHANGED vars
  BY <1>1 DEF vars, LimitInv, Punctual, Renewed, Clock, Bounded, Present, Members
<1> QED
  BY <1>1, AcquireLimit, RenewSendLimit, RenewRunLimit, EndLimit, TickLimit, FaultLimit
     DEF Next

\* The inductive invariant gives what the run checks.
LEMMA LimitsHold ==
    ASSUME ClocksClose
    PROVE  LeaseInv /\ LimitInv => SemaphoreInv
<1> USE SemaphoreAssumption
<1> SUFFICES ASSUME LeaseInv, LimitInv, faults = 0, NEW a \in Attempts
             PROVE  /\ WithinLimit(Running(TenantOf, a), TenantLimit)
                    /\ WithinLimit(Running(ProviderOf, a), ProviderLimit)
                    /\ TenantLimit # 0 => Members(tenantZ, TenantOf, a) <= TenantLimit
                    /\ ProviderLimit # 0 => Members(provZ, ProviderOf, a) <= ProviderLimit
  BY DEF LeaseInv, SemaphoreInv, WithinLimits
<1>1. TypeOK /\ \A b \in Attempts : Punctual(b)
  BY DEF LeaseInv, LimitInv
<1>2. \A b \in Attempts : stage[b] = "running" => tenantZ[b] # 0 /\ provZ[b] # 0
  <2> SUFFICES ASSUME NEW b \in Attempts, stage[b] = "running"
               PROVE  tenantZ[b] # 0 /\ provZ[b] # 0
    OBVIOUS
  <2>1. Renewed(b)
    BY <1>1 DEF Punctual, Renewed
  <2>2. Clock(b) < tenantZ[b] /\ Clock(b) < provZ[b]
    BY <1>1, <2>1, RenewedIsAlive
  <2> QED BY <1>1, <2>2, ClockIsNat
<1>3. ASSUME NEW z, NEW group, NEW limit \in Nat, Bounded(z, group, limit),
             \A b \in Attempts : stage[b] = "running" => z[b] # 0
      PROVE  WithinLimit(Running(group, a), limit)
  <2>1. Running(group, a) \in SUBSET Group(z, group, a)
    BY <1>3 DEF Running, Group
  <2>2. Group(z, group, a) \in SUBSET Present(z) /\ IsFiniteSet(Present(z))
    BY <1>3 DEF Group, Present, Bounded
  <2>3. IsFiniteSet(Group(z, group, a))
    BY <2>2, FS_Subset
  <2>4. /\ Cardinality(Running(group, a)) <= Cardinality(Group(z, group, a))
        /\ IsFiniteSet(Running(group, a))
    BY <2>1, <2>3, FS_Subset
  <2>5. Cardinality(Running(group, a)) \in Nat /\ Cardinality(Group(z, group, a)) \in Nat
    BY <2>3, <2>4, FS_CardinalityType
  <2>6. limit # 0 => Cardinality(Group(z, group, a)) <= limit
    BY <1>3 DEF Bounded, Members, Group
  <2> QED BY <1>3, <2>4, <2>5, <2>6 DEF WithinLimit
<1>4. /\ Bounded(tenantZ, TenantOf, TenantLimit) /\ Bounded(provZ, ProviderOf, ProviderLimit)
      /\ TenantLimit \in Nat /\ ProviderLimit \in Nat
  BY DEF LimitInv
<1>5. /\ WithinLimit(Running(TenantOf, a), TenantLimit)
      /\ WithinLimit(Running(ProviderOf, a), ProviderLimit)
  BY <1>2, <1>3, <1>4
<1> QED
  BY <1>4, <1>5 DEF Bounded

\* With clocks that are close, no failed call and any number of attempts of any
\* tenants to any providers, both limits hold over the whole cluster and the two
\* sets they are counted in agree.
THEOREM LimitsHoldClusterWide ==
    ASSUME ClocksClose
    PROVE  Spec => []SemaphoreInv
<1>1. Init => LimitInv
  BY InitLimit
<1>2. LeaseInv /\ LimitInv /\ [Next]_vars => LimitInv'
  BY NextLimit
<1>3. LeaseInv /\ LimitInv => SemaphoreInv
  BY LimitsHold
<1> QED
  BY <1>1, <1>2, <1>3, LeaseInvariant, PTL DEF Spec

=============================================================================
