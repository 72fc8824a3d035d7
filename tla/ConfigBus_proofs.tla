-------------------------- MODULE ConfigBus_proofs --------------------------
(***************************************************************************)
(* The configuration bus is safe for any number of tenants, publishers,    *)
(* gateway processes, generations and faults.                              *)
(***************************************************************************)
EXTENDS ConfigBus, TLAPS

\* A publisher between its upsert and its commit holds the tenant's row: its
\* generation is the next one, and nobody else's.
RowHeld ==
  /\ \A p \in Publishers :
       call[p].stage = "allocated" => call[p].gen = generation[call[p].tenant] + 1
  /\ \A p, q \in Publishers :
       /\ call[p].stage = "allocated" /\ call[q].stage = "allocated"
       /\ call[p].tenant = call[q].tenant
       => p = q

\* What a publisher announces, what a process has yet to observe and what is
\* marked published are committed generations.
AnnouncedIsCommitted ==
  /\ \A p \in Publishers :
       call[p].stage \in {"committed", "sent"}
         => call[p].gen \in 1 .. generation[call[p].tenant]
  /\ \A n \in Nodes : \A i \in DOMAIN channel[n] :
       channel[n][i].gen \in 1 .. generation[channel[n][i].tenant]
  /\ \A n \in Nodes : \A m \in pass[n] : m.gen \in 1 .. generation[m.tenant]
  /\ \A t \in Tenants : published[t] \subseteq 1 .. generation[t]

\* One Observe call at a time in a process, and it acts on a committed
\* generation that is ahead of the fence.  Once it has loaded a snapshot, that
\* snapshot is no older than the generation observed and the snapshot applied.
Exclusive ==
  \A n \in Nodes : \A v, w \in Workers :
    work[n][v].at # "none" /\ work[n][w].at # "none" => v = w

ReloadsForward ==
  \A n \in Nodes : \A w \in Workers :
    LET x == work[n][w]
    IN  /\ x.at # "none" =>
             fence[n][x.tenant] < x.gen /\ x.gen <= generation[x.tenant]
        /\ x.at = "apply" =>
             /\ x.gen <= x.snap /\ loaded[n][x.tenant] <= x.snap
             /\ x.snap <= generation[x.tenant]

\* The inductive invariant.
BusIInv ==
  /\ TypeOK
  /\ OutboxGapless
  /\ RowHeld
  /\ AnnouncedIsCommitted
  /\ Exclusive
  /\ ReloadsForward
  /\ FenceBehindSnapshot

-----------------------------------------------------------------------------
LEMMA SomeTenantIsOne == SomeTenant \in Tenants
  BY BusAssumption DEF SomeTenant

LEMMA InitBus == Init => BusIInv
<1> USE BusAssumption, SomeTenantIsOne
<1> SUFFICES ASSUME Init PROVE BusIInv
  OBVIOUS
<1>1. TypeOK
  BY DEF Init, TypeOK, ZeroPerTenant, IdleCall, IdleWork, Notification
<1>2. OutboxGapless /\ FenceBehindSnapshot
  BY DEF Init, OutboxGapless, FenceBehindSnapshot, ZeroPerTenant
<1>3. RowHeld /\ AnnouncedIsCommitted
  BY DEF Init, RowHeld, AnnouncedIsCommitted, IdleCall, ZeroPerTenant
<1>4. Exclusive /\ ReloadsForward
  BY DEF Init, Exclusive, ReloadsForward, IdleWork
<1> QED
  BY <1>1, <1>2, <1>3, <1>4 DEF BusIInv

-----------------------------------------------------------------------------
(* The publisher's steps. *)

LEMMA AllocateBus ==
    ASSUME BusIInv, NEW p \in Publishers, NEW t \in Tenants, Allocate(p, t)
    PROVE  BusIInv'
<1> USE BusAssumption DEF BusIInv, Allocate
<1>1. TypeOK'
  BY DEF TypeOK
<1>2. RowHeld'
  BY DEF TypeOK, RowHeld, GenerationRowFree
<1>3. AnnouncedIsCommitted'
  BY DEF TypeOK, AnnouncedIsCommitted
<1>4. (OutboxGapless /\ Exclusive /\ ReloadsForward /\ FenceBehindSnapshot)'
  BY DEF OutboxGapless, Exclusive, ReloadsForward, FenceBehindSnapshot
<1> QED
  BY <1>1, <1>2, <1>3, <1>4

LEMMA CommitBus ==
    ASSUME BusIInv, NEW p \in Publishers, Commit(p)
    PROVE  BusIInv'
<1> USE BusAssumption DEF BusIInv
<1> DEFINE t == call[p].tenant
<1>a. call[p] \in [stage : {"idle", "allocated", "committed", "sent"},
                   tenant : Tenants, gen : 0 .. MaxGen]
  BY DEF TypeOK
<1>b. t \in Tenants /\ call[p].gen \in 0 .. MaxGen /\ generation[t] \in 0 .. MaxGen
  BY <1>a DEF TypeOK
<1>c. call[p].gen = generation[t] + 1
  BY DEF Commit, RowHeld
<1>0. /\ t \in Tenants /\ generation[t] \in Nat /\ generation[t] + 1 \in 1 .. MaxGen
      /\ generation' = [generation EXCEPT ![t] = generation[t] + 1]
      /\ outbox' = [outbox EXCEPT ![t] = @ \union {generation[t] + 1}]
      /\ call' = [call EXCEPT ![p].stage = "committed"]
      /\ call[p].stage = "allocated" /\ call[p].gen = generation[t] + 1
      /\ UNCHANGED <<published, channel, subscribed, pass, work, fence, loaded, up,
                     faults>>
  BY <1>b, <1>c DEF Commit
<1> HIDE DEF t
<1>1. TypeOK'
  <2>1. generation' \in [Tenants -> 0 .. MaxGen]
    BY <1>0 DEF TypeOK
  <2>2. outbox' \in [Tenants -> SUBSET (1 .. MaxGen)]
    BY <1>0 DEF TypeOK
  <2>3. call' \in [Publishers -> [stage : {"idle", "allocated", "committed", "sent"},
                                  tenant : Tenants, gen : 0 .. MaxGen]]
    BY <1>0, <1>a DEF TypeOK
  <2> QED BY <1>0, <2>1, <2>2, <2>3 DEF TypeOK
<1>2. \A u \in Tenants : generation[u] \in Nat /\ generation'[u] \in Nat
                         /\ generation[u] <= generation'[u]
  BY <1>0 DEF TypeOK
<1>3. OutboxGapless'
  <2> SUFFICES ASSUME NEW u \in Tenants PROVE outbox'[u] = 1 .. generation'[u]
    BY DEF OutboxGapless
  <2>1. CASE u = t
    <3>1. outbox'[u] = (1 .. generation[u]) \union {generation[u] + 1}
      BY <1>0, <2>1 DEF TypeOK, OutboxGapless
    <3>2. generation'[u] = generation[u] + 1 /\ generation[u] \in Nat
      BY <1>0, <2>1 DEF TypeOK
    <3> QED BY <3>1, <3>2
  <2>2. CASE u # t
    BY <1>0, <2>2 DEF TypeOK, OutboxGapless
  <2> QED BY <2>1, <2>2
<1>4. RowHeld'
  <2>1. \A q \in Publishers : q # p => call'[q] = call[q]
    BY <1>0 DEF TypeOK
  <2>2. call'[p].stage = "committed"
    BY <1>0 DEF TypeOK
  <2>3. \A q \in Publishers : q # p /\ call[q].stage = "allocated" => call[q].tenant # t
    BY <1>0 DEF RowHeld, t
  <2>4. \A u \in Tenants : u # t => generation'[u] = generation[u]
    BY <1>0 DEF TypeOK
  <2>5. \A q \in Publishers : call[q].tenant \in Tenants
    BY DEF TypeOK
  <2> QED BY <2>1, <2>2, <2>3, <2>4, <2>5 DEF RowHeld
<1>5. AnnouncedIsCommitted'
  <2>1. \A q \in Publishers :
          call'[q].stage \in {"committed", "sent"}
            => call'[q].gen \in 1 .. generation'[call'[q].tenant]
    <3> SUFFICES ASSUME NEW q \in Publishers, call'[q].stage \in {"committed", "sent"}
                 PROVE  call'[q].gen \in 1 .. generation'[call'[q].tenant]
      OBVIOUS
    <3>1. CASE q = p
      <4>1. call'[p].tenant = t /\ call'[p].gen = generation[t] + 1
        BY <1>0, <1>a DEF TypeOK, t
      <4>2. generation'[t] = generation[t] + 1
        BY <1>0 DEF TypeOK
      <4> QED BY <1>0, <3>1, <4>1, <4>2
    <3>2. CASE q # p
      <4>1. call'[q] = call[q] /\ call[q].tenant \in Tenants /\ call[q].gen \in Nat
        BY <1>0, <3>2 DEF TypeOK
      <4> QED BY <1>2, <4>1 DEF AnnouncedIsCommitted
    <3> QED BY <3>1, <3>2
  <2>2. \A n \in Nodes : \A i \in DOMAIN channel[n] :
          channel[n][i].gen \in 1 .. generation'[channel[n][i].tenant]
    <3> SUFFICES ASSUME NEW n \in Nodes, NEW i \in DOMAIN channel[n]
                 PROVE  channel[n][i].gen \in 1 .. generation'[channel[n][i].tenant]
      OBVIOUS
    <3>1. channel[n][i] \in Notification
      BY DEF TypeOK
    <3>2. channel[n][i].tenant \in Tenants /\ channel[n][i].gen \in Nat
      BY <3>1 DEF Notification
    <3> QED BY <1>2, <3>2 DEF AnnouncedIsCommitted
  <2>3. \A n \in Nodes : \A m \in pass[n] : m.gen \in 1 .. generation'[m.tenant]
    BY <1>0, <1>2 DEF TypeOK, AnnouncedIsCommitted, Notification
  <2>4. \A u \in Tenants : published[u] \subseteq 1 .. generation'[u]
    BY <1>0, <1>2 DEF TypeOK, AnnouncedIsCommitted
  <2> QED BY <1>0, <2>1, <2>2, <2>3, <2>4 DEF AnnouncedIsCommitted
<1>6. ReloadsForward'
  <2>1. \A n \in Nodes : \A w \in Workers :
          work[n][w].tenant \in Tenants /\ work[n][w].gen \in Nat /\ work[n][w].snap \in Nat
    BY DEF TypeOK
  <2>2. UNCHANGED <<work, fence, loaded>>
    BY <1>0
  <2> QED BY <1>2, <2>1, <2>2 DEF ReloadsForward
<1>7. FenceBehindSnapshot'
  BY <1>0, <1>2 DEF TypeOK, FenceBehindSnapshot
<1>8. Exclusive'
  BY <1>0 DEF Exclusive
<1> QED
  BY <1>1, <1>3, <1>4, <1>5, <1>6, <1>7, <1>8

LEMMA RollbackBus ==
    ASSUME BusIInv, NEW p \in Publishers, Rollback(p) \/ NotifyFails(p)
    PROVE  BusIInv'
<1> USE BusAssumption, SomeTenantIsOne DEF BusIInv
<1>0. /\ call' = [call EXCEPT ![p] = IdleCall]
      /\ UNCHANGED <<generation, outbox, published, channel, subscribed, pass, work,
                     fence, loaded, up, faults>>
  BY DEF Rollback, NotifyFails
<1>1. TypeOK'
  BY <1>0 DEF TypeOK, IdleCall
<1>2. RowHeld'
  BY <1>0 DEF TypeOK, RowHeld, IdleCall
<1>3. AnnouncedIsCommitted'
  BY <1>0 DEF TypeOK, AnnouncedIsCommitted, IdleCall
<1>4. (OutboxGapless /\ Exclusive /\ ReloadsForward /\ FenceBehindSnapshot)'
  BY <1>0 DEF OutboxGapless, Exclusive, ReloadsForward, FenceBehindSnapshot
<1> QED
  BY <1>1, <1>2, <1>3, <1>4

LEMMA NotifyBus ==
    ASSUME BusIInv, NEW p \in Publishers, Notify(p)
    PROVE  BusIInv'
<1> USE BusAssumption DEF BusIInv
<1> DEFINE m == [tenant |-> call[p].tenant, gen |-> call[p].gen]
<1>0. PICK reached \in SUBSET {n \in up : subscribed[n]} :
        channel' = [n \in Nodes |-> IF n \in reached THEN Append(channel[n], m)
                                                     ELSE channel[n]]
  BY DEF Notify
<1>1. m \in Notification /\ m.gen \in 1 .. generation[m.tenant]
  BY DEF TypeOK, Notification, Notify, AnnouncedIsCommitted
<1>2. /\ call' = [call EXCEPT ![p].stage = "sent"]
      /\ UNCHANGED <<generation, outbox, published, subscribed, pass, work, fence,
                     loaded, up, faults>>
      /\ call[p].stage = "committed"
  BY DEF Notify
<1>3. \A n \in Nodes : channel'[n] \in Seq(Notification)
  BY <1>0, <1>1 DEF TypeOK
<1>4. TypeOK'
  BY <1>0, <1>2, <1>3 DEF TypeOK
<1>5. RowHeld'
  BY <1>2 DEF TypeOK, RowHeld
<1>6. AnnouncedIsCommitted'
  <2>1. \A q \in Publishers :
          call'[q].stage \in {"committed", "sent"}
            => call'[q].gen \in 1 .. generation[call'[q].tenant]
    BY <1>2 DEF TypeOK, AnnouncedIsCommitted
  <2>2. ASSUME NEW n \in Nodes, NEW i \in DOMAIN channel'[n]
        PROVE  channel'[n][i].gen \in 1 .. generation[channel'[n][i].tenant]
    <3>1. channel[n] \in Seq(Notification)
      BY DEF TypeOK
    <3>2. CASE n \in reached
      <4>1. channel'[n] = Append(channel[n], m)
        BY <1>0, <3>2
      <4>2. i \in 1 .. Len(channel[n]) \/ i = Len(channel[n]) + 1
        BY <3>1, <4>1
      <4>3. CASE i \in 1 .. Len(channel[n])
        <5>1. channel'[n][i] = channel[n][i] /\ i \in DOMAIN channel[n]
          BY <3>1, <4>1, <4>3, <1>1
        <5> QED BY <5>1 DEF AnnouncedIsCommitted
      <4>4. CASE i = Len(channel[n]) + 1
        <5>1. channel'[n][i] = m
          BY <3>1, <4>1, <4>4, <1>1
        <5> QED BY <5>1, <1>1
      <4> QED BY <4>2, <4>3, <4>4
    <3>3. CASE n \notin reached
      BY <1>0, <3>3 DEF AnnouncedIsCommitted
    <3> QED BY <3>2, <3>3
  <2> QED BY <1>2, <2>1, <2>2 DEF AnnouncedIsCommitted
<1>7. (OutboxGapless /\ Exclusive /\ ReloadsForward /\ FenceBehindSnapshot)'
  BY <1>2 DEF OutboxGapless, Exclusive, ReloadsForward, FenceBehindSnapshot
<1> QED
  BY <1>4, <1>5, <1>6, <1>7

LEMMA MarkPublishedBus ==
    ASSUME BusIInv, NEW p \in Publishers, MarkPublished(p)
    PROVE  BusIInv'
<1> USE BusAssumption, SomeTenantIsOne DEF BusIInv
<1>0. /\ call[p].gen \in 1 .. generation[call[p].tenant]
      /\ call[p].tenant \in Tenants
      /\ call' = [call EXCEPT ![p] = IdleCall]
      /\ UNCHANGED <<generation, outbox, channel, subscribed, pass, work, fence,
                     loaded, up, faults>>
      /\ published' = [published EXCEPT ![call[p].tenant] = @ \union {call[p].gen}]
           \/ published' = published
  BY DEF MarkPublished, AnnouncedIsCommitted, TypeOK
<1>1. \A t \in Tenants : published'[t] \subseteq 1 .. generation[t]
  BY <1>0 DEF TypeOK, AnnouncedIsCommitted
<1>2. TypeOK'
  BY <1>0, <1>1 DEF TypeOK, IdleCall
<1>3. RowHeld'
  BY <1>0 DEF TypeOK, RowHeld, IdleCall
<1>4. AnnouncedIsCommitted'
  BY <1>0, <1>1 DEF TypeOK, AnnouncedIsCommitted, IdleCall
<1>5. (OutboxGapless /\ Exclusive /\ ReloadsForward /\ FenceBehindSnapshot)'
  BY <1>0 DEF OutboxGapless, Exclusive, ReloadsForward, FenceBehindSnapshot
<1> QED
  BY <1>2, <1>3, <1>4, <1>5

-----------------------------------------------------------------------------
(* The process's steps. *)

LEMMA StartBus ==
    ASSUME BusIInv, NEW n \in Nodes, Start(n)
    PROVE  BusIInv'
<1> USE BusAssumption DEF BusIInv, Start, source
<1>1. TypeOK'
  BY DEF TypeOK
<1>2. (OutboxGapless /\ RowHeld /\ AnnouncedIsCommitted)'
  BY DEF OutboxGapless, RowHeld, AnnouncedIsCommitted
<1>3. (Exclusive /\ ReloadsForward /\ FenceBehindSnapshot)'
  BY DEF Exclusive, ReloadsForward, FenceBehindSnapshot
<1> QED
  BY <1>1, <1>2, <1>3

LEMMA CrashBus ==
    ASSUME BusIInv, NEW n \in Nodes, Crash(n)
    PROVE  BusIInv'
<1> USE BusAssumption, SomeTenantIsOne DEF BusIInv, Crash, source
<1>1. [w \in Workers |-> IdleWork] \in
         [Workers -> [at : {"none", "load", "apply"}, tenant : Tenants,
                      gen : 0 .. MaxGen, snap : 0 .. MaxGen]]
  BY DEF IdleWork
<1>2. TypeOK'
  <2>1. work' \in [Nodes -> [Workers -> [at : {"none", "load", "apply"}, tenant : Tenants,
                                         gen : 0 .. MaxGen, snap : 0 .. MaxGen]]]
    BY <1>1 DEF TypeOK
  <2>2. channel' \in [Nodes -> Seq(Notification)]
    BY DEF TypeOK
  <2>3. fence' \in [Nodes -> [Tenants -> 0 .. MaxGen]]
        /\ loaded' \in [Nodes -> [Tenants -> 0 .. MaxGen]]
    BY DEF TypeOK, ZeroPerTenant
  <2> QED BY <2>1, <2>2, <2>3 DEF TypeOK
<1>3. (OutboxGapless /\ RowHeld)'
  BY DEF OutboxGapless, RowHeld
<1>4. AnnouncedIsCommitted'
  BY DEF TypeOK, AnnouncedIsCommitted
<1>5. \A w \in Workers : work'[n][w].at = "none"
  BY DEF TypeOK, IdleWork
<1>6. \A k \in Nodes : k # n => /\ work'[k] = work[k] /\ fence'[k] = fence[k]
                                /\ loaded'[k] = loaded[k]
  BY DEF TypeOK
<1>7. \A t \in Tenants : fence'[n][t] = 0 /\ loaded'[n][t] = 0 /\ generation[t] \in Nat
  BY DEF TypeOK, ZeroPerTenant
<1>8. Exclusive' /\ ReloadsForward'
  BY <1>5, <1>6 DEF Exclusive, ReloadsForward
<1>9. FenceBehindSnapshot'
  BY <1>6, <1>7 DEF FenceBehindSnapshot
<1> QED
  BY <1>2, <1>3, <1>4, <1>8, <1>9

LEMMA SubscriptionLostBus ==
    ASSUME BusIInv, NEW n \in Nodes, SubscriptionLost(n)
    PROVE  BusIInv'
<1> USE BusAssumption DEF BusIInv
<1>0. PICK kept \in 0 .. Len(channel[n]) :
        channel' = [channel EXCEPT ![n] = SubSeq(channel[n], 1, kept)]
  BY DEF SubscriptionLost
<1>1. /\ faults' \in 0 .. MaxFaults
      /\ subscribed' = [subscribed EXCEPT ![n] = FALSE]
      /\ UNCHANGED <<generation, outbox, published, call, pass, work, fence, loaded, up>>
  BY DEF SubscriptionLost, source, TypeOK
<1>2. channel[n] \in Seq(Notification)
  BY DEF TypeOK
<1>3. /\ SubSeq(channel[n], 1, kept) \in Seq(Notification)
      /\ \A i \in DOMAIN SubSeq(channel[n], 1, kept) :
           i \in DOMAIN channel[n] /\ SubSeq(channel[n], 1, kept)[i] = channel[n][i]
  BY <1>2
<1>4. TypeOK'
  BY <1>0, <1>1, <1>3 DEF TypeOK
<1>5. \A k \in Nodes : \A i \in DOMAIN channel'[k] :
        i \in DOMAIN channel[k] /\ channel'[k][i] = channel[k][i]
  BY <1>0, <1>3 DEF TypeOK
<1>6. AnnouncedIsCommitted'
  BY <1>1, <1>5 DEF AnnouncedIsCommitted
<1>7. (OutboxGapless /\ RowHeld)'
  BY <1>1 DEF OutboxGapless, RowHeld
<1>8. (Exclusive /\ ReloadsForward /\ FenceBehindSnapshot)'
  BY <1>1 DEF Exclusive, ReloadsForward, FenceBehindSnapshot
<1> QED
  BY <1>4, <1>6, <1>7, <1>8

\* Observing a committed generation keeps the invariant of the workers.
LEMMA ObserveWork ==
    ASSUME BusIInv, NEW n \in Nodes, NEW w \in Workers, NEW m \in Notification,
           m.gen \in 1 .. generation[m.tenant], Observe(n, w, m),
           UNCHANGED <<generation, fence, loaded>>
    PROVE  /\ work' \in [Nodes -> [Workers -> [at : {"none", "load", "apply"},
                          tenant : Tenants, gen : 0 .. MaxGen, snap : 0 .. MaxGen]]]
           /\ Exclusive' /\ ReloadsForward'
<1> USE BusAssumption DEF BusIInv
<1> DEFINE x == [at |-> "load", tenant |-> m.tenant, gen |-> m.gen, snap |-> 0]
<1>1. CASE m.gen <= fence[n][m.tenant]
  BY <1>1 DEF Observe, TypeOK, Exclusive, ReloadsForward
<1>2. CASE ~(m.gen <= fence[n][m.tenant])
  <2>1. m.tenant \in Tenants /\ m.gen \in Nat /\ generation[m.tenant] \in 0 .. MaxGen
        /\ fence[n][m.tenant] \in Nat
    BY DEF Notification, TypeOK
  <2>2. x \in [at : {"none", "load", "apply"}, tenant : Tenants,
               gen : 0 .. MaxGen, snap : 0 .. MaxGen]
    BY <2>1
  <2>3. work' = [work EXCEPT ![n][w] = x] /\ \A v \in Workers : work[n][v].at = "none"
    BY <1>2 DEF Observe, MutexFree
  <2>4. work' \in [Nodes -> [Workers -> [at : {"none", "load", "apply"},
                      tenant : Tenants, gen : 0 .. MaxGen, snap : 0 .. MaxGen]]]
    BY <2>2, <2>3 DEF TypeOK
  <2>5. work'[n][w] = x /\ \A v \in Workers : v # w => work'[n][v].at = "none"
    BY <2>3 DEF TypeOK
  <2>6. \A k \in Nodes : k # n => work'[k] = work[k]
    BY <2>3 DEF TypeOK
  <2>7. Exclusive'
    BY <2>5, <2>6 DEF Exclusive
  <2>8. ReloadsForward'
    <3>1. fence[n][x.tenant] < x.gen /\ x.gen <= generation[x.tenant] /\ x.at # "apply"
      BY <1>2, <2>1
    <3> QED BY <2>5, <2>6, <3>1 DEF ReloadsForward
  <2> QED BY <2>4, <2>7, <2>8
<1> QED
  BY <1>1, <1>2

LEMMA ConsumeBus ==
    ASSUME BusIInv, NEW n \in Nodes, Consume(n)
    PROVE  BusIInv'
<1> USE BusAssumption DEF BusIInv
<1>1. /\ channel[n] # <<>> /\ Observe(n, "consumer", Head(channel[n]))
      /\ channel' = [channel EXCEPT ![n] = Tail(channel[n])]
      /\ UNCHANGED <<generation, outbox, published, call, subscribed, pass, fence,
                     loaded, up, faults>>
  BY DEF Consume, source
<1>2. channel[n] \in Seq(Notification)
  BY DEF TypeOK
<1>3. Head(channel[n]) = channel[n][1] /\ 1 \in DOMAIN channel[n]
      /\ Head(channel[n]) \in Notification
  BY <1>1, <1>2
<1>4. Head(channel[n]).gen \in 1 .. generation[Head(channel[n]).tenant]
  BY <1>3 DEF AnnouncedIsCommitted
<1>5. /\ work' \in [Nodes -> [Workers -> [at : {"none", "load", "apply"},
                      tenant : Tenants, gen : 0 .. MaxGen, snap : 0 .. MaxGen]]]
      /\ Exclusive' /\ ReloadsForward'
  BY <1>1, <1>3, <1>4, ObserveWork DEF Workers
<1>6. /\ Tail(channel[n]) \in Seq(Notification)
      /\ \A i \in DOMAIN Tail(channel[n]) :
           i + 1 \in DOMAIN channel[n] /\ Tail(channel[n])[i] = channel[n][i + 1]
  BY <1>1, <1>2
<1>7. TypeOK'
  BY <1>1, <1>5, <1>6 DEF TypeOK
<1>8. \A k \in Nodes : \A i \in DOMAIN channel'[k] : \E j \in DOMAIN channel[k] :
        channel'[k][i] = channel[k][j]
  BY <1>1, <1>6 DEF TypeOK
<1>9. AnnouncedIsCommitted'
  BY <1>1, <1>8 DEF AnnouncedIsCommitted
<1>10. (OutboxGapless /\ RowHeld /\ FenceBehindSnapshot)'
  BY <1>1 DEF OutboxGapless, RowHeld, FenceBehindSnapshot
<1> QED
  BY <1>5, <1>7, <1>9, <1>10

LEMMA TickBus ==
    ASSUME BusIInv, NEW n \in Nodes, Tick(n)
    PROVE  BusIInv'
<1> USE BusAssumption DEF BusIInv
<1> DEFINE listed == {[tenant |-> t, gen |-> generation[t]] :
                         t \in {u \in Tenants : generation[u] > 0}}
<1>1. /\ pass' = [pass EXCEPT ![n] = listed]
      /\ UNCHANGED <<generation, outbox, published, call, channel, subscribed, work,
                     fence, loaded, up, faults>>
  BY DEF Tick, source
<1>2. \A m \in listed : m \in Notification /\ m.gen \in 1 .. generation[m.tenant]
  BY DEF Notification, TypeOK
<1> HIDE DEF listed
<1>3. TypeOK'
  BY <1>1, <1>2 DEF TypeOK
<1>4. AnnouncedIsCommitted'
  BY <1>1, <1>2 DEF AnnouncedIsCommitted, TypeOK
<1>5. (OutboxGapless /\ RowHeld)'
  BY <1>1 DEF OutboxGapless, RowHeld
<1>6. (Exclusive /\ ReloadsForward /\ FenceBehindSnapshot)'
  BY <1>1 DEF Exclusive, ReloadsForward, FenceBehindSnapshot
<1> QED
  BY <1>3, <1>4, <1>5, <1>6

LEMMA ReconcileOneBus ==
    ASSUME BusIInv, NEW n \in Nodes, ReconcileOne(n)
    PROVE  BusIInv'
<1> USE BusAssumption DEF BusIInv
<1>1. PICK m \in pass[n] : /\ Observe(n, "ticker", m)
                           /\ pass' = [pass EXCEPT ![n] = @ \ {m}]
  BY DEF ReconcileOne
<1>2. UNCHANGED <<generation, outbox, published, call, channel, subscribed, fence,
                  loaded, up, faults>>
  BY DEF ReconcileOne, source
<1>3. m \in Notification /\ m.gen \in 1 .. generation[m.tenant]
  BY DEF TypeOK, AnnouncedIsCommitted
<1>4. /\ work' \in [Nodes -> [Workers -> [at : {"none", "load", "apply"},
                      tenant : Tenants, gen : 0 .. MaxGen, snap : 0 .. MaxGen]]]
      /\ Exclusive' /\ ReloadsForward'
  BY <1>1, <1>2, <1>3, ObserveWork DEF Workers
<1>5. TypeOK'
  BY <1>1, <1>2, <1>4 DEF TypeOK
<1>6. AnnouncedIsCommitted'
  BY <1>1, <1>2 DEF AnnouncedIsCommitted, TypeOK
<1>7. (OutboxGapless /\ RowHeld /\ FenceBehindSnapshot)'
  BY <1>2 DEF OutboxGapless, RowHeld, FenceBehindSnapshot
<1> QED
  BY <1>4, <1>5, <1>6, <1>7

LEMMA LoadBus ==
    ASSUME BusIInv, NEW n \in Nodes, NEW w \in Workers, Load(n, w)
    PROVE  BusIInv'
<1> USE BusAssumption DEF BusIInv
<1> DEFINE x == work[n][w]
           y == [x EXCEPT !.at = "apply", !.snap = generation[x.tenant]]
<1>1. /\ x.at = "load" /\ work' = [work EXCEPT ![n][w] = y]
      /\ UNCHANGED <<generation, outbox, published, call, channel, subscribed, pass,
                     fence, loaded, up, faults>>
  BY DEF Load, source
<1>2. x \in [at : {"none", "load", "apply"}, tenant : Tenants,
             gen : 0 .. MaxGen, snap : 0 .. MaxGen]
  BY DEF TypeOK
<1>3. /\ y \in [at : {"none", "load", "apply"}, tenant : Tenants,
                gen : 0 .. MaxGen, snap : 0 .. MaxGen]
      /\ y.at = "apply" /\ y.tenant = x.tenant /\ y.gen = x.gen
      /\ y.snap = generation[x.tenant]
  BY <1>2 DEF TypeOK
<1>4. /\ fence[n][x.tenant] < x.gen /\ x.gen <= generation[x.tenant]
      /\ loaded[n][x.tenant] <= generation[x.tenant]
  BY <1>1, <1>2 DEF ReloadsForward, FenceBehindSnapshot
<1> HIDE DEF y
<1>5. TypeOK'
  BY <1>1, <1>3 DEF TypeOK
<1>6. /\ work'[n][w] = y /\ \A v \in Workers : v # w => work'[n][v] = work[n][v]
      /\ \A k \in Nodes : k # n => work'[k] = work[k]
  BY <1>1 DEF TypeOK
<1>7. Exclusive'
  BY <1>1, <1>6 DEF Exclusive
<1>8. ReloadsForward'
  <2>1. generation[x.tenant] <= generation[x.tenant]
    BY <1>2 DEF TypeOK
  <2> QED BY <1>1, <1>3, <1>4, <1>6, <2>1 DEF ReloadsForward
<1>9. (OutboxGapless /\ RowHeld /\ AnnouncedIsCommitted /\ FenceBehindSnapshot)'
  BY <1>1 DEF OutboxGapless, RowHeld, AnnouncedIsCommitted, FenceBehindSnapshot
<1> QED
  BY <1>5, <1>7, <1>8, <1>9

\* Applying a snapshot takes the process forward, and no other worker of it is
\* in the middle of a reload.
LEMMA ApplyForward ==
    ASSUME BusIInv, NEW n \in Nodes, NEW w \in Workers, Apply(n, w)
    PROVE  /\ fence' \in [Nodes -> [Tenants -> 0 .. MaxGen]]
           /\ loaded' \in [Nodes -> [Tenants -> 0 .. MaxGen]]
           /\ \A k \in Nodes, t \in Tenants :
                /\ fence[k][t] <= fence'[k][t] /\ loaded[k][t] <= loaded'[k][t]
                /\ fence'[k][t] <= loaded'[k][t] /\ loaded'[k][t] <= generation[t]
           /\ \A k \in Nodes : k # n => fence'[k] = fence[k] /\ loaded'[k] = loaded[k]
<1> USE BusAssumption DEF BusIInv
<1> DEFINE x == work[n][w]
<1>1. /\ x.at = "apply"
      /\ loaded' = [loaded EXCEPT ![n][x.tenant] = x.snap]
      /\ fence' = [fence EXCEPT ![n][x.tenant] = x.gen]
  BY DEF Apply
<1>2. x.tenant \in Tenants /\ x.gen \in 0 .. MaxGen /\ x.snap \in 0 .. MaxGen
  BY DEF TypeOK
<1>3. /\ fence[n][x.tenant] < x.gen /\ x.gen <= x.snap
      /\ loaded[n][x.tenant] <= x.snap /\ x.snap <= generation[x.tenant]
  BY <1>1 DEF ReloadsForward
<1> HIDE DEF x
<1>4. /\ fence' \in [Nodes -> [Tenants -> 0 .. MaxGen]]
      /\ loaded' \in [Nodes -> [Tenants -> 0 .. MaxGen]]
  BY <1>1, <1>2 DEF TypeOK
<1>5. \A k \in Nodes : k # n => fence'[k] = fence[k] /\ loaded'[k] = loaded[k]
  BY <1>1 DEF TypeOK
<1>6. ASSUME NEW k \in Nodes, NEW t \in Tenants
      PROVE  /\ fence[k][t] <= fence'[k][t] /\ loaded[k][t] <= loaded'[k][t]
             /\ fence'[k][t] <= loaded'[k][t] /\ loaded'[k][t] <= generation[t]
  <2>1. fence[k][t] \in Nat /\ loaded[k][t] \in Nat
    BY DEF TypeOK
  <2>2. CASE k = n /\ t = x.tenant
    <3>1. fence'[k][t] = x.gen /\ loaded'[k][t] = x.snap
      BY <1>1, <1>2, <2>2 DEF TypeOK
    <3> QED BY <1>2, <1>3, <2>1, <2>2, <3>1
  <2>3. CASE ~(k = n /\ t = x.tenant)
    <3>1. fence'[k][t] = fence[k][t] /\ loaded'[k][t] = loaded[k][t]
      BY <1>1, <1>2, <2>3 DEF TypeOK
    <3> QED BY <2>1, <3>1 DEF FenceBehindSnapshot
  <2> QED BY <2>2, <2>3
<1> QED
  BY <1>4, <1>5, <1>6

\* A worker that ends its Observe call leaves the other reloads alone.
LEMMA WorkEnds ==
    ASSUME BusIInv, NEW n \in Nodes, NEW w \in Workers, work[n][w].at # "none",
           work' = [work EXCEPT ![n][w] = IdleWork]
    PROVE  /\ work' \in [Nodes -> [Workers -> [at : {"none", "load", "apply"},
                          tenant : Tenants, gen : 0 .. MaxGen, snap : 0 .. MaxGen]]]
           /\ \A v \in Workers : work'[n][v].at = "none"
           /\ \A k \in Nodes : k # n => work'[k] = work[k]
<1> USE BusAssumption, SomeTenantIsOne DEF BusIInv
<1>1. IdleWork \in [at : {"none", "load", "apply"}, tenant : Tenants,
                    gen : 0 .. MaxGen, snap : 0 .. MaxGen] /\ IdleWork.at = "none"
  BY DEF IdleWork
<1>2. work' \in [Nodes -> [Workers -> [at : {"none", "load", "apply"},
                   tenant : Tenants, gen : 0 .. MaxGen, snap : 0 .. MaxGen]]]
  BY <1>1 DEF TypeOK
<1>3. work'[n][w] = IdleWork /\ \A v \in Workers : v # w => work'[n][v] = work[n][v]
  BY DEF TypeOK
<1>4. \A v \in Workers : v # w => work[n][v].at = "none"
  BY DEF Exclusive
<1>5. \A k \in Nodes : k # n => work'[k] = work[k]
  BY DEF TypeOK
<1> QED
  BY <1>1, <1>2, <1>3, <1>4, <1>5

LEMMA ApplyBus ==
    ASSUME BusIInv, NEW n \in Nodes, NEW w \in Workers, Apply(n, w)
    PROVE  BusIInv'
<1> USE BusAssumption DEF BusIInv
<1>1. /\ work[n][w].at # "none" /\ work' = [work EXCEPT ![n][w] = IdleWork]
      /\ UNCHANGED <<generation, outbox, published, call, channel, subscribed, pass,
                     up, faults>>
  BY DEF Apply, source
<1>2. /\ work' \in [Nodes -> [Workers -> [at : {"none", "load", "apply"},
                      tenant : Tenants, gen : 0 .. MaxGen, snap : 0 .. MaxGen]]]
      /\ \A v \in Workers : work'[n][v].at = "none"
      /\ \A k \in Nodes : k # n => work'[k] = work[k]
  BY <1>1, WorkEnds
<1>3. TypeOK'
  BY <1>1, <1>2, ApplyForward DEF TypeOK
<1>4. FenceBehindSnapshot'
  BY <1>1, ApplyForward DEF FenceBehindSnapshot
<1>5. Exclusive'
  BY <1>2 DEF Exclusive
<1>6. ReloadsForward'
  BY <1>1, <1>2, ApplyForward DEF ReloadsForward
<1>7. (OutboxGapless /\ RowHeld /\ AnnouncedIsCommitted)'
  BY <1>1 DEF OutboxGapless, RowHeld, AnnouncedIsCommitted
<1> QED
  BY <1>3, <1>4, <1>5, <1>6, <1>7

LEMMA ReloadFailsBus ==
    ASSUME BusIInv, NEW n \in Nodes, NEW w \in Workers, ReloadFails(n, w)
    PROVE  BusIInv'
<1> USE BusAssumption DEF BusIInv
<1>1. /\ work[n][w].at # "none" /\ work' = [work EXCEPT ![n][w] = IdleWork]
      /\ faults' \in 0 .. MaxFaults
      /\ UNCHANGED <<generation, outbox, published, call, channel, subscribed, pass,
                     fence, loaded, up>>
  BY DEF ReloadFails, source, TypeOK
<1>2. /\ work' \in [Nodes -> [Workers -> [at : {"none", "load", "apply"},
                      tenant : Tenants, gen : 0 .. MaxGen, snap : 0 .. MaxGen]]]
      /\ \A v \in Workers : work'[n][v].at = "none"
      /\ \A k \in Nodes : k # n => work'[k] = work[k]
  BY <1>1, WorkEnds
<1>3. TypeOK'
  BY <1>1, <1>2 DEF TypeOK
<1>4. Exclusive'
  BY <1>2 DEF Exclusive
<1>5. ReloadsForward'
  BY <1>1, <1>2 DEF ReloadsForward
<1>6. (OutboxGapless /\ RowHeld /\ AnnouncedIsCommitted /\ FenceBehindSnapshot)'
  BY <1>1 DEF OutboxGapless, RowHeld, AnnouncedIsCommitted, FenceBehindSnapshot
<1> QED
  BY <1>3, <1>4, <1>5, <1>6

-----------------------------------------------------------------------------
LEMMA NextBus == BusIInv /\ [Next]_vars => BusIInv'
<1> SUFFICES ASSUME BusIInv, [Next]_vars PROVE BusIInv'
  OBVIOUS
<1>1. CASE UNCHANGED vars
  BY <1>1 DEF vars, BusIInv, TypeOK, OutboxGapless, RowHeld, AnnouncedIsCommitted,
              Exclusive, ReloadsForward, FenceBehindSnapshot
<1>2. ASSUME NEW p \in Publishers, Publisher(p)
      PROVE  BusIInv'
  BY <1>2, AllocateBus, CommitBus, RollbackBus, NotifyBus, MarkPublishedBus DEF Publisher
<1>3. ASSUME NEW n \in Nodes, Process(n)
      PROVE  BusIInv'
  BY <1>3, StartBus, CrashBus, SubscriptionLostBus, ConsumeBus, TickBus,
     ReconcileOneBus, LoadBus, ApplyBus, ReloadFailsBus DEF Process
<1> QED
  BY <1>1, <1>2, <1>3 DEF Next

\* The inductive invariant gives what the run checks.
LEMMA BusIInvImplies == BusIInv => BusInv
<1> SUFFICES ASSUME BusIInv PROVE NotifiedIsCommitted
  BY DEF BusIInv, BusInv
<1> USE DEF BusIInv
<1>1. \A n \in Nodes : \A i \in DOMAIN channel[n] :
        channel[n][i].tenant \in Tenants
  <2>1. \A n \in Nodes : \A i \in DOMAIN channel[n] : channel[n][i] \in Notification
    BY DEF TypeOK
  <2> QED BY <2>1 DEF Notification
<1>2. \A n \in Nodes : \A i \in DOMAIN channel[n] :
        channel[n][i].gen \in outbox[channel[n][i].tenant]
  BY <1>1 DEF OutboxGapless, AnnouncedIsCommitted
<1>3. \A n \in Nodes, w \in Workers :
        work[n][w].at # "none" => work[n][w].gen \in outbox[work[n][w].tenant]
  BY DEF TypeOK, OutboxGapless, ReloadsForward
<1>4. \A t \in Tenants : published[t] \subseteq outbox[t]
  BY DEF OutboxGapless, AnnouncedIsCommitted
<1> QED
  BY <1>2, <1>3, <1>4 DEF NotifiedIsCommitted

\* What the row lock of publishers and the mutex of a process buy holds in
\* every behaviour.
THEOREM BusInductive == Spec => []BusIInv
  BY InitBus, NextBus, PTL DEF Spec

\* However many publishers race for a tenant's generations, whatever is lost,
\* repeated or reordered on the way and whichever processes crash, the outbox
\* is gapless, no notification runs ahead of its commit and no process claims a
\* generation it has not applied.
THEOREM BusIsSafe == Spec => []BusInv
  BY BusInductive, BusIInvImplies, PTL

\* Of any number of Observe calls an older one never completes after a newer
\* one: while a process runs, its snapshot and its fence only go forward.
THEOREM SnapshotsGoForward == Spec => SnapshotNeverRegresses
<1> DEFINE Forward == \A n \in up \intersect up', t \in Tenants :
                        loaded'[n][t] >= loaded[n][t] /\ fence'[n][t] >= fence[n][t]
<1>1. ASSUME BusIInv, [Next]_vars PROVE [Forward]_vars
  <2> SUFFICES ASSUME Next, NEW k \in up, k \in up', NEW t \in Tenants
               PROVE  loaded'[k][t] >= loaded[k][t] /\ fence'[k][t] >= fence[k][t]
    BY <1>1
  <2>1. k \in Nodes /\ loaded[k][t] \in Nat /\ fence[k][t] \in Nat
    BY <1>1 DEF BusIInv, TypeOK
  <2>2. CASE UNCHANGED <<loaded, fence>>
    BY <2>1, <2>2
  <2>3. ASSUME NEW p \in Publishers, Publisher(p)
        PROVE  UNCHANGED <<loaded, fence>>
    BY <2>3 DEF Publisher, Allocate, Commit, Rollback, Notify, NotifyFails, MarkPublished
  <2>4. ASSUME NEW n \in Nodes, Crash(n)
        PROVE  loaded'[k][t] = loaded[k][t] /\ fence'[k][t] = fence[k][t]
    BY <1>1, <2>1, <2>4 DEF Crash, BusIInv, TypeOK
  <2>5. ASSUME NEW n \in Nodes, NEW w \in Workers, Apply(n, w)
        PROVE  loaded'[k][t] >= loaded[k][t] /\ fence'[k][t] >= fence[k][t]
    <3>1. /\ fence' \in [Nodes -> [Tenants -> 0 .. MaxGen]]
          /\ loaded' \in [Nodes -> [Tenants -> 0 .. MaxGen]]
          /\ fence[k][t] <= fence'[k][t] /\ loaded[k][t] <= loaded'[k][t]
      BY <1>1, <2>1, <2>5, ApplyForward
    <3>2. fence'[k][t] \in Nat /\ loaded'[k][t] \in Nat
      BY <2>1, <3>1, BusAssumption
    <3> QED BY <2>1, <3>1, <3>2
  <2>6. ASSUME NEW n \in Nodes, Process(n), ~Crash(n), \A w \in Workers : ~Apply(n, w)
        PROVE  UNCHANGED <<loaded, fence>>
    BY <2>6 DEF Process, Start, SubscriptionLost, Consume, Tick, ReconcileOne, Load,
                ReloadFails
  <2> QED
    BY <2>1, <2>2, <2>3, <2>4, <2>5, <2>6 DEF Next
<1> QED
  BY <1>1, BusInductive, PTL DEF Spec, SnapshotNeverRegresses

=============================================================================
