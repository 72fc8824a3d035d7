-------------------------- MODULE Admission_proofs --------------------------
(***************************************************************************)
(* The tenant registry and the admission of requests, for any number of    *)
(* tenants, slugs, callers, keys and rotations.                            *)
(*                                                                         *)
(* First the registry alone: an open transaction holds its row, so what it *)
(* validated is what it writes over (LifecycleInv).  Then a request, which *)
(* holds nothing: everything it has learnt is related to the history of    *)
(* what was true since its hook began (AdmissionInv).                      *)
(***************************************************************************)
EXTENDS Admission, TLAPS

(* The registry. *)

\* What an open transaction is about to write, relative to what it read.
StatusChange(x) ==
    /\ x.columns = {"status", "trialEnds"}
    /\ CanTransition(x.before.status, x.after.status)
    /\ x.after.status = "trial" <=> x.after.trialEnds # None
    /\ x.after.slug = x.before.slug

ProfileChange(x) ==
    /\ x.columns = {"slug"}
    /\ x.after.status = x.before.status
    /\ x.after.trialEnds = x.before.trialEnds

\* The strengthening: an open transaction holds its row, which therefore
\* still is what the transaction validated.
HoldsRow(c) ==
    tx[c] # None =>
        /\ lock[tx[c].tenant] = c
        /\ tenant[tx[c].tenant] # None
        /\ tx[c].before = tenant[tx[c].tenant]
        /\ StatusChange(tx[c]) \/ ProfileChange(tx[c])

LifecycleInv ==
    /\ TypeOK
    /\ TrialHasEnd
    /\ \A c \in Callers : HoldsRow(c)

-----------------------------------------------------------------------------
\* What Commit writes is what the transaction validated, in every column.
LEMMA WrittenIsAfter ==
    ASSUME LifecycleInv, NEW c \in Callers, tx[c] # None
    PROVE  /\ Written(tx[c]) = tx[c].after
           /\ tx[c].after \in Rows
<1> DEFINE x == tx[c]
<1>1. /\ x.tenant \in Tenants /\ x.before \in Rows /\ x.after \in Rows
      /\ x.before = tenant[x.tenant]
      /\ StatusChange(x) \/ ProfileChange(x)
  BY DEF LifecycleInv, TypeOK, HoldsRow
<1>2. DOMAIN x.after = {"status", "trialEnds", "slug"}
  BY <1>1 DEF Rows
<1>3. \A col \in {"status", "trialEnds", "slug"} :
          (IF col \in x.columns THEN x.after[col] ELSE tenant[x.tenant][col]) = x.after[col]
  BY <1>1 DEF StatusChange, ProfileChange, Rows
<1>4. Written(x) = [col \in DOMAIN x.after |-> x.after[col]]
  BY <1>2, <1>3 DEF Written
<1>5. x.after = [col \in DOMAIN x.after |-> x.after[col]]
  BY <1>1 DEF Rows
<1> QED
  BY <1>1, <1>4, <1>5

LEMMA InitLifecycle == Init => LifecycleInv
  BY DEF Init, LifecycleInv, TypeOK, TrialHasEnd, HoldsRow

\* Opening a transaction on a locked, validated row keeps the invariant.
LEMMA OpenPreserves ==
    ASSUME LifecycleInv, NEW c \in Callers, NEW t \in Tenants,
           NEW columns, NEW after \in Rows,
           Locked(c, t), tenant' = tenant,
           tx' = [tx EXCEPT ![c] = Opened(t, columns, after)],
           StatusChange(Opened(t, columns, after)) \/ ProfileChange(Opened(t, columns, after))
    PROVE  LifecycleInv'
<1> DEFINE x == Opened(t, columns, after)
<1>1. /\ x \in [tenant : Tenants, before : Rows, after : Rows,
                columns : SUBSET {"status", "trialEnds", "slug"}]
      /\ x.tenant = t /\ x.before = tenant[t]
  <2>1. tenant[t] \in Rows
    BY DEF LifecycleInv, TypeOK, Locked
  <2>2. columns \in SUBSET {"status", "trialEnds", "slug"}
    BY DEF Opened, StatusChange, ProfileChange
  <2> QED
    BY <2>1, <2>2 DEF Opened
<1>2. TypeOK'
  BY <1>1 DEF LifecycleInv, TypeOK, Locked
<1>3. TrialHasEnd'
  BY DEF LifecycleInv, TrialHasEnd
<1>4. ASSUME NEW d \in Callers PROVE HoldsRow(d)'
  <2>1. CASE d = c
    <3>1. tx'[d] = x
      BY <2>1 DEF LifecycleInv, TypeOK
    <3>2. lock'[t] = c /\ tenant'[t] # None
      BY DEF LifecycleInv, TypeOK, Locked
    <3>3. (StatusChange(tx[d]) \/ ProfileChange(tx[d]))'
      BY <3>1 DEF StatusChange, ProfileChange
    <3> QED
      BY <1>1, <2>1, <3>1, <3>2, <3>3 DEF HoldsRow
  <2>2. CASE d # c
    <3>1. tx'[d] = tx[d]
      BY <2>2 DEF LifecycleInv, TypeOK
    <3>2. tx[d] # None => tx[d].tenant # t
      BY <2>2, LifecycleConstants DEF LifecycleInv, HoldsRow, Locked, Free
    <3>3. tx[d] # None => lock'[tx[d].tenant] = lock[tx[d].tenant]
      BY <3>2 DEF LifecycleInv, TypeOK, Locked
    <3> QED
      BY <3>1, <3>3 DEF LifecycleInv, HoldsRow, StatusChange, ProfileChange
  <2> QED
    BY <2>1, <2>2
<1> QED
  BY <1>2, <1>3, <1>4 DEF LifecycleInv

LEMMA NextLifecycle == LifecycleInv /\ [Next]_vars => LifecycleInv'
<1> SUFFICES ASSUME LifecycleInv, [Next]_vars PROVE LifecycleInv'
  OBVIOUS
<1>1. ASSUME NEW c \in Callers, NEW t \in Tenants, NEW slug \in Spellings, Create(c, t, slug)
      PROVE  LifecycleInv'
  <2>1. TypeOK'
    BY <1>1 DEF Create, LifecycleInv, TypeOK, Rows, Statuses
  <2>2. TrialHasEnd'
    BY <1>1 DEF Create, LifecycleInv, TypeOK, TrialHasEnd
  <2>3. ASSUME NEW d \in Callers PROVE HoldsRow(d)'
    <3>1. tx[d] # None => tx[d].tenant # t /\ tx[d].tenant \in Tenants
      BY <1>1 DEF Create, LifecycleInv, HoldsRow, TypeOK
    <3>2. tx[d] # None => tenant'[tx[d].tenant] = tenant[tx[d].tenant]
      BY <1>1, <3>1 DEF Create, LifecycleInv, TypeOK
    <3> QED
      BY <1>1, <3>2 DEF Create, LifecycleInv, HoldsRow, StatusChange, ProfileChange
  <2> QED
    BY <2>1, <2>2, <2>3 DEF LifecycleInv
<1>2. ASSUME NEW c \in Callers, NEW t \in Tenants, NEW to \in Statuses, Transition(c, t, to)
      PROVE  LifecycleInv'
  <2> DEFINE after == [tenant[t] EXCEPT !.status = to, !.trialEnds = None]
             x == Opened(t, {"status", "trialEnds"}, after)
  <2>1. tenant[t] \in Rows
    BY <1>2 DEF Transition, Locked, LifecycleInv, TypeOK
  <2>2. after \in Rows /\ after.status = to /\ after.trialEnds = None /\ after.slug = tenant[t].slug
    BY <2>1 DEF Rows
  <2>3. StatusChange(x)
    BY <1>2, <2>2 DEF Transition, StatusChange, Opened
  <2> QED
    BY <1>2, <2>2, <2>3, OpenPreserves DEF Transition
<1>3. ASSUME NEW c \in Callers, NEW t \in Tenants, NEW endsAt \in Dates, StartTrial(c, t, endsAt)
      PROVE  LifecycleInv'
  <2> DEFINE after == [tenant[t] EXCEPT !.status = "trial", !.trialEnds = endsAt]
             x == Opened(t, {"status", "trialEnds"}, after)
  <2>1. tenant[t] \in Rows
    BY <1>3 DEF StartTrial, Locked, LifecycleInv, TypeOK
  <2>2. /\ after \in Rows /\ after.status = "trial"
        /\ after.trialEnds = endsAt /\ after.slug = tenant[t].slug
    BY <2>1 DEF Rows, Statuses
  <2>3. StatusChange(x)
    BY <1>3, <2>2, LifecycleConstants DEF StartTrial, StatusChange, Opened
  <2> QED
    BY <1>3, <2>2, <2>3, OpenPreserves DEF StartTrial
<1>4. ASSUME NEW c \in Callers, NEW t \in Tenants, NEW slug \in Spellings, UpdateProfile(c, t, slug)
      PROVE  LifecycleInv'
  <2> DEFINE after == [tenant[t] EXCEPT !.slug = slug]
             x == Opened(t, {"slug"}, after)
  <2>1. tenant[t] \in Rows
    BY <1>4 DEF UpdateProfile, Locked, LifecycleInv, TypeOK
  <2>2. /\ after \in Rows /\ after.status = tenant[t].status
        /\ after.trialEnds = tenant[t].trialEnds
    BY <2>1 DEF Rows
  <2>3. ProfileChange(x)
    BY <2>2 DEF ProfileChange, Opened
  <2> QED
    BY <1>4, <2>2, <2>3, OpenPreserves DEF UpdateProfile
<1>5. ASSUME NEW c \in Callers, Commit(c) PROVE LifecycleInv'
  <2> DEFINE x == tx[c]
             t == x.tenant
  <2>1. /\ x # None /\ t \in Tenants /\ lock[t] = c
        /\ x.before \in Rows /\ x.before = tenant[t] /\ tenant[t] # None
        /\ StatusChange(x) \/ ProfileChange(x)
    BY <1>5 DEF Commit, LifecycleInv, TypeOK, HoldsRow
  <2>2. /\ tenant' = [tenant EXCEPT ![t] = x.after] /\ x.after \in Rows
        /\ lock' = [lock EXCEPT ![t] = None] /\ tx' = [tx EXCEPT ![c] = None]
    BY <1>5, <2>1, WrittenIsAfter DEF Commit
  <2>3. TypeOK'
    BY <2>1, <2>2 DEF LifecycleInv, TypeOK
  <2>4. x.after.status = "trial" <=> x.after.trialEnds # None
    BY <2>1 DEF StatusChange, ProfileChange, LifecycleInv, TrialHasEnd
  <2>5. TrialHasEnd'
    BY <2>1, <2>2, <2>4 DEF LifecycleInv, TypeOK, TrialHasEnd
  <2>6. ASSUME NEW d \in Callers PROVE HoldsRow(d)'
    <3>1. d # c /\ tx[d] # None => tx[d].tenant # t /\ tx[d].tenant \in Tenants
      BY <2>1 DEF LifecycleInv, HoldsRow, TypeOK
    <3>2. d # c /\ tx[d] # None => /\ tx'[d] = tx[d]
                                   /\ tenant'[tx[d].tenant] = tenant[tx[d].tenant]
                                   /\ lock'[tx[d].tenant] = lock[tx[d].tenant]
      BY <2>2, <3>1 DEF LifecycleInv, TypeOK
    <3>3. tx'[d] # None => d # c /\ tx[d] # None
      BY <2>2 DEF LifecycleInv, TypeOK
    <3> QED
      BY <3>2, <3>3 DEF LifecycleInv, HoldsRow, StatusChange, ProfileChange
  <2> QED
    BY <2>3, <2>5, <2>6 DEF LifecycleInv
<1>6. ASSUME NEW c \in Callers, Rollback(c) PROVE LifecycleInv'
  <2>1. TypeOK' /\ TrialHasEnd'
    BY <1>6 DEF Rollback, LifecycleInv, TypeOK, TrialHasEnd
  <2>2. ASSUME NEW d \in Callers PROVE HoldsRow(d)'
    <3>1. tx'[d] # None => d # c /\ tx'[d] = tx[d] /\ tx[d] # None
      BY <1>6 DEF Rollback, LifecycleInv, TypeOK
    <3>2. d # c /\ tx[d] # None => lock'[tx[d].tenant] = lock[tx[d].tenant]
      BY <1>6 DEF Rollback, LifecycleInv, HoldsRow, TypeOK
    <3> QED
      BY <1>6, <3>1, <3>2 DEF Rollback, LifecycleInv, HoldsRow, StatusChange, ProfileChange
  <2> QED
    BY <2>1, <2>2 DEF LifecycleInv
<1>7. CASE UNCHANGED vars
  BY <1>7 DEF vars, LifecycleInv, TypeOK, TrialHasEnd, HoldsRow, StatusChange, ProfileChange
<1> QED
  BY <1>1, <1>2, <1>3, <1>4, <1>5, <1>6, <1>7 DEF Next

\* The invariant of the registry holds in every reachable state.
THEOREM LifecycleInvariant == Spec => []LifecycleInv
  BY InitLifecycle, NextLifecycle, PTL DEF Spec

\* Rows, locks and open transactions keep their types.
THEOREM TypeCorrect == Spec => []TypeOK
<1>1. LifecycleInv => TypeOK
  BY DEF LifecycleInv
<1> QED
  BY LifecycleInvariant, <1>1, PTL

\* A tenant has an end date exactly while it is on trial.
THEOREM TrialEndInvariant == Spec => []TrialHasEnd
<1>1. LifecycleInv => TrialHasEnd
  BY DEF LifecycleInv
<1> QED
  BY LifecycleInvariant, <1>1, PTL

\* Every caller validates against the row its own write will follow.
THEOREM ValidatedRowInvariant == Spec => []ValidatedRowHolds
<1>1. LifecycleInv => ValidatedRowHolds
  BY DEF LifecycleInv, HoldsRow, ValidatedRowHolds
<1> QED
  BY LifecycleInvariant, <1>1, PTL

\* One step of one tenant respects the status machine.
StepForward(t) ==
    tenant[t] # None =>
        LET from == tenant[t].status
            to == tenant'[t].status
        IN  /\ from = "deregistered" => to = "deregistered"
            /\ from # to => to # "registered" /\ (to = "trial" => from = "registered")

LEMMA StepsGoForward == LifecycleInv /\ [Next]_vars => \A t \in Tenants : StepForward(t)
<1> SUFFICES ASSUME LifecycleInv, [Next]_vars, NEW t \in Tenants PROVE StepForward(t)
  OBVIOUS
<1>1. CASE tenant' = tenant
  BY <1>1 DEF StepForward
<1>2. ASSUME NEW c \in Callers, NEW u \in Tenants, NEW slug \in Spellings, Create(c, u, slug)
      PROVE  StepForward(t)
  BY <1>2 DEF Create, StepForward, LifecycleInv, TypeOK
<1>3. ASSUME NEW c \in Callers, Commit(c) PROVE StepForward(t)
  <2> DEFINE x == tx[c]
  <2>1. /\ x # None /\ x.tenant \in Tenants /\ x.before \in Rows
        /\ x.before = tenant[x.tenant]
        /\ StatusChange(x) \/ ProfileChange(x)
    BY <1>3 DEF Commit, LifecycleInv, TypeOK, HoldsRow
  <2>2. tenant' = [tenant EXCEPT ![x.tenant] = x.after]
    BY <1>3, <2>1, WrittenIsAfter DEF Commit
  <2>3. CASE t # x.tenant
    BY <2>2, <2>3 DEF StepForward, LifecycleInv, TypeOK
  <2>4. CASE t = x.tenant
    <3>1. tenant'[t] = x.after
      BY <2>2, <2>4 DEF LifecycleInv, TypeOK
    <3>2. CASE ProfileChange(x)
      BY <2>1, <2>4, <3>1, <3>2 DEF ProfileChange, StepForward
    <3>3. CASE StatusChange(x)
      <4>1. /\ x.before.status \in Statuses
            /\ x.after.status \in AllowedTransitions[x.before.status]
        BY <2>1, <3>3 DEF StatusChange, CanTransition, Rows
      <4> QED
        BY <2>1, <2>4, <3>1, <4>1 DEF AllowedTransitions, Statuses, StepForward
    <3> QED
      BY <2>1, <3>2, <3>3
  <2> QED
    BY <2>3, <2>4
<1> QED
  BY <1>1, <1>2, <1>3
     DEF Next, vars, Transition, StartTrial, UpdateProfile, Rollback

\* The status machine has no way back, whatever callers interleave: a
\* deregistered tenant stays so, and a trial starts only from "registered".
THEOREM StatusMachine == Spec => NoWayBack
<1>1. LifecycleInv /\ [Next]_vars => [\A t \in Tenants : StepForward(t)]_vars
  BY StepsGoForward
<1> QED
  BY LifecycleInvariant, <1>1, PTL DEF Spec, NoWayBack, StepForward

-----------------------------------------------------------------------------
(* The admission of a request. *)

\* The secrets of a key carry its name, and a retired one is older than the
\* current one: what has been retired twice never comes back.
SecretsAge(k) ==
    vk[k] # None =>
        /\ vk[k].value[1] = k
        /\ vk[k].previous # None =>
              vk[k].previous[1] = k /\ vk[k].previous[2] < vk[k].value[2]

\* What the request has learnt was true at some moment since its hook began.
LearntTruly ==
    request # None =>
        /\ request.start <= now
        /\ request.pc \in {"registry", "clock"} => request.tenant \in Tenants
        /\ request.pc \in {"registry", "clock"} => request.tenant \in witness.owners
        /\ request.pc = "clock" /\ CanServeTraffic(request.row, now) =>
              request.tenant \in witness.servers
        /\ request.pc = "admitted" =>
              /\ request.hook = "prehook"
              /\ request.tenant \in witness.owners \cap witness.servers

\* A key that has been good throughout is still good, and the request is on
\* its way to be admitted by it: a lookup still to come finds it, or what the
\* request has read is what the key and its tenant still say.
OnTrack(k) ==
    /\ k \in Steady(vk, tenant, request.value, now)
    /\ request.pc = "lookup" =>
          /\ request.lookup \in {1, 2}
          /\ request.lookup = 2 => vk[k].previous = request.value
    /\ request.pc \in {"registry", "clock"} => request.tenant = vk[k].tenant
    /\ request.pc = "clock" => request.row = tenant[request.tenant]
    /\ request.pc # "denied"

SteadyOnTrack ==
    request # None =>
        /\ request.pc \in {"lookup", "registry", "clock"} =>
              \A k \in witness.steady : k \in VKeys /\ OnTrack(k)
        /\ request.pc = "denied" => witness.steady = {}

AdmissionInv ==
    /\ LifecycleInv
    /\ AdmissionTypeOK
    /\ vk \in [VKeys -> KeyRows \cup {None}]
    /\ \A k \in VKeys : SecretsAge(k)
    /\ LearntTruly
    /\ SteadyOnTrack

Moments == 0..MaxTime
LookupNumbers == 1..3

Requests ==
    [value : Secrets, hook : {"preauth", "prehook"},
     pc : {"begin", "lookup", "registry", "clock", "admitted", "denied", "unavailable"},
     lookup : LookupNumbers, start : Moments, tenant : Tenants \cup {None},
     row : Rows \cup {None}]

\* The rows a request can meet: on trial exactly with an end date.
LEMMA RegistryRows ==
    ASSUME LifecycleInv, NEW t \in Tenants, tenant[t] # None
    PROVE  /\ tenant[t] \in Rows
           /\ tenant[t].status = "trial" <=> tenant[t].trialEnds # None
           /\ tenant[t].trialEnds # None => tenant[t].trialEnds \in Nat
<1>1. tenant[t] \in Rows
  BY DEF LifecycleInv, TypeOK
<1> QED
  BY <1>1, AdmissionConstants DEF LifecycleInv, TrialHasEnd, Rows

\* Whoever may be served now might have been served earlier.
LEMMA ServedEarlier ==
    ASSUME LifecycleInv, NEW t \in Tenants, NEW at \in Nat, NEW later \in Nat, at <= later,
           CanServeTraffic(tenant[t], later)
    PROVE  MayServe(tenant[t], at)
  BY RegistryRows DEF CanServeTraffic, MayServe

\* Who may serve by the rules is served by the code.
LEMMA MayServeIsServed ==
    ASSUME LifecycleInv, NEW t \in Tenants, NEW at, MayServe(tenant[t], at)
    PROVE  CanServeTraffic(tenant[t], at)
  BY RegistryRows DEF CanServeTraffic, MayServe, Rows, Statuses

\* The steps of a request, of its environment, and of the registry.
RequestStep ==
    \/ \E value \in Secrets : Arrive(value)
    \/ BeginHook \/ Lookup \/ RegistryGet \/ Decide
    \/ BackendFails \/ Leave

KeyStep(k) ==
    \/ \E t \in Tenants \cup {None}, form \in {"hashed", "plain"},
          expires \in Expiries \cup {None} : Issue(k, t, form, expires)
    \/ Rotate(k)
    \/ \E active \in BOOLEAN : SetActive(k, active)
    \/ Remove(k)

LEMMA StepsOfAdmission ==
    ASSUME AdmissionNext
    PROVE  /\ Witness
           /\ \/ Next /\ UNCHANGED <<now, vk, request>>
              \/ \E k \in VKeys : KeyStep(k)
              \/ Tick
              \/ RequestStep
  BY DEF AdmissionNext, KeyStep, RequestStep

LEMMA RegistryStep == AdmissionNext => [Next]_vars
  BY DEF AdmissionNext, Issue, Rotate, SetActive, Remove, Tick, Arrive, BeginHook, Lookup,
         RegistryGet, Decide, BackendFails, Leave, Step, vars

-----------------------------------------------------------------------------
(* Types. *)

LEMMA KeyTypes ==
    ASSUME AdmissionInv, NEW k \in VKeys, KeyStep(k)
    PROVE  /\ vk' \in [VKeys -> KeyRows \cup {None}]
           /\ \A j \in VKeys : SecretsAge(j)'
           /\ UNCHANGED <<vars, now, request>>
<1>1. /\ vk \in [VKeys -> KeyRows \cup {None}] /\ \A j \in VKeys : SecretsAge(j)
      /\ now \in Nat
  BY DEF AdmissionInv, AdmissionTypeOK
<1>2. ASSUME NEW row \in KeyRows \cup {None}, vk' = [vk EXCEPT ![k] = row],
             row # None => /\ row.value[1] = k
                           /\ row.previous # None =>
                                 row.previous[1] = k /\ row.previous[2] < row.value[2]
      PROVE  vk' \in [VKeys -> KeyRows \cup {None}] /\ \A j \in VKeys : SecretsAge(j)'
  <2>1. vk'[k] = row /\ \A j \in VKeys \ {k} : vk'[j] = vk[j]
    BY <1>1, <1>2
  <2> QED BY <1>1, <1>2, <2>1 DEF SecretsAge
<1>3. ASSUME NEW t \in Tenants \cup {None}, NEW form \in {"hashed", "plain"},
             NEW expires \in Expiries \cup {None}, Issue(k, t, form, expires)
      PROVE  vk' \in [VKeys -> KeyRows \cup {None}] /\ \A j \in VKeys : SecretsAge(j)'
  <2> DEFINE row == [value |-> <<k, 0>>, previous |-> None, retires |-> 0, form |-> form,
                     active |-> TRUE, expires |-> expires, tenant |-> t]
  <2>0. <<k, 0>> \in Secrets /\ expires \in Nat \cup {None}
    BY AdmissionConstants DEF Secrets
  <2>1. row \in KeyRows
    BY <2>0 DEF KeyRows
  <2>2. row.value = <<k, 0>> /\ row.previous = None
    BY Zenon
  <2>3. vk' = [vk EXCEPT ![k] = row]
    BY <1>3 DEF Issue
  <2>4. row.value[1] = k
    BY <2>2
  <2> HIDE DEF row
  <2> QED BY <1>2, <2>1, <2>2, <2>3, <2>4
<1>4. CASE Rotate(k)
  <2> DEFINE old == vk[k]
             row == [old EXCEPT !.value = <<k, old.value[2] + 1>>, !.previous = old.value,
                                !.retires = now + Grace, !.form = "hashed"]
  <2>1. old \in KeyRows /\ old.value[2] \in 0..Rotations /\ old.value[2] < Rotations
        /\ old.value[1] = k /\ old.value \in Secrets
    BY <1>1, <1>4 DEF Rotate, SecretsAge, KeyRows, Secrets
  <2>2. <<k, old.value[2] + 1>> \in Secrets /\ now + Grace \in Nat
    BY <1>1, <2>1, AdmissionConstants DEF Secrets
  <2>3. row \in KeyRows
    BY <2>1, <2>2 DEF KeyRows
  <2>4. row.value = <<k, old.value[2] + 1>> /\ row.previous = old.value
    BY <2>1 DEF KeyRows
  <2>5. row.value[1] = k /\ row.previous[1] = k /\ row.previous[2] < row.value[2]
    BY <2>1, <2>4
  <2>6. vk' = [vk EXCEPT ![k] = row]
    BY <1>1, <1>4 DEF Rotate
  <2> HIDE DEF row
  <2>7. vk' \in [VKeys -> KeyRows \cup {None}] /\ \A j \in VKeys : SecretsAge(j)'
    BY <1>2, <2>3, <2>5, <2>6
  <2> QED BY <1>4, <2>7 DEF Rotate
<1>5. ASSUME NEW active \in BOOLEAN, SetActive(k, active)
      PROVE  vk' \in [VKeys -> KeyRows \cup {None}] /\ \A j \in VKeys : SecretsAge(j)'
  <2> DEFINE old == vk[k]
             row == [old EXCEPT !.active = active]
  <2>1. old \in KeyRows /\ old # None
    BY <1>1, <1>5 DEF SetActive
  <2>2. row \in KeyRows /\ row.value = old.value /\ row.previous = old.previous
    BY <2>1 DEF KeyRows
  <2>3. vk' = [vk EXCEPT ![k] = row]
    BY <1>1, <1>5 DEF SetActive
  <2> HIDE DEF row
  <2> QED BY <1>1, <1>2, <2>1, <2>2, <2>3 DEF SecretsAge
<1>6. CASE Remove(k)
  <2>1. vk' \in [VKeys -> KeyRows \cup {None}] /\ \A j \in VKeys : SecretsAge(j)'
    BY <1>2, <1>6 DEF Remove
  <2> QED BY <1>6, <2>1 DEF Remove
<1>7. UNCHANGED <<vars, now, request>>
  BY DEF KeyStep, Issue, Rotate, SetActive, Remove
<1> QED
  BY <1>3, <1>4, <1>5, <1>6, <1>7 DEF KeyStep, Issue, SetActive

LEMMA ThreeLookups ==
    /\ DOMAIN Lookups = 1..3 /\ Len(Lookups) = 3
    /\ Lookups[1] = "current" /\ Lookups[2] = "previous" /\ Lookups[3] = "plain"
  BY DEF Lookups

LEMMA TypesOfRequests ==
    AdmissionTypeOK <=> /\ now \in 0..MaxTime
                        /\ \A k \in VKeys : vk[k] = None \/ vk[k] \in KeyRows
                        /\ request = None \/ request \in Requests
<1>1. {"begin", "lookup", "registry", "clock"} \cup Ended
        = {"begin", "lookup", "registry", "clock", "admitted", "denied", "unavailable"}
  BY DEF Ended
<1> QED
  BY <1>1, ThreeLookups, Zenon DEF AdmissionTypeOK, Requests, Moments, LookupNumbers

LEMMA RequestTypes ==
    ASSUME AdmissionInv, RequestStep
    PROVE  /\ request' = None \/ request' \in Requests
           /\ UNCHANGED <<vars, now, vk>>
<1>1. /\ now \in Moments /\ 1 \in LookupNumbers
      /\ request # None => request \in Requests
      /\ LifecycleInv /\ vk \in [VKeys -> KeyRows \cup {None}]
      /\ request # None /\ request.pc = "registry" => request.tenant \in Tenants
  BY TypesOfRequests DEF AdmissionInv, LearntTruly, Moments, LookupNumbers
<1>2. UNCHANGED <<vars, now, vk>>
  BY DEF RequestStep, Arrive, BeginHook, Lookup, RegistryGet, Decide, BackendFails, Leave, Step
<1>3. ASSUME NEW value \in Secrets, Arrive(value) PROVE request' \in Requests
  BY <1>1, <1>3 DEF Arrive, Requests
<1>4. CASE BeginHook
  <2>0. request \in Requests
    BY <1>1, <1>4 DEF BeginHook
  <2>1. request' \in Requests
    BY <1>1, <1>4, <2>0 DEF BeginHook, Step, Requests
  <2> QED BY <1>2, <2>1
<1>5. CASE Lookup
  <2>1. request \in Requests /\ request.pc = "lookup"
    BY <1>1, <1>5 DEF Lookup
  <2>2. ASSUME NEW k \in VKeys, vk[k] # None, request' = Judged(vk[k])
        PROVE  request' \in Requests
    BY <1>1, <2>1, <2>2 DEF Judged, Requests, KeyRows
  <2>3. ASSUME request' = [request EXCEPT !.lookup = @ + 1], request.lookup < Len(Lookups)
        PROVE  request' \in Requests
    BY <2>1, <2>3, ThreeLookups DEF Requests, LookupNumbers
  <2>4. ASSUME request' = [request EXCEPT !.pc = "denied"]
        PROVE  request' \in Requests
    BY <2>1, <2>4 DEF Requests
  <2>5. request' \in Requests
    BY <1>5, <2>2, <2>3, <2>4 DEF Lookup, Step, Found
  <2> QED BY <1>2, <2>5
<1>6. CASE RegistryGet
  <2>1. request \in Requests
    BY <1>1, <1>6 DEF RegistryGet
  <2>2. request.tenant \in Tenants => tenant[request.tenant] \in Rows \cup {None}
    BY <1>1 DEF LifecycleInv, TypeOK
  <2>3. request' \in Requests
    BY <1>1, <1>6, <2>1, <2>2 DEF RegistryGet, Step, Requests
  <2> QED BY <1>2, <2>3
<1>7. CASE Decide
  <2>1. request' \in Requests
    BY <1>1, <1>7 DEF Decide, Step, AfterHook, Requests
  <2> QED BY <1>2, <2>1
<1>8. CASE BackendFails
  <2>1. request' \in Requests
    BY <1>1, <1>8 DEF BackendFails, Step, Requests
  <2> QED BY <1>2, <2>1
<1>9. CASE Leave
  BY <1>2, <1>9 DEF Leave
<1> QED
  BY <1>2, <1>3, <1>4, <1>5, <1>6, <1>7, <1>8, <1>9 DEF RequestStep

-----------------------------------------------------------------------------
(* History. *)

\* The history grows with every step of a hook, and ends with the request.
LEMMA HistoryGrows ==
    ASSUME Witness, request # None, request' # None, request'.pc # "begin"
    PROVE  /\ request.pc \in Ended => witness' = witness
           /\ request.pc \notin Ended /\ request.pc # "begin" =>
                /\ witness.owners \subseteq witness'.owners
                /\ witness.servers \subseteq witness'.servers
                /\ \A t \in Tenants : MayServe(tenant'[t], now') => t \in witness'.servers
                /\ \A k \in VKeys : Entitles(vk'[k], request'.value, request'.start) =>
                                        vk'[k].tenant \in witness'.owners
                /\ \A k \in witness'.steady :
                      /\ k \in witness.steady
                      /\ k \in Steady(vk', tenant', request'.value, now')
                      /\ tenant'[vk'[k].tenant] = tenant[vk'[k].tenant]
           /\ request.pc = "begin" =>
                witness'.steady = Steady(vk', tenant', request'.value, now')
<1>1. request.pc \in Ended => witness' = witness
  BY DEF Witness
<1>2. request.pc \notin Ended => witness' = Witnessed
  BY DEF Witness
<1>3. ASSUME request.pc \notin Ended, request.pc # "begin"
      PROVE  /\ witness.owners \subseteq witness'.owners
             /\ witness.servers \subseteq witness'.servers
             /\ \A t \in Tenants : MayServe(tenant'[t], now') => t \in witness'.servers
             /\ \A k \in VKeys : Entitles(vk'[k], request'.value, request'.start) =>
                                     vk'[k].tenant \in witness'.owners
             /\ \A k \in witness'.steady :
                   /\ k \in witness.steady
                   /\ k \in Steady(vk', tenant', request'.value, now')
                   /\ tenant'[vk'[k].tenant] = tenant[vk'[k].tenant]
  BY <1>2, <1>3 DEF Witnessed
<1>4. ASSUME request.pc = "begin"
      PROVE  witness'.steady = Steady(vk', tenant', request'.value, now')
  BY <1>2, <1>4 DEF Witnessed, Ended
<1> QED
  BY <1>1, <1>3, <1>4

\* A step of somebody else.
Elsewhere ==
    /\ Witness
    /\ request' = request
    /\ now' \in Nat /\ now <= now'

LEMMA ElsewhereLearnt ==
    ASSUME AdmissionInv, Elsewhere
    PROVE  LearntTruly'
<1> SUFFICES ASSUME request # None PROVE LearntTruly'
  BY DEF LearntTruly, Elsewhere
<1>1. /\ request \in Requests /\ request' = request /\ LearntTruly /\ now \in Nat
      /\ now' \in Nat /\ now <= now' /\ Witness
  BY TypesOfRequests DEF AdmissionInv, Elsewhere
<1>2. request.start <= now'
  BY <1>1 DEF LearntTruly, Requests, Moments
<1>3. CASE request.pc \in {"registry", "clock"}
  <2>1. /\ witness.owners \subseteq witness'.owners
        /\ witness.servers \subseteq witness'.servers
    BY <1>1, <1>3, HistoryGrows DEF Ended
  <2>2. CanServeTraffic(request.row, now') => CanServeTraffic(request.row, now)
    <3>1. request.row \in Rows \cup {None}
      BY <1>1 DEF Requests
    <3>2. request.row # None /\ request.row.trialEnds # None => request.row.trialEnds \in Nat
      BY <3>1, AdmissionConstants DEF Rows
    <3> QED BY <1>1, <3>2 DEF CanServeTraffic
  <2> QED BY <1>1, <1>2, <1>3, <2>1, <2>2 DEF LearntTruly
<1>4. CASE request.pc \in Ended
  <2>1. witness' = witness
    BY <1>1, <1>4, HistoryGrows DEF Ended
  <2> QED BY <1>1, <1>2, <1>4, <2>1 DEF LearntTruly, Ended
<1>5. CASE request.pc \in {"begin", "lookup"}
  BY <1>1, <1>2, <1>5 DEF LearntTruly
<1> QED
  BY <1>1, <1>3, <1>4, <1>5 DEF Requests, Ended

LEMMA RequestLearnt ==
    ASSUME AdmissionInv, Witness, RequestStep
    PROVE  LearntTruly'
<1>1. /\ request # None => request \in Requests
      /\ request' = None \/ request' \in Requests
      /\ LearntTruly /\ LifecycleInv /\ now \in Nat
      /\ UNCHANGED <<vars, now, vk>> /\ tenant' = tenant
      /\ vk \in [VKeys -> KeyRows \cup {None}]
  BY TypesOfRequests, RequestTypes DEF AdmissionInv, vars
<1> SUFFICES ASSUME request' # None PROVE LearntTruly'
  BY DEF LearntTruly
<1>2. ASSUME NEW value \in Secrets, Arrive(value) PROVE LearntTruly'
  BY <1>1, <1>2 DEF Arrive, LearntTruly
<1>3. CASE BeginHook
  <2>1. request' = [request EXCEPT !.pc = "lookup", !.lookup = 1, !.start = now]
        /\ request \in Requests
    BY <1>1, <1>3 DEF BeginHook, Step
  <2>2. request'.pc = "lookup" /\ request'.start = now
    BY <2>1 DEF Requests
  <2> QED BY <1>1, <2>2 DEF LearntTruly
<1>4. CASE Lookup
  <2>1. /\ request \in Requests /\ request.pc = "lookup" /\ request # None
    BY <1>1, <1>4 DEF Lookup
  <2>2. request.start <= now
    BY <1>1, <2>1 DEF LearntTruly
  <2>3. ASSUME request' = [request EXCEPT !.pc = "denied"]
               \/ request' = [request EXCEPT !.lookup = @ + 1]
        PROVE  LearntTruly'
    <3>1. request'.pc \in {"denied", "lookup"} /\ request'.start = request.start
      BY <2>1, <2>3 DEF Requests
    <3> QED BY <1>1, <2>2, <3>1 DEF LearntTruly
  <2>4. ASSUME NEW k \in Found(Lookups[request.lookup], request.value),
               Accepts(Lookups[request.lookup], vk[k], request.start),
               request' = Judged(vk[k]),
               vk[k].active, NotExpired(vk[k], request.start), vk[k].tenant # None
        PROVE  LearntTruly'
    <3>1. request' = [request EXCEPT !.pc = "registry", !.tenant = vk[k].tenant]
      BY <2>4 DEF Judged
    <3>2. /\ request'.pc = "registry" /\ request'.tenant = vk[k].tenant
          /\ request'.start = request.start /\ request'.value = request.value
      BY <2>1, <3>1 DEF Requests
    <3>3. k \in VKeys /\ vk[k] # None /\ vk[k].tenant \in Tenants
      BY <1>1, <2>4 DEF Found, KeyRows
    <3>4. vk[k].value = request.value
            \/ (vk[k].previous = request.value /\ request.start < vk[k].retires)
      <4>1. request.lookup \in {1, 2, 3}
        BY <2>1 DEF Requests, LookupNumbers
      <4>2. Lookups[request.lookup] \in {"current", "previous", "plain"}
        BY <4>1, ThreeLookups
      <4> QED BY <2>4, <4>2 DEF Found, Accepts
    <3>5. Entitles(vk'[k], request'.value, request'.start)
      BY <1>1, <2>4, <3>2, <3>3, <3>4 DEF Entitles
    <3>6. vk'[k].tenant \in witness'.owners
      BY <2>1, <3>2, <3>3, <3>5, HistoryGrows DEF Ended
    <3> QED BY <1>1, <2>2, <3>2, <3>3, <3>6 DEF LearntTruly
  <2> QED BY <1>4, <2>3, <2>4 DEF Lookup, Step, Judged
<1>5. CASE RegistryGet
  <2>1. /\ request \in Requests /\ request.pc = "registry" /\ request # None
        /\ request' = [request EXCEPT !.pc = "clock", !.row = tenant[request.tenant]]
    BY <1>1, <1>5 DEF RegistryGet, Step
  <2>2. /\ request'.pc = "clock" /\ request'.row = tenant[request.tenant]
        /\ request'.tenant = request.tenant /\ request'.start = request.start
    BY <2>1 DEF Requests
  <2>3. request.tenant \in Tenants /\ request.tenant \in witness.owners /\ request.start <= now
    BY <1>1, <2>1 DEF LearntTruly
  <2>4. /\ witness.owners \subseteq witness'.owners
        /\ \A t \in Tenants : MayServe(tenant'[t], now') => t \in witness'.servers
    BY <2>1, <2>2, HistoryGrows DEF Ended
  <2>5. CanServeTraffic(request'.row, now') => request.tenant \in witness'.servers
    BY <1>1, <2>2, <2>3, <2>4, ServedEarlier
  <2> QED BY <1>1, <2>2, <2>3, <2>4, <2>5 DEF LearntTruly
<1>6. CASE Decide
  <2>1. /\ request \in Requests /\ request.pc = "clock" /\ request # None
    BY <1>1, <1>6 DEF Decide
  <2>2. /\ request.tenant \in witness.owners /\ request.start <= now
        /\ CanServeTraffic(request.row, now) => request.tenant \in witness.servers
    BY <1>1, <2>1 DEF LearntTruly
  <2>3. CASE CanServeTraffic(request.row, now) /\ request.hook # "preauth"
    <3>1. request' = [request EXCEPT !.pc = "admitted"]
      BY <1>6, <2>3 DEF Decide, Step, AfterHook
    <3>2. /\ request'.pc = "admitted" /\ request'.hook = request.hook
          /\ request'.tenant = request.tenant /\ request'.start = request.start
          /\ request.hook = "prehook"
      BY <2>1, <2>3, <3>1 DEF Requests
    <3>3. /\ witness.owners \subseteq witness'.owners
          /\ witness.servers \subseteq witness'.servers
      BY <2>1, <3>2, HistoryGrows DEF Ended
    <3> QED BY <1>1, <2>2, <2>3, <3>2, <3>3 DEF LearntTruly
  <2>4. CASE ~(CanServeTraffic(request.row, now) /\ request.hook # "preauth")
    <3>1. request'.pc \in {"denied", "begin"} /\ request'.start = request.start
      BY <1>6, <2>1, <2>4 DEF Decide, Step, AfterHook, Requests
    <3> QED BY <1>1, <2>2, <3>1 DEF LearntTruly
  <2> QED BY <2>3, <2>4
<1>7. CASE BackendFails
  <2>1. /\ request \in Requests /\ request # None
        /\ request' = [request EXCEPT !.pc = "unavailable"]
    BY <1>1, <1>7 DEF BackendFails, Step
  <2>2. request'.pc = "unavailable" /\ request'.start = request.start
    BY <2>1 DEF Requests
  <2> QED BY <1>1, <2>1, <2>2 DEF LearntTruly
<1> QED
  BY <1>2, <1>3, <1>4, <1>5, <1>6, <1>7 DEF RequestStep, Leave

-----------------------------------------------------------------------------
(* Keys that are good throughout. *)

\* A key that stays is its tenant's, and its retired secret stays or gives way
\* to the one that was current.
KeptKey(k) ==
    vk[k] # None /\ vk'[k] # None =>
        /\ vk'[k].tenant = vk[k].tenant
        /\ \/ vk'[k].previous = vk[k].previous
           \/ vk'[k].previous = vk[k].value /\ vk'[k].value = <<k, vk[k].value[2] + 1>>

LEMMA KeysKept ==
    ASSUME AdmissionInv, NEW j \in VKeys, KeyStep(j), NEW k \in VKeys
    PROVE  KeptKey(k)
<1>1. vk \in [VKeys -> KeyRows \cup {None}]
  BY DEF AdmissionInv
<1>2. CASE k # j
  <2>1. vk'[k] = vk[k]
    BY <1>1, <1>2 DEF KeyStep, Issue, Rotate, SetActive, Remove
  <2> QED BY <2>1 DEF KeptKey
<1>3. CASE k = j
  <2>1. ASSUME vk[k] = None \/ vk'[k] = None PROVE KeptKey(k)
    BY <2>1 DEF KeptKey
  <2>2. CASE Rotate(k)
    <3>1. vk[k] \in KeyRows
      BY <1>1, <2>2 DEF Rotate
    <3>2. /\ vk'[k].tenant = vk[k].tenant /\ vk'[k].previous = vk[k].value
          /\ vk'[k].value = <<k, vk[k].value[2] + 1>>
      BY <1>1, <2>2, <3>1 DEF Rotate, KeyRows
    <3> QED BY <3>2 DEF KeptKey
  <2>3. ASSUME NEW active \in BOOLEAN, SetActive(k, active) PROVE KeptKey(k)
    <3>1. vk[k] \in KeyRows
      BY <1>1, <2>3 DEF SetActive
    <3>2. vk'[k].tenant = vk[k].tenant /\ vk'[k].previous = vk[k].previous
      BY <1>1, <2>3, <3>1 DEF SetActive, KeyRows
    <3> QED BY <3>2 DEF KeptKey
  <2>4. CASE Remove(k)
    <3>1. vk'[k] = None
      BY <1>1, <2>4 DEF Remove
    <3> QED BY <2>1, <3>1
  <2>5. ASSUME vk[k] # None PROVE KeptKey(k)
    BY <1>3, <2>2, <2>3, <2>4, <2>5 DEF KeyStep, Issue
  <2> QED BY <2>1, <2>5
<1> QED
  BY <1>2, <1>3

\* A secret that is retired is not brought back by another rotation, so a key
\* that remains good for it keeps it where it is.
LEMMA RetiredStays ==
    ASSUME NEW k \in VKeys, SecretsAge(k), KeptKey(k), vk[k] \in KeyRows, vk[k] # None,
           vk'[k] # None, NEW value \in Secrets, vk[k].previous = value,
           vk'[k].value = value \/ vk'[k].previous = value
    PROVE  vk'[k].previous = value
<1> SUFFICES ASSUME vk'[k].previous = vk[k].value, vk'[k].value = <<k, vk[k].value[2] + 1>>
             PROVE  FALSE
  BY DEF KeptKey
<1>1. /\ vk[k].value[2] \in Nat /\ value[2] \in Nat /\ value # None
      /\ value[2] < vk[k].value[2]
  BY NoneIsNoSecret DEF SecretsAge, KeyRows, Secrets
<1>2. vk'[k].value[2] = vk[k].value[2] + 1
  OBVIOUS
<1> QED
  BY <1>1, <1>2

LEMMA ElsewhereOnTrack ==
    ASSUME AdmissionInv, Elsewhere, \A k \in VKeys : KeptKey(k)
    PROVE  SteadyOnTrack'
<1> SUFFICES ASSUME request # None PROVE SteadyOnTrack'
  BY DEF SteadyOnTrack, Elsewhere
<1>1. /\ request \in Requests /\ request' = request /\ SteadyOnTrack /\ Witness
      /\ vk \in [VKeys -> KeyRows \cup {None}] /\ \A k \in VKeys : SecretsAge(k)
  BY TypesOfRequests DEF AdmissionInv, Elsewhere
<1>2. CASE request.pc = "denied"
  <2>1. witness' = witness
    BY <1>1, <1>2, HistoryGrows DEF Ended
  <2> QED BY <1>1, <1>2, <2>1 DEF SteadyOnTrack
<1>3. CASE request.pc \in {"lookup", "registry", "clock"}
  <2> SUFFICES ASSUME NEW k \in witness'.steady PROVE k \in VKeys /\ OnTrack(k)'
    BY <1>1, <1>3 DEF SteadyOnTrack
  <2>1. /\ k \in witness.steady
        /\ k \in Steady(vk', tenant', request.value, now')
        /\ tenant'[vk'[k].tenant] = tenant[vk'[k].tenant]
    BY <1>1, <1>3, HistoryGrows DEF Ended
  <2>2. k \in VKeys /\ OnTrack(k)
    BY <1>1, <1>3, <2>1 DEF SteadyOnTrack
  <2>3. /\ vk[k] # None /\ vk'[k] # None
        /\ vk'[k].value = request.value \/ vk'[k].previous = request.value
    BY <2>1, <2>2 DEF OnTrack, Steady, Entitles
  <2>4. vk'[k].tenant = vk[k].tenant /\ vk[k] \in KeyRows
    BY <1>1, <2>2, <2>3 DEF KeptKey
  <2>5. request.pc = "lookup" /\ request.lookup = 2 => vk'[k].previous = request.value
    <3>1. request.value \in Secrets
      BY <1>1 DEF Requests
    <3> QED BY <1>1, <2>2, <2>3, <2>4, <3>1, RetiredStays DEF OnTrack
  <2>6. request.pc = "clock" => request.row = tenant'[request.tenant]
    BY <2>1, <2>2, <2>4 DEF OnTrack
  <2> QED BY <1>1, <2>1, <2>2, <2>4, <2>5, <2>6 DEF OnTrack
<1>4. CASE request.pc \notin {"lookup", "registry", "clock", "denied"}
  BY <1>1, <1>4 DEF SteadyOnTrack
<1> QED
  BY <1>2, <1>3, <1>4

\* A good key is found by the lookup that is due, or by the next one, and
\* what is found is no other key.
LEMMA GoodKeyIsFound ==
    ASSUME AdmissionInv, request # None, request.pc = "lookup", NEW k \in VKeys, OnTrack(k)
    PROVE  LET lookup == Lookups[request.lookup]
               good == {j \in Found(lookup, request.value) : Accepts(lookup, vk[j], request.start)}
           IN  /\ good = {} => request.lookup = 1 /\ vk[k].previous = request.value
               /\ \A j \in good : j = k
               /\ vk[k].active /\ NotExpired(vk[k], request.start) /\ vk[k].tenant # None
<1> DEFINE lookup == Lookups[request.lookup]
           good == {j \in Found(lookup, request.value) : Accepts(lookup, vk[j], request.start)}
<1>1. /\ request \in Requests /\ request.start <= now /\ now \in Nat
      /\ vk \in [VKeys -> KeyRows \cup {None}] /\ \A j \in VKeys : SecretsAge(j)
      /\ request.start \in Nat /\ request.value \in Secrets
  BY TypesOfRequests DEF AdmissionInv, LearntTruly, Requests, Moments
<1>2. /\ vk[k] # None /\ vk[k] \in KeyRows /\ vk[k].form = "hashed"
      /\ vk[k].value = request.value \/ (vk[k].previous = request.value /\ now < vk[k].retires)
      /\ vk[k].active /\ NotExpired(vk[k], now) /\ vk[k].tenant # None
      /\ request.lookup \in {1, 2}
      /\ request.lookup = 2 => vk[k].previous = request.value
  BY <1>1 DEF OnTrack, Steady, Entitles
<1>3. NotExpired(vk[k], request.start)
  BY <1>1, <1>2 DEF NotExpired, KeyRows
<1>4. ASSUME NEW j \in VKeys, vk[j] # None,
             vk[j].value = request.value \/ vk[j].previous = request.value
      PROVE  request.value[1] = j
  BY <1>1, <1>4, NoneIsNoSecret DEF SecretsAge
<1>5. lookup \in {"current", "previous"} /\ (request.lookup = 1 <=> lookup = "current")
      /\ (request.lookup = 2 <=> lookup = "previous")
  BY <1>2, ThreeLookups
<1>6. \A j \in good : j = k
  <2> SUFFICES ASSUME NEW j \in good PROVE j = k
    OBVIOUS
  <2>1. /\ j \in VKeys /\ vk[j] # None
        /\ vk[j].value = request.value \/ vk[j].previous = request.value
    BY <1>5 DEF Found
  <2> QED BY <1>2, <1>4, <2>1
<1>7. ASSUME good = {} PROVE request.lookup = 1 /\ vk[k].previous = request.value
  <2>1. k \notin good
    BY <1>7
  <2> HIDE DEF lookup
  <2>2. CASE request.lookup = 1
    <3>1. vk[k].value # request.value
      BY <1>2, <1>5, <2>1, <2>2 DEF Found, Accepts
    <3> QED BY <1>2, <2>2, <3>1
  <2>3. CASE request.lookup = 2
    <3>1. vk[k].previous = request.value /\ lookup = "previous"
      BY <1>2, <1>5, <2>3
    <3>2. request.start < vk[k].retires
      <4>1. vk[k].retires \in Nat
        BY <1>2 DEF KeyRows
      <4>2. CASE vk[k].value = request.value
        <5>1. request.value[2] < request.value[2] /\ request.value[2] \in Nat
          BY <1>1, <1>2, <3>1, <4>2, NoneIsNoSecret DEF SecretsAge, Secrets
        <5> QED BY <5>1
      <4>3. CASE now < vk[k].retires
        BY <1>1, <4>1, <4>3
      <4> QED BY <1>2, <4>2, <4>3
    <3>3. k \in good
      BY <1>2, <3>1, <3>2 DEF Found, Accepts
    <3> QED BY <2>1, <3>3
  <2> QED BY <1>2, <2>2, <2>3
<1> QED
  BY <1>2, <1>3, <1>6, <1>7

LEMMA RequestOnTrack ==
    ASSUME AdmissionInv, Witness, RequestStep
    PROVE  SteadyOnTrack'
<1>1. /\ request # None => request \in Requests
      /\ SteadyOnTrack /\ LifecycleInv
      /\ UNCHANGED <<now, vk>> /\ tenant' = tenant
      /\ vk \in [VKeys -> KeyRows \cup {None}]
  BY TypesOfRequests, RequestTypes DEF AdmissionInv, vars
<1> SUFFICES ASSUME request' # None PROVE SteadyOnTrack'
  BY DEF SteadyOnTrack
<1>2. ASSUME NEW value \in Secrets, Arrive(value) PROVE SteadyOnTrack'
  BY <1>2 DEF Arrive, SteadyOnTrack
<1>3. CASE BeginHook
  <2>1. /\ request \in Requests /\ request # None /\ request.pc = "begin"
        /\ request' = [request EXCEPT !.pc = "lookup", !.lookup = 1, !.start = now]
    BY <1>1, <1>3 DEF BeginHook, Step
  <2>2. request'.pc = "lookup" /\ request'.lookup = 1
    BY <2>1 DEF Requests
  <2>3. witness'.steady = Steady(vk', tenant', request'.value, now')
    BY <2>1, <2>2, HistoryGrows
  <2>4. ASSUME NEW k \in witness'.steady PROVE k \in VKeys /\ OnTrack(k)'
    <3>1. k \in VKeys
      BY <2>3 DEF Steady
    <3> QED BY <2>2, <2>3, <3>1 DEF OnTrack
  <2> QED BY <2>2, <2>4 DEF SteadyOnTrack
<1>4. CASE Lookup
  <2> DEFINE lookup == Lookups[request.lookup]
             good == {j \in Found(lookup, request.value) : Accepts(lookup, vk[j], request.start)}
  <2>1. /\ request \in Requests /\ request.pc = "lookup" /\ request # None
    BY <1>1, <1>4 DEF Lookup
  <2>2. /\ request' = [request EXCEPT !.pc = "denied"]
              \/ request' = [request EXCEPT !.lookup = @ + 1]
              \/ \E j \in good : request' = Judged(vk[j])
        /\ request'.value = request.value /\ request'.pc # "begin"
    <3>1. \A j : Judged(vk[j]).pc # "begin" /\ Judged(vk[j]).value = request.value
      BY <2>1 DEF Judged, Requests
    <3>2. \/ request' = [request EXCEPT !.pc = "denied"]
          \/ request' = [request EXCEPT !.lookup = @ + 1]
          \/ \E j \in good : request' = Judged(vk[j])
      BY <1>4 DEF Lookup, Step
    <3> QED BY <2>1, <3>1, <3>2 DEF Requests
  <2>3. \A k \in witness'.steady :
              /\ k \in witness.steady
              /\ k \in Steady(vk', tenant', request'.value, now')
    BY <2>1, <2>2, HistoryGrows DEF Ended
  <2>4. ASSUME NEW k \in witness'.steady PROVE k \in VKeys /\ OnTrack(k)'
    <3>1. k \in VKeys /\ OnTrack(k) /\ k \in Steady(vk', tenant', request'.value, now')
      BY <1>1, <2>1, <2>3 DEF SteadyOnTrack
    <3>2. /\ good = {} => request.lookup = 1 /\ vk[k].previous = request.value
          /\ \A j \in good : j = k
          /\ vk[k].active /\ NotExpired(vk[k], request.start) /\ vk[k].tenant # None
      BY <2>1, <3>1, GoodKeyIsFound
    <3>3. CASE good = {}
      <4>1. request' = [request EXCEPT !.lookup = @ + 1]
        BY <1>4, <3>2, <3>3, ThreeLookups DEF Lookup, Step
      <4>2. request'.pc = "lookup" /\ request'.lookup = 2
        BY <2>1, <3>2, <3>3, <4>1 DEF Requests
      <4> QED BY <1>1, <2>2, <3>1, <3>2, <3>3, <4>2 DEF OnTrack
    <3>4. CASE good # {}
      <4>1. request' = Judged(vk[k])
        BY <1>4, <3>2, <3>4 DEF Lookup, Step
      <4>2. request' = [request EXCEPT !.pc = "registry", !.tenant = vk[k].tenant]
        BY <3>2, <4>1 DEF Judged
      <4>3. request'.pc = "registry" /\ request'.tenant = vk[k].tenant
        BY <2>1, <4>2 DEF Requests
      <4> QED BY <1>1, <3>1, <4>3 DEF OnTrack
    <3> QED BY <3>3, <3>4
  <2>5. request'.pc = "denied" => witness'.steady = {}
    BY <2>4 DEF OnTrack
  <2> QED BY <2>4, <2>5 DEF SteadyOnTrack
<1>5. CASE RegistryGet
  <2>1. /\ request \in Requests /\ request.pc = "registry" /\ request # None
        /\ request' = [request EXCEPT !.pc = "clock", !.row = tenant[request.tenant]]
    BY <1>1, <1>5 DEF RegistryGet, Step
  <2>2. /\ request'.pc = "clock" /\ request'.row = tenant[request.tenant]
        /\ request'.tenant = request.tenant /\ request'.value = request.value
    BY <2>1 DEF Requests
  <2>3. ASSUME NEW k \in witness'.steady PROVE k \in VKeys /\ OnTrack(k)'
    <3>1. k \in witness.steady /\ k \in Steady(vk', tenant', request'.value, now')
      BY <2>1, <2>2, HistoryGrows DEF Ended
    <3>2. k \in VKeys /\ request.tenant = vk[k].tenant
      BY <1>1, <2>1, <3>1 DEF SteadyOnTrack, OnTrack
    <3> QED BY <1>1, <2>2, <3>1, <3>2 DEF OnTrack
  <2> QED BY <2>2, <2>3 DEF SteadyOnTrack
<1>6. CASE Decide
  <2>1. /\ request \in Requests /\ request.pc = "clock" /\ request # None
    BY <1>1, <1>6 DEF Decide
  <2>2. CASE CanServeTraffic(request.row, now)
    <3>1. request'.pc \in {"begin", "admitted"}
      BY <1>6, <2>1, <2>2 DEF Decide, Step, AfterHook, Requests
    <3> QED BY <3>1 DEF SteadyOnTrack
  <2>3. CASE ~CanServeTraffic(request.row, now)
    <3>1. request' = [request EXCEPT !.pc = "denied"]
      BY <1>6, <2>3 DEF Decide, Step
    <3>2. request'.pc = "denied"
      BY <2>1, <3>1 DEF Requests
    <3>3. ASSUME NEW k \in witness'.steady PROVE FALSE
      <4>1. k \in witness.steady
        BY <2>1, <3>2, HistoryGrows DEF Ended
      <4>2. k \in VKeys /\ OnTrack(k)
        BY <1>1, <2>1, <4>1 DEF SteadyOnTrack
      <4>3. /\ request.row = tenant[vk[k].tenant] /\ vk[k].tenant \in Tenants
            /\ MayServe(tenant[vk[k].tenant], now)
        BY <1>1, <2>1, <4>2 DEF OnTrack, Steady, Entitles, KeyRows
      <4> QED BY <1>1, <2>3, <4>3, MayServeIsServed
    <3> QED BY <3>2, <3>3 DEF SteadyOnTrack
  <2> QED BY <2>2, <2>3
<1>7. CASE BackendFails
  <2>1. request \in Requests /\ request' = [request EXCEPT !.pc = "unavailable"]
    BY <1>1, <1>7 DEF BackendFails, Step
  <2>2. request'.pc = "unavailable"
    BY <2>1 DEF Requests
  <2> QED BY <2>2 DEF SteadyOnTrack
<1> QED
  BY <1>2, <1>3, <1>4, <1>5, <1>6, <1>7 DEF RequestStep, Leave

-----------------------------------------------------------------------------
(* The invariant, and what follows from it. *)

LEMMA InitAdmission == AdmissionInit => AdmissionInv
<1> SUFFICES ASSUME AdmissionInit PROVE AdmissionInv
  OBVIOUS
<1>1. LifecycleInv
  BY InitLifecycle DEF AdmissionInit
<1>2. AdmissionTypeOK
  BY AdmissionConstants DEF AdmissionInit, AdmissionTypeOK
<1> QED
  BY <1>1, <1>2 DEF AdmissionInit, AdmissionInv, SecretsAge, LearntTruly, SteadyOnTrack

LEMMA NextAdmission == AdmissionInv /\ [AdmissionNext]_admissionVars => AdmissionInv'
<1> SUFFICES ASSUME AdmissionInv, [AdmissionNext]_admissionVars PROVE AdmissionInv'
  OBVIOUS
<1>1. CASE UNCHANGED admissionVars
  <2>1. /\ UNCHANGED <<tenant, lock, tx, now, vk, request, witness>> /\ UNCHANGED vars
    BY <1>1 DEF admissionVars, vars
  <2>2. LifecycleInv'
    BY <2>1, NextLifecycle DEF AdmissionInv
  <2>3. AdmissionTypeOK'
    BY <2>1 DEF AdmissionInv, AdmissionTypeOK
  <2>4. LearntTruly'
    BY <2>1 DEF AdmissionInv, LearntTruly
  <2>5. SteadyOnTrack'
    BY <2>1 DEF AdmissionInv, SteadyOnTrack, OnTrack
  <2> QED BY <2>1, <2>2, <2>3, <2>4, <2>5 DEF AdmissionInv, SecretsAge
<1>2. CASE AdmissionNext
  <2>1. LifecycleInv'
    BY <1>2, RegistryStep, NextLifecycle DEF AdmissionInv
  <2>2. /\ now \in 0..MaxTime /\ now \in Nat
        /\ request = None \/ request \in Requests
        /\ vk \in [VKeys -> KeyRows \cup {None}] /\ \A k \in VKeys : SecretsAge(k)
        /\ Witness
    BY <1>2, TypesOfRequests, StepsOfAdmission DEF AdmissionInv
  <2>3. ASSUME now' \in 0..MaxTime, request' = None \/ request' \in Requests,
               vk' \in [VKeys -> KeyRows \cup {None}]
        PROVE  AdmissionTypeOK'
    <3>1. \A k \in VKeys : vk'[k] = None \/ vk'[k] \in KeyRows
      BY <2>3
    <3>2. {"begin", "lookup", "registry", "clock"} \cup Ended
            = {"begin", "lookup", "registry", "clock", "admitted", "denied", "unavailable"}
      BY DEF Ended
    <3> QED BY <2>3, <3>1, <3>2, ThreeLookups, Zenon
            DEF AdmissionTypeOK, Requests, Moments, LookupNumbers
  <2>4. CASE Next /\ UNCHANGED <<now, vk, request>>
    <3>1. Elsewhere /\ \A k \in VKeys : KeptKey(k)
      BY <2>2, <2>4 DEF Elsewhere, KeptKey
    <3>2. LearntTruly' /\ SteadyOnTrack'
      BY <3>1, ElsewhereLearnt, ElsewhereOnTrack
    <3>3. AdmissionTypeOK'
      BY <2>2, <2>3, <2>4
    <3> QED BY <2>1, <2>2, <2>4, <3>2, <3>3 DEF AdmissionInv, SecretsAge
  <2>5. ASSUME NEW j \in VKeys, KeyStep(j) PROVE AdmissionInv'
    <3>1. /\ vk' \in [VKeys -> KeyRows \cup {None}]
          /\ \A k \in VKeys : SecretsAge(k)'
          /\ UNCHANGED <<vars, now, request>>
      BY <2>5, KeyTypes
    <3>2. Elsewhere /\ \A k \in VKeys : KeptKey(k)
      BY <2>2, <2>5, <3>1, KeysKept DEF Elsewhere
    <3>3. LearntTruly' /\ SteadyOnTrack'
      BY <3>2, ElsewhereLearnt, ElsewhereOnTrack
    <3>4. AdmissionTypeOK'
      BY <2>2, <2>3, <3>1
    <3> QED BY <2>1, <3>1, <3>3, <3>4 DEF AdmissionInv
  <2>6. CASE Tick
    <3>1. now' \in 0..MaxTime /\ now' \in Nat /\ now <= now' /\ UNCHANGED <<vk, request>>
      BY <2>2, <2>6, AdmissionConstants DEF Tick
    <3>2. Elsewhere /\ \A k \in VKeys : KeptKey(k)
      BY <2>2, <3>1 DEF Elsewhere, KeptKey
    <3>3. LearntTruly' /\ SteadyOnTrack'
      BY <3>2, ElsewhereLearnt, ElsewhereOnTrack
    <3>4. AdmissionTypeOK'
      BY <2>2, <2>3, <3>1
    <3> QED BY <2>1, <2>2, <3>1, <3>3, <3>4 DEF AdmissionInv, SecretsAge
  <2>7. CASE RequestStep
    <3>1. /\ request' = None \/ request' \in Requests
          /\ UNCHANGED <<vars, now, vk>>
      BY <2>7, RequestTypes
    <3>2. LearntTruly' /\ SteadyOnTrack'
      BY <2>2, <2>7, RequestLearnt, RequestOnTrack
    <3>3. AdmissionTypeOK'
      BY <2>2, <2>3, <3>1
    <3> QED BY <2>1, <2>2, <3>1, <3>2, <3>3 DEF AdmissionInv, SecretsAge
  <2> QED BY <1>2, <2>4, <2>5, <2>6, <2>7, StepsOfAdmission
<1> QED
  BY <1>1, <1>2

\* The inductive invariant of admission, the registry's included.
THEOREM AdmissionInvariant == AdmissionSpec => []AdmissionInv
  BY InitAdmission, NextAdmission, PTL DEF AdmissionSpec

\* Registry, key rows and request keep their types.
THEOREM RegistryWellTyped == AdmissionSpec => []RegistryTypeOK
<1>1. AdmissionInv => RegistryTypeOK
  BY DEF AdmissionInv, LifecycleInv, RegistryTypeOK
<1> QED
  BY AdmissionInvariant, <1>1, PTL

\* A request is admitted as a tenant only if, since its second resolution
\* began, an active key of that tenant stood for the secret and the tenant
\* could serve.
THEOREM AdmissionIsEarned == AdmissionSpec => []AdmittedWasEntitled
<1>1. AdmissionInv => AdmittedWasEntitled
  BY DEF AdmissionInv, LearntTruly, AdmittedWasEntitled
<1> QED
  BY AdmissionInvariant, <1>1, PTL

\* Nobody who presents a secret that is good throughout is turned away,
\* however often keys rotate between the lookups.
THEOREM GoodKeysGetIn == AdmissionSpec => []GoodKeyIsAdmitted
<1>1. AdmissionInv => GoodKeyIsAdmitted
  BY DEF AdmissionInv, SteadyOnTrack, GoodKeyIsAdmitted
<1> QED
  BY AdmissionInvariant, <1>1, PTL

-----------------------------------------------------------------------------
(* A deregistered tenant. *)

Deregistered(t) == tenant[t] # None /\ tenant[t].status = "deregistered"

\* A request whose second resolution has not begun.
Unresolved == request = None \/ request.hook = "preauth" \/ request.pc = "begin"

AdmittedAs(t) == request # None /\ request.pc = "admitted" /\ request.tenant = t

\* A deregistered tenant is out for good: of the requests under way when its row
\* is committed only one that is being resolved for the second time can still be
\* admitted as that tenant, and no later one, whatever becomes of its row, its
\* keys and its trial (allowedTransitions and the resolver, read together).
DeregisteredStaysOut ==
    \A t \in Tenants :
        [](Deregistered(t) /\ Unresolved => []~AdmittedAs(t))

\* What keeps a tenant out: its row, and that nothing the current resolution has
\* seen lets it serve.
ShutOut(t) == Deregistered(t) /\ (Unresolved \/ t \notin witness.servers)

LEMMA DeregisteredStays ==
    ASSUME LifecycleInv, [Next]_vars, NEW t \in Tenants, Deregistered(t)
    PROVE  Deregistered(t)'
<1>1. tenant'[t] # None
  <2>1. LifecycleInv'
    BY NextLifecycle
  <2>2. CASE tenant' = tenant
    BY <2>2 DEF Deregistered
  <2>3. ASSUME NEW c \in Callers, NEW u \in Tenants, NEW slug \in Spellings, Create(c, u, slug)
        PROVE  tenant'[t] # None
    BY <2>3 DEF Create, Deregistered, LifecycleInv, TypeOK
  <2>4. ASSUME NEW c \in Callers, Commit(c) PROVE tenant'[t] # None
    <3> DEFINE x == tx[c]
    <3>1. x # None /\ x.tenant \in Tenants /\ x.after \in Rows /\ x.after # None
      BY <2>4, NoneIsNoRow DEF Commit, LifecycleInv, TypeOK
    <3>2. tenant' = [tenant EXCEPT ![x.tenant] = x.after]
      BY <2>4, <3>1, WrittenIsAfter DEF Commit
    <3> QED BY <3>1, <3>2 DEF Deregistered, LifecycleInv, TypeOK
  <2> QED BY <2>2, <2>3, <2>4 DEF Next, vars, Transition, StartTrial, UpdateProfile, Rollback
<1>2. StepForward(t)
  BY StepsGoForward
<1> QED BY <1>1, <1>2 DEF StepForward, Deregistered

LEMMA ShutOutStays ==
    ASSUME AdmissionInv, [AdmissionNext]_admissionVars, NEW t \in Tenants, ShutOut(t)
    PROVE  ShutOut(t)'
<1>1. Deregistered(t)'
  <2>1. [Next]_vars
    BY RegistryStep DEF admissionVars, vars
  <2> QED BY <2>1, DeregisteredStays DEF AdmissionInv, ShutOut
<1>2. ~MayServe(tenant'[t], now')
  BY <1>1 DEF MayServe, Deregistered
<1>3. CASE AdmissionNext
  <2> SUFFICES ASSUME ~Unresolved' PROVE t \notin witness'.servers
    BY <1>1 DEF ShutOut
  <2>1. request' # None /\ request'.hook # "preauth" /\ request'.pc # "begin"
    BY DEF Unresolved
  <2>2. request # None
    <3>1. ASSUME NEW value \in Secrets, Arrive(value) PROVE request'.pc = "begin"
      BY <3>1 DEF Arrive
    <3>2. ASSUME NEW k \in VKeys, KeyStep(k) PROVE request' = request
      BY <3>2 DEF KeyStep, Issue, Rotate, SetActive, Remove
    <3>3. CASE RequestStep
      BY <2>1, <3>1, <3>3 DEF RequestStep, BeginHook, Lookup, RegistryGet, Decide, BackendFails,
         Leave
    <3> QED BY <1>3, <2>1, <3>2, <3>3, StepsOfAdmission DEF Tick
  <2>3. CASE request.pc \in Ended
    <3>1. witness' = witness
      BY <1>3, <2>1, <2>2, <2>3 DEF AdmissionNext, Witness
    <3>2. request' = request
      BY <1>3, <2>1, <2>2, <2>3 DEF Ended, AdmissionNext, Issue, Rotate, SetActive, Remove, Tick,
         Arrive, BeginHook, Lookup, RegistryGet, Decide, BackendFails, Leave, Step
    <3> QED BY <2>1, <2>2, <3>1, <3>2 DEF ShutOut, Unresolved
  <2>4. CASE request.pc \notin Ended
    <3>1. witness' = Witnessed
      BY <1>3, <2>1, <2>2, <2>4 DEF AdmissionNext, Witness
    <3>2. CASE request.pc = "begin"
      BY <1>2, <3>1, <3>2 DEF Witnessed
    <3>3. CASE request.pc # "begin"
      <4>1. request.hook # "preauth"
        <5>1. request \in Requests
          BY <2>2, TypesOfRequests DEF AdmissionInv
        <5> QED
          BY <1>3, <2>1, <2>2, <5>1 DEF Requests, AdmissionNext, Issue, Rotate, SetActive, Remove,
             Tick, Arrive, BeginHook, Lookup, RegistryGet, Decide, BackendFails, Leave, Step,
             Judged, AfterHook
      <4>2. t \notin witness.servers
        BY <2>2, <3>3, <4>1 DEF ShutOut, Unresolved
      <4> QED BY <1>2, <3>1, <3>3, <4>2 DEF Witnessed
    <3> QED BY <3>2, <3>3
  <2> QED BY <2>3, <2>4
<1>4. CASE UNCHANGED admissionVars
  BY <1>1, <1>4 DEF admissionVars, ShutOut, Unresolved
<1> QED BY <1>3, <1>4

\* Once a tenant is deregistered no request that has yet to begin its second
\* resolution is ever admitted as that tenant: the status machine has no way
\* back, and nothing the first resolution learnt is used.
THEOREM DeregistrationIsFinal == AdmissionSpec => DeregisteredStaysOut
<1> SUFFICES ASSUME NEW t \in Tenants
             PROVE  AdmissionSpec => [](Deregistered(t) /\ Unresolved => []~AdmittedAs(t))
  BY DEF DeregisteredStaysOut
<1>1. Deregistered(t) /\ Unresolved => ShutOut(t)
  BY DEF ShutOut
<1>2. AdmissionInv /\ ShutOut(t) /\ [AdmissionNext]_admissionVars => ShutOut(t)'
  BY ShutOutStays
<1>3. AdmissionInv /\ ShutOut(t) => ~AdmittedAs(t)
  BY DEF AdmissionInv, LearntTruly, ShutOut, Unresolved, AdmittedAs
<1> QED
  BY <1>1, <1>2, <1>3, AdmissionInvariant, PTL DEF AdmissionSpec

\* Admission leaves the registry to itself, so what is proved of the registry
\* alone holds of it under requests: its status machine has no way back.
THEOREM RegistryUnderTraffic == AdmissionSpec => NoWayBack
<1>1. AdmissionInit => Init
  BY DEF AdmissionInit
<1>2. [AdmissionNext]_admissionVars => [Next]_vars
  BY RegistryStep DEF admissionVars, vars
<1> QED
  BY <1>1, <1>2, StatusMachine, PTL DEF AdmissionSpec, Spec

=============================================================================
