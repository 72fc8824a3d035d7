------------------------------ MODULE Admission ------------------------------
(***************************************************************************)
(* Admission of a data-plane request: plugins/tenantauth resolves the      *)
(* virtual key of a request to its tenant, twice, once in each of Bifrost's *)
(* pre-auth and pre-hook middlewares, and internal/tenantauth looks the    *)
(* key up and asks the registry of module TenantLifecycle whether the      *)
(* tenant may serve.  Every lookup is a statement of its own, and between  *)
(* two of them keys are rotated, deactivated and deleted, the tenant moves *)
(* through its lifecycle and time passes.                                  *)
(*                                                                         *)
(* One request runs at a time: requests share nothing that they write.     *)
(* The rows of governance_virtual_keys belong to Bifrost.  Secrets are     *)
(* random, so the n-th secret of a key is the pair of key and n and no two *)
(* keys ever share one.  Paths outside the data plane and the SDK headers  *)
(* that carry a credential are left out; so is the refusal to rebind a     *)
(* context, since each hook has a context of its own.                      *)
(***************************************************************************)
EXTENDS TenantLifecycle, Sequences

CONSTANTS
    VKeys,       \* virtual keys
    Rotations,   \* bound on the rotations of a key
    Grace,       \* how long a rotated secret remains valid
    Expiries,    \* expiry times that keys are issued with
    MaxTime      \* bound on the clock

ASSUME AdmissionConstants ==
    /\ None \notin VKeys /\ None \notin Tenants
    /\ Dates \subseteq Nat /\ Expiries \subseteq Nat
    /\ Rotations \in Nat /\ Grace \in Nat /\ MaxTime \in Nat

VARIABLES
    now,      \* the clock
    vk,       \* key -> its row in governance_virtual_keys, or None
    request,  \* the request being admitted, or None
    witness   \* history: what held since its current hook began

admissionVars == <<vars, now, vk, request, witness>>

Secrets == VKeys \X (0..Rotations)

ASSUME NoneIsNoSecret == None \notin Secrets

\* "hashed" rows have value_hash and an encrypted value, "plain" ones the value
\* alone, as a database holds it from before the hash column was added.
KeyRows ==
    [value : Secrets, previous : Secrets \cup {None}, retires : Nat,
     form : {"hashed", "plain"}, active : BOOLEAN, expires : Nat \cup {None},
     tenant : Tenants \cup {None}]

NoWitness == [owners |-> {}, servers |-> {}, steady |-> {}]

AdmissionInit ==
    /\ Init
    /\ now = 0
    /\ vk = [k \in VKeys |-> None]
    /\ request = None
    /\ witness = NoWitness

-----------------------------------------------------------------------------
(* Keys change in Bifrost, by projection or from its own dashboard. *)

Issue(k, t, form, expires) ==
    /\ vk[k] = None
    /\ vk' = [vk EXCEPT ![k] =
            [value |-> <<k, 0>>, previous |-> None, retires |-> 0, form |-> form,
             active |-> TRUE, expires |-> expires, tenant |-> t]]
    /\ UNCHANGED <<vars, now, request>>

Rotate(k) ==
    /\ vk[k] # None /\ vk[k].value[2] < Rotations
    /\ vk' = [vk EXCEPT ![k].value = <<k, @[2] + 1>>, ![k].previous = vk[k].value,
                        ![k].retires = now + Grace, ![k].form = "hashed"]
    /\ UNCHANGED <<vars, now, request>>

SetActive(k, active) ==
    /\ vk[k] # None /\ vk[k].active # active
    /\ vk' = [vk EXCEPT ![k].active = active]
    /\ UNCHANGED <<vars, now, request>>

Remove(k) ==
    /\ vk[k] # None
    /\ vk' = [vk EXCEPT ![k] = None]
    /\ UNCHANGED <<vars, now, request>>

Tick ==
    /\ now < MaxTime
    /\ now' = now + 1
    /\ UNCHANGED <<vars, vk, request>>

-----------------------------------------------------------------------------
(* The decision, as functions of a row and a clock. *)

\* Mutant: the stored status alone decides.
CanServeTrafficByStatus(row, at) == row # None /\ row.status \in {"trial", "active"}

\* A trial stops at its end date whatever the expiry job does.
CanServeTraffic(row, at) ==
    /\ row # None
    /\ \/ row.status = "active"
       \/ row.status = "trial" /\ row.trialEnds # None /\ at < row.trialEnds

NotExpired(row, at) == row.expires = None \/ at < row.expires

\* The rows that each lookup finds.
Found(lookup, value) ==
    {k \in VKeys :
        /\ vk[k] # None
        /\ CASE lookup = "current" -> vk[k].form = "hashed" /\ vk[k].value = value
             [] lookup = "previous" -> vk[k].previous = value
             [] lookup = "plain" -> vk[k].form = "plain" /\ vk[k].value = value}

\* A retired secret is good until the end of its grace period, exclusive.
Accepts(lookup, row, at) == lookup = "previous" => at < row.retires

\* Mutant: retired secrets are looked up first.
LookupsRetiredFirst == <<"previous", "current", "plain">>

Lookups == <<"current", "previous", "plain">>

-----------------------------------------------------------------------------
(* A request.  Its pc is "begin", "lookup" with the number of the lookup,  *)
(* "registry", "clock", or how it ended.                                   *)

Ended == {"admitted", "denied", "unavailable"}

Arrive(value) ==
    /\ request = None
    /\ request' = [value |-> value, hook |-> "preauth", pc |-> "begin", lookup |-> 1,
                   start |-> now, tenant |-> None, row |-> None]
    /\ UNCHANGED <<vars, now, vk>>

Step(changed) ==
    /\ request' = changed
    /\ UNCHANGED <<vars, now, vk>>

\* Each resolution reads the clock once for the key, before its transaction.
BeginHook ==
    /\ request # None /\ request.pc = "begin"
    /\ Step([request EXCEPT !.pc = "lookup", !.lookup = 1, !.start = now])

\* What becomes of a request whose lookup found this row.
Judged(row) ==
    IF row.active /\ NotExpired(row, request.start) /\ row.tenant # None
    THEN [request EXCEPT !.pc = "registry", !.tenant = row.tenant]
    ELSE [request EXCEPT !.pc = "denied"]

Lookup ==
    /\ request # None /\ request.pc = "lookup"
    /\ LET lookup == Lookups[request.lookup]
           good == {k \in Found(lookup, request.value) : Accepts(lookup, vk[k], request.start)}
       IN  \/ \E k \in good : Step(Judged(vk[k]))
           \/ /\ good = {}
              /\ IF request.lookup < Len(Lookups)
                 THEN Step([request EXCEPT !.lookup = @ + 1])
                 ELSE Step([request EXCEPT !.pc = "denied"])

RegistryGet ==
    /\ request # None /\ request.pc = "registry"
    /\ Step([request EXCEPT !.pc = "clock", !.row = tenant[request.tenant]])

\* The first resolution only lets the request reach the second one.
AfterHook(r) ==
    IF r.hook = "preauth"
    THEN [r EXCEPT !.hook = "prehook", !.pc = "begin", !.tenant = None, !.row = None]
    ELSE [r EXCEPT !.pc = "admitted"]

\* The registry row is judged by a second reading of the clock.
Decide ==
    /\ request # None /\ request.pc = "clock"
    /\ Step(IF CanServeTraffic(request.row, now) THEN AfterHook(request)
            ELSE [request EXCEPT !.pc = "denied"])

\* A database does not answer: 503.
BackendFails ==
    /\ request # None /\ request.pc \in {"lookup", "registry"}
    /\ Step([request EXCEPT !.pc = "unavailable"])

Leave ==
    /\ request # None /\ request.pc \in Ended
    /\ request' = None
    /\ UNCHANGED <<vars, now, vk>>

-----------------------------------------------------------------------------
(* History. *)

\* Whether a row entitles its tenant to a secret at a time, however it is found.
Entitles(row, value, at) ==
    /\ row # None
    /\ row.value = value \/ (row.previous = value /\ at < row.retires)
    /\ row.active /\ NotExpired(row, at) /\ row.tenant # None

\* A tenant that is open for business and, if on trial, not past its end.
MayServe(row, at) ==
    /\ row # None /\ row.status \notin {"registered", "suspended", "deregistered"}
    /\ row.trialEnds # None => at < row.trialEnds

\* The keys that a request could be admitted by in these rows, at this time.
Steady(keys, tenants, value, at) ==
    {k \in VKeys : /\ Entitles(keys[k], value, at)
                   /\ keys[k].form = "hashed"
                   /\ MayServe(tenants[keys[k].tenant], at)}

\* Since its hook began: the tenants that some row entitled to the secret, the
\* ones that could serve, and the keys that were good throughout while the row
\* of their tenant did not change.
Witnessed ==
    LET owners == {vk'[k].tenant : k \in {k \in VKeys :
                        Entitles(vk'[k], request'.value, request'.start)}}
        servers == {t \in Tenants : MayServe(tenant'[t], now')}
        steady == Steady(vk', tenant', request'.value, now')
    IN  IF request.pc = "begin"
        THEN [owners |-> owners, servers |-> servers, steady |-> steady]
        ELSE [owners |-> witness.owners \cup owners,
              servers |-> witness.servers \cup servers,
              steady |-> {k \in witness.steady \cap steady :
                              tenant'[vk'[k].tenant] = tenant[vk'[k].tenant]}]

Witness ==
    witness' = CASE request' = None \/ request'.pc = "begin" -> NoWitness
                 [] request # None /\ request.pc \in Ended -> witness
                 [] OTHER -> Witnessed

AdmissionNext ==
    /\ \/ Next /\ UNCHANGED <<now, vk, request>>
       \/ \E k \in VKeys :
            \/ \E t \in Tenants \cup {None}, form \in {"hashed", "plain"},
                  expires \in Expiries \cup {None} : Issue(k, t, form, expires)
            \/ Rotate(k)
            \/ \E active \in BOOLEAN : SetActive(k, active)
            \/ Remove(k)
       \/ Tick
       \/ \E value \in Secrets : Arrive(value)
       \/ BeginHook \/ Lookup \/ RegistryGet \/ Decide
       \/ BackendFails \/ Leave
    /\ Witness

AdmissionSpec == AdmissionInit /\ [][AdmissionNext]_admissionVars

-----------------------------------------------------------------------------
(* Properties. *)

\* The clock, the key rows and the request are well formed.
AdmissionTypeOK ==
    /\ now \in 0..MaxTime
    /\ \A k \in VKeys : vk[k] = None \/ vk[k] \in KeyRows
    /\ request = None \/ request \in
            [value : Secrets, hook : {"preauth", "prehook"},
             pc : {"begin", "lookup", "registry", "clock"} \cup Ended,
             lookup : DOMAIN Lookups, start : 0..MaxTime, tenant : Tenants \cup {None}, row : Rows \cup {None}]

\* Type correctness of the registry and of admission.
RegistryTypeOK == TypeOK /\ AdmissionTypeOK

\* A request is admitted as a tenant only if, since its second resolution began,
\* an active key of that tenant stood for the secret by the clock of that
\* beginning and the tenant could serve: nothing learnt by the first resolution,
\* no retired secret and no stale registry row gets it in.
AdmittedWasEntitled ==
    request # None /\ request.pc = "admitted" =>
        /\ request.hook = "prehook"
        /\ request.tenant \in witness.owners \cap witness.servers

\* Nobody who presents a secret that is good throughout is turned away: a key
\* rotated between two lookups is found by one of them.  (A row from before the
\* hash column, and a tenant whose row changes meanwhile, may be missed.)
GoodKeyIsAdmitted ==
    request # None /\ request.pc = "denied" => witness.steady = {}

=============================================================================
