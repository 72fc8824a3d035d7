----------------------------- MODULE Catalogue -----------------------------
(***************************************************************************)
(* Plans, their model allow-lists, model prices (SKUs) and the plan each   *)
(* tenant is on: how the control-plane API starts on them, changes them,   *)
(* and how a gateway reads them to admit, price and list models.           *)
(*                                                                         *)
(* There are several API processes (replicas), and none waits for another. *)
(* On every start one migrates the price columns, copies legacy quotas     *)
(* into the allow-lists and seeds the default price and plan; only then    *)
(* does it serve requests, while others may still be starting.  Each may   *)
(* die at any point, and its open transactions with it; a statement that   *)
(* fails, such as adding a column another start has just added, ends a     *)
(* start likewise.  Gateways read all the while, one autocommitted         *)
(* statement at a time.                                                    *)
(*                                                                         *)
(* A model id is its segments: "openai/m" is <<"openai", "m">>.  A plan's  *)
(* commercial terms are one value; the credit and concurrency columns are  *)
(* migrated like the price columns and left out, and so are names,         *)
(* currencies, audit entries (Identity has them) and the dates of an       *)
(* assignment, which the API sets to the present.                          *)
(***************************************************************************)
EXTENDS BillingStore, Sequences, SequencesExt

CONSTANTS
    Apis,         \* API processes
    Subscribers,  \* the tenants that may be on a plan
    Plans,        \* plan ids
    DefaultPlan,  \* the plan every start of the API seeds
    Ids,          \* model ids
    Offers,       \* what a plan may be set to: its terms and its models
    SeedOffer,    \* what the default plan is seeded with
    Prices,       \* prices an administrator sets, per million tokens
    LegacyPrices, \* prices of the rows an older release left, per thousand
    Quotas,       \* plan -> the models of the quota rows an older release left
    LegacyTerms,  \* the terms of the plans it left
    Crowded,      \* whether there are more tenants than List returns at once
    Thousand,     \* what a price per thousand is multiplied by
    Tokens,       \* token counts of a response
    Gates         \* requests at a gateway

Star == <<"*">>
Sides == {"prompt", "completion"}

\* The price columns: one per million tokens for each side, and the legacy
\* ones per thousand, which come with the table.
Columns == Sides \cup {"thousand"}
Million == Thousand * Thousand

ASSUME CatalogueConstants ==
    /\ Subscribers \subseteq Tenants
    /\ DefaultPlan \in Plans /\ None \notin Plans
    /\ Star \in Ids
    /\ \A o \in Offers \cup {SeedOffer} : o.models \subseteq Ids
    /\ Crowded \in BOOLEAN
    /\ Thousand \in Nat \ {0} /\ Tokens \subseteq Nat
    /\ Prices \subseteq [Sides -> Nat] /\ LegacyPrices \subseteq [Sides -> Nat]
    /\ Quotas \in [Plans -> SUBSET Ids]
    /\ \A o \in Offers \cup {SeedOffer} : o.terms # None

SkuRows == [million : [Sides -> Nat], thousand : [Sides -> Nat]]

\* A model id has segments, and without its provider it is a model id too.
ASSUME IdsAssumption ==
    /\ \A id \in Ids : /\ id \in Seq(ToSet(id)) \ {<<>>}
                       /\ None \notin ToSet(id)
                       /\ Len(id) >= 2 => Tail(id) \in Ids
    /\ None \notin SkuRows

VARIABLES
    registered,  \* the tenants of the registry
    plan,        \* plan -> its terms, or None
    planModels,  \* plan -> its allow-list
    quotas,      \* plan -> the models of its legacy quota rows
    sku,         \* model id -> its price row, or None
    columns,     \* the price columns there are; none, no table
    assignment,  \* tenant -> its plan, or None
    api,         \* API process -> its start
    desk,        \* caller -> its open plan transaction, or None
    gate,        \* request -> its progress at a gateway
    meant,       \* history: model id -> the price it was last given
    lost,        \* history: model id -> sides whose filling a dying start skipped
    raced        \* history: model id -> sides a start was to convert when it was priced

tables == <<registered, plan, planModels, quotas, sku, columns, assignment>>
history == <<meant, lost, raced>>
catalogueVars == <<tables, api, desk, gate, history>>

Zero == [side \in Sides |-> 0]
Idle == [pc |-> "idle"]

\* A start knows the columns it is to convert (missing), the tenants it has
\* yet to look at (listed) and the one it found without a plan (counted).
Down == [pc |-> "down", missing |-> {}, listed |-> {}, counted |-> None]

\* The row a legacy release left, the new columns at their default.
LegacyRow(price) == [million |-> Zero, thousand |-> price]

Scaled(price) == [side \in Sides |-> price[side] * Thousand]

\* A database without tables, or one that an older release left.
CatalogueInit ==
    /\ registered \in SUBSET Subscribers
    /\ planModels = [p \in Plans |-> {}]
    /\ \/ /\ quotas = [p \in Plans |-> {}]
          /\ sku = [id \in Ids |-> None]
          /\ columns = {}
          /\ meant = [id \in Ids |-> Zero]
       \/ \E id \in Ids \ {Star}, price \in LegacyPrices :
          /\ quotas = Quotas
          /\ sku = [i \in Ids |-> IF i = id THEN LegacyRow(price) ELSE None]
          /\ columns = {"thousand"}
          /\ meant = [i \in Ids |-> IF i = id THEN Scaled(price) ELSE Zero]
    /\ plan = [p \in Plans |-> IF quotas[p] = {} THEN None ELSE LegacyTerms]
    /\ assignment = [t \in Subscribers |-> None]
    /\ api = [a \in Apis |-> Down]
    /\ desk = [c \in Callers |-> None]
    /\ gate = [g \in Gates |-> Idle]
    /\ lost = [id \in Ids |-> {}]
    /\ raced = [id \in Ids |-> {}]

-----------------------------------------------------------------------------
(* A start of an API process: billing.Migrate, then seedDefaultPlan. *)

\* Which columns exist is asked before anything is altered, one at a time.
HasPromptPer1M(a) ==
    /\ api[a].pc = "down"
    /\ api' = [api EXCEPT ![a].pc = "asking", ![a].missing = {"prompt"} \ columns]
    /\ UNCHANGED <<tables, desk, gate, history>>

HasCompletionPer1M(a) ==
    /\ api[a].pc = "asking"
    /\ api' = [api EXCEPT ![a].pc = "asked", ![a].missing = @ \cup ({"completion"} \ columns)]
    /\ UNCHANGED <<tables, desk, gate, history>>

\* Without legacy columns by now there is nothing to convert.
HasLegacyPer1K(a) ==
    /\ api[a].pc = "asked"
    /\ api' = [api EXCEPT ![a].pc = "altering",
                          ![a].missing = IF "thousand" \in columns THEN @ ELSE {}]
    /\ UNCHANGED <<tables, desk, gate, history>>

\* AutoMigrate creates the table, or adds the missing columns one by one,
\* each at once for good.
CreateSKUs(a) ==
    /\ api[a].pc = "altering"
    /\ columns = {}
    /\ columns' = Columns
    /\ UNCHANGED <<registered, plan, planModels, quotas, sku, assignment, api, desk, gate, history>>

AddColumn(a, side) ==
    /\ api[a].pc = "altering"
    /\ columns # {} /\ side \notin columns
    /\ columns' = columns \cup {side}
    /\ UNCHANGED <<registered, plan, planModels, quotas, sku, assignment, api, desk, gate, history>>

\* Legacy quota rows are copied into the allow-lists on every start, unless
\* they are there.  The insert waits for a transaction that has deleted one.
\* (A row found there and deleted before the copies commit is not modelled as
\* left out: it comes back, as with any later start.)
CopyQuotas(a) ==
    /\ api[a].pc = "altering"
    /\ columns = Columns
    /\ \A c \in Callers : desk[c] # None /\ desk[c].deleted # None =>
          quotas[desk[c].plan] \cap desk[c].deleted = {}
    /\ planModels' = [p \in Plans |-> planModels[p] \cup quotas[p]]
    /\ api' = [api EXCEPT ![a].pc = "copied"]
    /\ UNCHANGED <<registered, plan, quotas, sku, columns, assignment, desk, gate, history>>

Converted(row, sides) ==
    [row EXCEPT !.million =
        [side \in Sides |-> IF side \in sides THEN row.thousand[side] * Thousand ELSE @[side]]]

\* Rows are filled: nothing is lost on the sides a start converts.
Filled(sides) == lost' = [id \in Ids |-> lost[id] \ sides]

\* Mutant: every start converts every price.
ConvertAlways(a) ==
    /\ api[a].pc = "copied"
    /\ sku' = [id \in Ids |-> IF sku[id] = None THEN None ELSE Converted(sku[id], Sides)]
    /\ api' = [api EXCEPT ![a].pc = "seeding", ![a].missing = {}]
    /\ Filled(Sides)
    /\ UNCHANGED <<registered, plan, planModels, quotas, columns, assignment, desk, gate, meant, raced>>

\* A start that found a column missing converts every row there is by now.
\* (A row inserted between its two updates keeps the first side as given.)
Convert(a) ==
    /\ api[a].pc = "copied"
    /\ sku' = [id \in Ids |->
            IF sku[id] = None THEN None ELSE Converted(sku[id], api[a].missing)]
    /\ api' = [api EXCEPT ![a].pc = "seeding", ![a].missing = {}]
    /\ Filled(api[a].missing)
    /\ UNCHANGED <<registered, plan, planModels, quotas, columns, assignment, desk, gate, meant, raced>>

\* The row UpsertSKU writes: the legacy columns follow, rounded down.
PriceRow(price) ==
    [million |-> price, thousand |-> [side \in Sides |-> price[side] \div Thousand]]

\* The sides some start is still to convert.
Owed == UNION {api[a].missing : a \in Apis}

WritePrice(id, price) ==
    /\ sku' = [sku EXCEPT ![id] = PriceRow(price)]
    /\ meant' = [meant EXCEPT ![id] = price]
    /\ lost' = [lost EXCEPT ![id] = {}]
    /\ raced' = [raced EXCEPT ![id] = Owed]

SeedPrice(a) ==
    /\ api[a].pc = "seeding"
    /\ WritePrice(Star, Zero)
    /\ api' = [api EXCEPT ![a].pc = "priced"]
    /\ UNCHANGED <<registered, plan, planModels, quotas, columns, assignment, desk, gate>>

\* Plan transactions write the plan's row first, and so hold it to the end.
PlanFree(p) == \A c \in Callers : desk[c] # None => desk[c].plan # p

\* Asked for 10000 tenants, more than it grants, List returns the newest 100:
\* of many, any subset of the ones that are modelled.
ListedTenants == IF Crowded THEN SUBSET registered ELSE {registered}

\* EnsurePlan, which waits for the row too, then List.
SeedPlan(a) ==
    /\ api[a].pc = "priced"
    /\ PlanFree(DefaultPlan)
    /\ plan' = [plan EXCEPT ![DefaultPlan] = SeedOffer.terms]
    /\ planModels' = [planModels EXCEPT ![DefaultPlan] = SeedOffer.models]
    /\ \E some \in ListedTenants :
          api' = [api EXCEPT ![a].pc = "assigning", ![a].listed = some]
    /\ UNCHANGED <<registered, quotas, sku, columns, assignment, desk, gate, history>>

\* A listed tenant's assignments are counted, and where there was none it is
\* put on the default plan: by then it may be on another.
SeedCount(a, t) ==
    /\ api[a].pc = "assigning"
    /\ api[a].counted = None /\ t \in api[a].listed
    /\ api' = [api EXCEPT ![a].listed = @ \ {t},
                          ![a].counted = IF assignment[t] = None THEN t ELSE None]
    /\ UNCHANGED <<tables, desk, gate, history>>

SeedAssign(a) ==
    /\ api[a].counted # None
    /\ assignment' = [assignment EXCEPT ![api[a].counted] = DefaultPlan]
    /\ api' = [api EXCEPT ![a].counted = None]
    /\ UNCHANGED <<registered, plan, planModels, quotas, sku, columns, desk, gate, history>>

Serve(a) ==
    /\ api[a].pc = "assigning"
    /\ api[a].counted = None /\ api[a].listed = {}
    /\ api' = [api EXCEPT ![a].pc = "up"]
    /\ UNCHANGED <<tables, desk, gate, history>>

\* A start that dies before it converts never will, and one that asks when
\* the column is there leaves it alone: unless another start is to convert,
\* a row that was not written since has no price on that side.
ApiCrash(a) ==
    /\ api[a].pc # "down"
    /\ lost' = [id \in Ids |->
            lost[id] \cup ((api[a].missing \cap columns) \ raced[id])]
    /\ api' = [api EXCEPT ![a] = Down]
    /\ desk' = [c \in Callers |-> IF desk[c] # None /\ desk[c].at = a THEN None ELSE desk[c]]
    /\ UNCHANGED <<tables, gate, meant, raced>>

-----------------------------------------------------------------------------
(* Requests to the API. *)

Serving(a) == api[a].pc = "up"

\* What a plan transaction begins as, at the process that serves it.
Opened(a, p, offer) == [at |-> a, plan |-> p, offer |-> offer, deleted |-> None]

\* Mutant: the plan row is not locked by what is written first.
PlanLockNot(a, c, p, offer) ==
    /\ Serving(a) /\ desk[c] = None
    /\ desk' = [desk EXCEPT ![c] = Opened(a, p, offer)]
    /\ UNCHANGED <<tables, api, gate, history>>

\* INSERT for a plan that does not exist, UPDATE for one that does.
PlanLock(a, c, p, offer) ==
    /\ Serving(a) /\ desk[c] = None
    /\ PlanFree(p)
    /\ desk' = [desk EXCEPT ![c] = Opened(a, p, offer)]
    /\ UNCHANGED <<tables, api, gate, history>>

\* DELETE of the allow-list the statement sees.
PlanClear(c) ==
    /\ desk[c] # None /\ desk[c].deleted = None
    /\ desk' = [desk EXCEPT ![c].deleted = planModels[desk[c].plan]]
    /\ UNCHANGED <<tables, api, gate, history>>

\* The INSERTs fail on a row a start has copied since.
PlanCommit(c) ==
    /\ desk[c] # None /\ desk[c].deleted # None
    /\ LET x == desk[c]
           left == planModels[x.plan] \ x.deleted
       IN  /\ left \cap x.offer.models = {}
           /\ plan' = [plan EXCEPT ![x.plan] = x.offer.terms]
           /\ planModels' = [planModels EXCEPT ![x.plan] = left \cup x.offer.models]
    /\ desk' = [desk EXCEPT ![c] = None]
    /\ UNCHANGED <<registered, quotas, sku, columns, assignment, api, gate, history>>

PlanRollback(c) ==
    /\ desk[c] # None
    /\ desk' = [desk EXCEPT ![c] = None]
    /\ UNCHANGED <<tables, api, gate, history>>

\* A price given per thousand, as older clients do, is multiplied first.
UpsertSKU(a, id, price) ==
    /\ Serving(a)
    /\ WritePrice(id, price)
    /\ UNCHANGED <<registered, plan, planModels, quotas, columns, assignment, api, desk, gate>>

\* The plan is looked up; whether there is such a tenant is not.
SetTenantPlan(a, t, p) ==
    /\ Serving(a)
    /\ plan[p] # None
    /\ assignment' = [assignment EXCEPT ![t] = p]
    /\ UNCHANGED <<registered, plan, planModels, quotas, sku, columns, api, desk, gate, history>>

CreateTenant(a, t) ==
    /\ Serving(a) /\ t \notin registered
    /\ plan[DefaultPlan] # None
    /\ registered' = registered \cup {t}
    /\ assignment' = [assignment EXCEPT ![t] = DefaultPlan]
    /\ UNCHANGED <<plan, planModels, quotas, sku, columns, api, desk, gate, history>>

-----------------------------------------------------------------------------
(* Model ids. *)

\* The rows that may stand for a model: its own, the one without the provider,
\* and the fallback.
skuCandidates(id) ==
    (IF Len(id) >= 2 THEN <<id, Tail(id)>> ELSE <<id>>)
      \o (IF id # Star THEN <<Star>> ELSE <<>>)

modelIDMatches(configured, id) == configured \cap ToSet(skuCandidates(id)) # {}

\* Mutant: the provider is dropped.
BareSKU(provider, model) == model

\* The id a request for this provider and model is admitted and priced under.
canonicalSKU(provider, model) ==
    IF provider = None \/ (Len(model) >= 2 /\ Head(model) = provider)
      THEN model ELSE <<provider>> \o model

PricedIds == {id \in Ids : sku[id] # None}

\* A ModelPolicy: the models of a plan and the models there are prices for.
Allows(policy, id) ==
    modelIDMatches(policy.models, id) /\ modelIDMatches(policy.priced, id)

\* The provider a listing takes a model to be of: where its id names none, its
\* owner, and without an owner the one provider the answer is about (hint).
listedProvider(id, ownedBy, hint) ==
    IF Len(id) >= 2 THEN id[1] ELSE IF ownedBy # None THEN ownedBy ELSE hint

\* Whether the listing filter keeps a model of Bifrost's answer.
allowedModel(policy, id, ownedBy, hint) ==
    LET provider == listedProvider(id, ownedBy, hint)
    IN  \/ Allows(policy, id)
        \/ Len(id) = 1 /\ provider # None /\ Allows(policy, <<provider>> \o id)

-----------------------------------------------------------------------------
(* A request at a gateway: CheckAllowance, and PriceUsage at settlement. *)

\* The plan the tenant is on; without one the request is refused.
GateAssigned(g, t, id) ==
    /\ gate[g] = Idle
    /\ assignment[t] # None
    /\ gate' = [gate EXCEPT ![g] = [pc |-> "assigned", plan |-> assignment[t], id |-> id]]
    /\ UNCHANGED <<tables, api, desk, history>>

GateModelAllowed(g) ==
    /\ gate[g].pc = "assigned"
    /\ modelIDMatches(planModels[gate[g].plan], gate[g].id)
    /\ gate' = [gate EXCEPT ![g] = [pc |-> "allowed", id |-> gate[g].id]]
    /\ UNCHANGED <<tables, api, desk, history>>

\* The request is admitted.  History: the rows that stood for its model then.
GatePricingConfigured(g) ==
    /\ gate[g].pc = "allowed"
    /\ modelIDMatches(PricedIds, gate[g].id)
    /\ gate' = [gate EXCEPT ![g] =
            [pc |-> "admitted", id |-> gate[g].id, tried |-> 0, known |-> PricedIds]]
    /\ UNCHANGED <<tables, api, desk, history>>

\* Mutant: a fraction of a micro is dropped.
RoundedDown(tokens, rate) == (tokens * rate) \div Million

\* A started micro is charged in full.
price(tokens, rate) ==
    IF tokens = 0 \/ rate = 0 THEN 0 ELSE (tokens * rate + Million - 1) \div Million

\* PriceUsage asks for one candidate at a time until one has a row.
PriceUsage(g, tokens) ==
    /\ gate[g].pc = "admitted"
    /\ LET candidates == skuCandidates(gate[g].id)
           n == gate[g].tried + 1
           row == sku[candidates[n]]
       IN  gate' = [gate EXCEPT ![g] =
              IF row # None
                THEN [pc |-> "settled", row |-> candidates[n], id |-> gate[g].id,
                      known |-> gate[g].known, tokens |-> tokens, rate |-> row.million,
                      charge |-> price(tokens.prompt, row.million.prompt)
                                   + price(tokens.completion, row.million.completion)]
              ELSE IF n < Len(candidates) THEN [gate[g] EXCEPT !.tried = n]
              ELSE [pc |-> "unpriced"]]
    /\ UNCHANGED <<tables, api, desk, history>>

\* A model listing: CurrentModelPolicy reads the tenant's plan, the plan's
\* models and the models there are prices for, and allowedModel applies them.
ListAssignment(g, t) ==
    /\ gate[g] = Idle
    /\ assignment[t] # None
    /\ gate' = [gate EXCEPT ![g] = [pc |-> "listing", tenant |-> t, plan |-> assignment[t]]]
    /\ UNCHANGED <<tables, api, desk, history>>

ListPlanModels(g) ==
    /\ gate[g].pc = "listing"
    /\ gate' = [gate EXCEPT ![g] = [pc |-> "pricing", tenant |-> gate[g].tenant,
                                    plan |-> gate[g].plan, models |-> planModels[gate[g].plan]]]
    /\ UNCHANGED <<tables, api, desk, history>>

ListPriced(g) ==
    /\ gate[g].pc = "pricing"
    /\ gate' = [gate EXCEPT ![g] = [pc |-> "listed", tenant |-> gate[g].tenant,
                                    plan |-> gate[g].plan, models |-> gate[g].models,
                                    priced |-> PricedIds]]
    /\ UNCHANGED <<tables, api, desk, history>>

\* The request is refused, fails, or is done.
GateEnd(g) ==
    /\ gate[g] # Idle
    /\ gate' = [gate EXCEPT ![g] = Idle]
    /\ UNCHANGED <<tables, api, desk, history>>

-----------------------------------------------------------------------------
ApiStart ==
    \E a \in Apis :
        \/ HasPromptPer1M(a)
        \/ HasCompletionPer1M(a)
        \/ HasLegacyPer1K(a)
        \/ CreateSKUs(a)
        \/ \E side \in Sides : AddColumn(a, side)
        \/ CopyQuotas(a)
        \/ Convert(a)
        \/ SeedPrice(a)
        \/ SeedPlan(a)
        \/ \E t \in Subscribers : SeedCount(a, t)
        \/ SeedAssign(a)
        \/ Serve(a)
        \/ ApiCrash(a)

ApiRequest ==
    \/ \E c \in Callers :
        \/ \E a \in Apis, p \in Plans, offer \in Offers : PlanLock(a, c, p, offer)
        \/ PlanClear(c)
        \/ PlanCommit(c)
        \/ PlanRollback(c)
    \/ \E a \in Apis :
        \/ \E id \in Ids, rate \in Prices : UpsertSKU(a, id, rate)
        \/ \E t \in Subscribers, p \in Plans : SetTenantPlan(a, t, p)
        \/ \E t \in Subscribers : CreateTenant(a, t)

GateStep ==
    \E g \in Gates :
        \/ \E t \in Subscribers, id \in Ids \ {Star} : GateAssigned(g, t, id)
        \/ GateModelAllowed(g)
        \/ GatePricingConfigured(g)
        \/ \E tokens \in [Sides -> Tokens] : PriceUsage(g, tokens)
        \/ \E t \in Subscribers : ListAssignment(g, t)
        \/ ListPlanModels(g)
        \/ ListPriced(g)
        \/ GateEnd(g)

CatalogueNext == ApiStart \/ ApiRequest \/ GateStep

CatalogueSpec == CatalogueInit /\ [][CatalogueNext]_catalogueVars

-----------------------------------------------------------------------------
(* Properties. *)

\* Rows, starts and requests are well formed.  A tenant may be on a plan
\* before it exists, never on a plan that does not.
CatalogueTypeOK ==
    /\ registered \in SUBSET Subscribers
    /\ \A p \in Plans : planModels[p] \subseteq Ids
    /\ \A id \in Ids : sku[id] # None => sku[id] \in SkuRows
    /\ columns \subseteq Columns
    /\ \A t \in Subscribers : assignment[t] # None =>
          assignment[t] \in Plans /\ plan[assignment[t]] # None
    /\ desk \in [Callers -> {None} \cup [at : Apis, plan : Plans, offer : Offers,
                                       deleted : {None} \cup SUBSET Ids]]
    /\ \A a \in Apis : api[a].missing \subseteq Sides /\ api[a].listed \subseteq Subscribers
    /\ \A g \in Gates : gate[g].pc \in
          {"idle", "assigned", "allowed", "admitted", "settled", "unpriced",
           "listing", "pricing", "listed"}

\* A plan's terms and allow-list are those of one request, never a blend of
\* two that ran at once; beyond its list a plan has at most the models of its
\* legacy quota rows, which any start of an API process brings back.
PlanIsOneRequests ==
    \A p \in Plans : plan[p] # None =>
        \E offer \in Offers \cup {SeedOffer, [terms |-> LegacyTerms, models |-> {}]} :
            /\ plan[p] = offer.terms
            /\ offer.models \subseteq planModels[p]
            /\ planModels[p] \subseteq offer.models \cup quotas[p]

\* What the legacy column keeps of a price.
Rounded(rate) == (rate \div Thousand) * Thousand

\* However API processes start, race and die, a price is the one last given,
\* whether converted from the old column or set, once no start is still to
\* convert that side.  There are two ways to lose it: a start died between
\* adding the column and filling it, and the row was not written since: zero.
\* Or the price was given while a start that had found the column missing was
\* still to convert: whole thousands of it, then, are all the conversion of
\* every row may leave.
PriceIsMeant ==
    \A id \in Ids, side \in Sides \cap columns :
        sku[id] # None /\ side \notin Owed =>
            \/ sku[id].million[side] = meant[id][side]
            \/ side \in lost[id] /\ sku[id].million[side] = 0
            \/ side \in raced[id] /\ sku[id].million[side] = Rounded(meant[id][side])

\* A request that was admitted can be priced when it settles, though prices
\* are read again by then and one candidate at a time: by a row at least as
\* specific as any that stood for the model at admission, and for no less
\* than the rate it read, and less than a micro more on either side.
AdmittedIsPriced ==
    \A g \in Gates :
        /\ gate[g].pc # "unpriced"
        /\ gate[g].pc = "settled" =>
            LET x == gate[g]
                candidates == skuCandidates(x.id)
                Rank(id) == CHOOSE n \in DOMAIN candidates : candidates[n] = id
                due == x.tokens.prompt * x.rate.prompt
                         + x.tokens.completion * x.rate.completion
            IN  /\ \A id \in x.known \cap ToSet(candidates) : Rank(x.row) <= Rank(id)
                /\ due <= x.charge * Million
                /\ x.charge * Million < due + 2 * Million

\* The providers that model ids name.
Providers == {id[1] : id \in Ids \ {Star}}

\* Model listing and admission agree, though the listing reads plan, models
\* and prices one after the other while they change: while the tenant's plan
\* and its models are the ones the listing read, a model it shows would be
\* admitted, and one it hides would not unless a price was added since.  They
\* may differ on a bare id alone, served by another provider than the listing
\* took it to be of, and there only where a plan or a price names the model
\* with the provider one of them goes by.  An id that repeats its provider
\* ("p/p/m") is not covered: canonicalSKU takes the provider off.
ListedIsServed ==
    \A g \in Gates : gate[g].pc = "listed" =>
        LET x == gate[g]
            now == [models |-> planModels[x.plan], priced |-> PricedIds]
        IN  assignment[x.tenant] = x.plan /\ now.models = x.models =>
            \A id \in Ids \ {Star} : \A ownedBy, hint, provider \in {None} \cup Providers :
                LET shown == allowedModel(x, id, ownedBy, hint)
                    via == listedProvider(id, ownedBy, hint)
                    served == IF Len(id) >= 2 THEN canonicalSKU(id[1], Tail(id))
                                              ELSE canonicalSKU(provider, id)
                    Differs(other) ==
                        /\ Len(id) = 1 /\ via # provider /\ other # None
                        /\ <<other>> \o id \in now.models \cup now.priced
                IN  (Len(id) >= 3 => id[1] # id[2]) =>
                    /\ shown => Allows(now, served) \/ Differs(via)
                    /\ Allows(now, served) /\ x.priced = now.priced => shown \/ Differs(provider)

=============================================================================
