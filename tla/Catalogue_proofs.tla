--------------------------- MODULE Catalogue_proofs ---------------------------
(***************************************************************************)
(* What holds of the catalogue for any tenants, plans, prices and model    *)
(* ids: plans are never a blend, prices are the ones that were meant, an   *)
(* admitted request can be priced, and what is listed is what is served.   *)
(* The last theorem is about the billing store the catalogue is a part of. *)
(***************************************************************************)
EXTENDS MCBilling, Billing_proofs, TLAPS

-----------------------------------------------------------------------------
(* Catalogue: model ids. *)

\* What a concatenation consists of.
LEMMA Concatenation ==
    ASSUME NEW S, NEW a \in Seq(S), NEW b \in Seq(S)
    PROVE  /\ a \o b \in Seq(S) /\ Len(a \o b) = Len(a) + Len(b)
           /\ DOMAIN (a \o b) = 1..(Len(a) + Len(b))
           /\ \A i \in 1..(Len(a) + Len(b)) :
                /\ i <= Len(a) => (a \o b)[i] = a[i]
                /\ ~(i <= Len(a)) => (a \o b)[i] = b[i - Len(a)]
  OBVIOUS

\* The end of a sequence is shorter than the sequence.
LEMMA TailShape ==
    ASSUME NEW S, NEW s \in Seq(S), Len(s) >= 1
    PROVE  /\ Tail(s) \in Seq(S) /\ Len(Tail(s)) = Len(s) - 1
           /\ \A i \in 1..(Len(s) - 1) : Tail(s)[i] = s[i + 1]
           /\ Tail(s) # s
  <1>1. /\ Tail(s) \in Seq(S) /\ Len(Tail(s)) = Len(s) - 1
        /\ \A i \in 1..(Len(s) - 1) : Tail(s)[i] = s[i + 1]
    OBVIOUS
  <1> DEFINE n == Len(s)
             t == Tail(s)
  <1>2. n \in Nat /\ n # n - 1
    OBVIOUS
  <1>3. Len(t) = n - 1
    BY <1>1
  <1> HIDE DEF n, t
  <1>4. t # s
    BY <1>2, <1>3, Zenon DEF n
  <1> QED BY <1>1, <1>4 DEF t

\* A model id has segments, and none of them is None.
LEMMA IdShape ==
    ASSUME NEW id \in Ids
    PROVE  /\ id \in Seq(ToSet(id)) /\ DOMAIN id = 1..Len(id)
           /\ Len(id) \in Nat /\ Len(id) >= 1 /\ (Len(id) = 1 \/ Len(id) >= 2)
           /\ Len(id) >= 2 => Tail(id) \in Ids
           /\ \A i \in 1..Len(id) : id[i] # None
  <1>1. id \in Seq(ToSet(id)) /\ id # <<>>
    BY IdsAssumption
  <1>2. Len(id) \in Nat /\ Len(id) # 0 /\ DOMAIN id = 1..Len(id)
    BY <1>1
  <1>3. \A i \in 1..Len(id) : id[i] # None
    BY <1>2, IdsAssumption DEF ToSet
  <1> QED BY <1>1, <1>2, <1>3, IdsAssumption

\* The rows that may stand for a model other than the fallback, in order.
LEMMA Candidates ==
    ASSUME NEW S, NEW id \in Seq(S), id # Star, Len(id) = 1 \/ Len(id) >= 2
    PROVE  LET C == skuCandidates(id)
           IN  /\ C[1] = id
               /\ Len(id) = 1 => Len(C) = 2 /\ DOMAIN C = 1..2 /\ C[2] = Star
               /\ Len(id) >= 2 => /\ Len(C) = 3 /\ DOMAIN C = 1..3
                                  /\ C[2] = Tail(id) /\ C[3] = Star
  <1> DEFINE T == {id, Tail(id), Star}
             a == IF Len(id) >= 2 THEN <<id, Tail(id)>> ELSE <<id>>
             b == <<Star>>
  <1>1. skuCandidates(id) = a \o b
    BY DEF skuCandidates
  <1>2. /\ b \in Seq(T) /\ Len(b) = 1 /\ b[1] = Star
    OBVIOUS
  <1>3. CASE Len(id) = 1
    <2>1. a \in Seq(T) /\ Len(a) = 1 /\ a[1] = id
      BY <1>3
    <2> HIDE DEF a, b, T
    <2>2. /\ Len(a \o b) = 2 /\ DOMAIN (a \o b) = 1..2
          /\ (a \o b)[1] = a[1] /\ (a \o b)[2] = b[1]
      BY <1>2, <2>1, Concatenation
    <2> QED BY <1>1, <1>2, <1>3, <2>1, <2>2
  <1>4. CASE Len(id) >= 2
    <2>1. a \in Seq(T) /\ Len(a) = 2 /\ a[1] = id /\ a[2] = Tail(id)
      BY <1>4
    <2> HIDE DEF a, b, T
    <2>2. /\ Len(a \o b) = Len(a) + Len(b) /\ DOMAIN (a \o b) = 1..(Len(a) + Len(b))
          /\ \A i \in 1..(Len(a) + Len(b)) :
                /\ i <= Len(a) => (a \o b)[i] = a[i]
                /\ ~(i <= Len(a)) => (a \o b)[i] = b[i - Len(a)]
      <3>1. a \in Seq(T) /\ b \in Seq(T)
        BY <1>2, <2>1
      <3> QED BY <3>1, Concatenation
    <2> DEFINE w == a \o b
    <2>3. /\ Len(w) = 2 + 1 /\ DOMAIN w = 1..(2 + 1)
          /\ \A i \in 1..(2 + 1) :
                /\ i <= 2 => w[i] = a[i]
                /\ ~(i <= 2) => w[i] = b[i - 2]
      BY <1>2, <2>1, <2>2, Zenon
    <2> HIDE DEF w
    <2>4. Len(w) = 3 /\ DOMAIN w = 1..3 /\ w[1] = a[1] /\ w[2] = a[2] /\ w[3] = b[1]
      BY <2>3
    <2> QED BY <1>1, <1>2, <1>4, <2>1, <2>4 DEF w
  <1> QED BY <1>3, <1>4

\* The same as a set.
LEMMA CandidateSet ==
    ASSUME NEW S, NEW id \in Seq(S), id # Star, Len(id) = 1 \/ Len(id) >= 2
    PROVE  /\ Len(id) = 1 => ToSet(skuCandidates(id)) = {id, Star}
           /\ Len(id) >= 2 => ToSet(skuCandidates(id)) = {id, Tail(id), Star}
  <1> DEFINE C == skuCandidates(id)
  <1>1. CASE Len(id) = 1
    <2>1. DOMAIN C = 1..2 /\ C[1] = id /\ C[2] = Star
      BY <1>1, Candidates
    <2> HIDE DEF C
    <2>2. ToSet(C) = {id, Star}
      BY <2>1 DEF ToSet
    <2> QED BY <1>1, <2>2 DEF C
  <1>2. CASE Len(id) >= 2
    <2>1. DOMAIN C = 1..3 /\ C[1] = id /\ C[2] = Tail(id) /\ C[3] = Star
      BY <1>2, Candidates
    <2> HIDE DEF C
    <2>2. DOMAIN C = {1, 2, 3}
      BY <2>1
    <2>3. ToSet(C) = {id, Tail(id), Star}
      BY <2>1, <2>2, Zenon DEF ToSet
    <2> QED BY <1>2, <2>3 DEF C
  <1> QED BY <1>1, <1>2

\* The rows that may stand for a bare model once a provider is named.
LEMMA QualifiedCandidates ==
    ASSUME NEW S, NEW id \in Seq(S), Len(id) = 1, id # Star, NEW hint
    PROVE  /\ ToSet(skuCandidates(<<hint>> \o id)) = {<<hint>> \o id, id, Star}
           /\ ToSet(skuCandidates(id)) = {id, Star}
  <1> DEFINE h == <<hint>>
             full == h \o id
             T == S \cup {hint}
  <1>1. h \in Seq(T) /\ id \in Seq(T) /\ Len(h) = 1
    OBVIOUS
  <1> HIDE DEF h, T
  <1>2. /\ full \in Seq(T) /\ Len(full) = 1 + 1
        /\ \A i \in 1..(1 + 1) : ~(i <= 1) => full[i] = id[i - 1]
    <2>1. /\ full \in Seq(T) /\ Len(full) = Len(h) + Len(id)
          /\ \A i \in 1..(Len(h) + Len(id)) :
                ~(i <= Len(h)) => full[i] = id[i - Len(h)]
      BY <1>1, Concatenation
    <2> QED BY <1>1, <2>1, Zenon
  <1> HIDE DEF full
  <1>3. Len(full) = 2 /\ full[2] = id[1]
    BY <1>2
  <1>4. /\ Tail(full) \in Seq(T) /\ Len(Tail(full)) = Len(full) - 1
        /\ \A i \in 1..(Len(full) - 1) : Tail(full)[i] = full[i + 1]
    <2>1. full \in Seq(T) /\ Len(full) >= 1
      BY <1>2, <1>3
    <2> QED BY <2>1, TailShape
  <1>5. Tail(full) = id
    <2> DEFINE t == Tail(full)
    <2>1. /\ t \in Seq(T) /\ Len(t) = 2 - 1
          /\ \A i \in 1..(2 - 1) : t[i] = full[i + 1]
      BY <1>3, <1>4, Zenon
    <2> HIDE DEF t
    <2>2. Len(t) = 1 /\ t[1] = full[2]
      BY <2>1
    <2>3. t = id
      BY <1>1, <1>3, <2>1, <2>2
    <2> QED BY <2>3 DEF t
  <1>6. full # Star
    <2>1. Len(Star) = 1
      BY DEF Star
    <2> QED BY <1>3, <2>1
  <1>7. ToSet(skuCandidates(full)) = {full, id, Star}
    <2>1. full \in Seq(T) /\ Len(full) >= 2
      BY <1>2, <1>3
    <2>2. ToSet(skuCandidates(full)) = {full, Tail(full), Star}
      BY <1>6, <2>1, CandidateSet
    <2> QED BY <1>5, <2>2
  <1>8. ToSet(skuCandidates(id)) = {id, Star}
    BY CandidateSet
  <1> QED BY <1>7, <1>8 DEF full, h

\* What stands for a bare model stands for it with a provider; what stands for
\* it with a provider and is not its row stands for the bare model.
LEMMA NamingProvider ==
    ASSUME NEW S, NEW id \in Seq(S), Len(id) = 1, id # Star, NEW hint, NEW configured
    PROVE  /\ modelIDMatches(configured, id) => modelIDMatches(configured, <<hint>> \o id)
           /\ modelIDMatches(configured, <<hint>> \o id) /\ <<hint>> \o id \notin configured
                => modelIDMatches(configured, id)
  <1> DEFINE full == <<hint>> \o id
  <1>1. ToSet(skuCandidates(full)) = {full, id, Star} /\ ToSet(skuCandidates(id)) = {id, Star}
    BY QualifiedCandidates
  <1> HIDE DEF full
  <1>2. /\ modelIDMatches(configured, id) => modelIDMatches(configured, full)
        /\ modelIDMatches(configured, full) /\ full \notin configured => modelIDMatches(configured, id)
    BY <1>1 DEF modelIDMatches
  <1> QED BY <1>2 DEF full

\* A model of two or more segments is its provider and the rest.
LEMMA Reassembled ==
    ASSUME NEW S, NEW id \in Seq(S), Len(id) >= 2
    PROVE  <<id[1]>> \o Tail(id) = id
  <1> DEFINE h == <<id[1]>>
             t == Tail(id)
  <1>1. /\ h \in Seq(S) /\ Len(h) = 1 /\ h[1] = id[1]
    OBVIOUS
  <1>2. /\ t \in Seq(S) /\ Len(t) = Len(id) - 1
        /\ \A i \in 1..(Len(id) - 1) : t[i] = id[i + 1]
    BY TailShape
  <1> HIDE DEF h, t
  <1>3. /\ h \o t \in Seq(S) /\ Len(h \o t) = 1 + (Len(id) - 1)
        /\ \A i \in 1..(1 + (Len(id) - 1)) :
              /\ i <= 1 => (h \o t)[i] = h[i]
              /\ ~(i <= 1) => (h \o t)[i] = t[i - 1]
    <2>1. /\ h \o t \in Seq(S) /\ Len(h \o t) = Len(h) + Len(t)
          /\ \A i \in 1..(Len(h) + Len(t)) :
                /\ i <= Len(h) => (h \o t)[i] = h[i]
                /\ ~(i <= Len(h)) => (h \o t)[i] = t[i - Len(h)]
      <3>1. h \in Seq(S) /\ t \in Seq(S)
        BY <1>1, <1>2
      <3> QED BY <3>1, Concatenation
    <2> QED BY <1>1, <1>2, <2>1, Zenon
  <1>4. \A i \in 1..Len(id) : (h \o t)[i] = id[i]
    BY <1>1, <1>2, <1>3
  <1>5. Len(h \o t) = Len(id)
    BY <1>3
  <1> DEFINE w == h \o t
  <1>6. w \in Seq(S) /\ Len(w) = Len(id) /\ \A i \in 1..Len(id) : w[i] = id[i]
    BY <1>3, <1>4, <1>5
  <1> HIDE DEF w
  <1>7. w = id
    BY <1>6
  <1> QED BY <1>7 DEF w, h, t

\* An id that names its provider, split and put together again, is itself.
LEMMA QualifiedIsCanonical ==
    ASSUME NEW id \in Ids, Len(id) >= 2, Len(id) >= 3 => id[1] # id[2]
    PROVE  canonicalSKU(id[1], Tail(id)) = id
  <1>1. id \in Seq(ToSet(id)) /\ Len(id) \in Nat /\ Len(id) >= 1 /\ id[1] # None
    BY IdShape
  <1>2. /\ Tail(id) \in Seq(ToSet(id)) /\ Len(Tail(id)) = Len(id) - 1
        /\ \A i \in 1..(Len(id) - 1) : Tail(id)[i] = id[i + 1]
    BY <1>1, TailShape
  <1> DEFINE rest == Tail(id)
  <1> HIDE DEF rest
  <1>3. Len(rest) >= 2 => Len(id) >= 3 /\ Head(rest) = id[2]
    BY <1>1, <1>2 DEF rest
  <1>4. canonicalSKU(id[1], rest) = <<id[1]>> \o rest
    BY <1>1, <1>3 DEF canonicalSKU
  <1> QED BY <1>1, <1>4, Reassembled DEF rest

\* What a policy allows a policy with more prices allows.
LEMMA AllowsGrows ==
    ASSUME NEW policy, NEW now, now.models = policy.models, policy.priced \subseteq now.priced,
           NEW id, Allows(policy, id)
    PROVE  Allows(now, id)
  BY DEF Allows, modelIDMatches

\* The listing filter and canonicalSKU agree on a model whose id names its
\* provider.
LEMMA QualifiedListing ==
    ASSUME NEW policy, NEW now, now.models = policy.models, policy.priced \subseteq now.priced,
           NEW id \in Ids, Len(id) >= 2, Len(id) >= 3 => id[1] # id[2], NEW ownedBy, NEW hint
    PROVE  LET shown == allowedModel(policy, id, ownedBy, hint)
               served == canonicalSKU(id[1], Tail(id))
           IN  /\ shown => Allows(now, served)
               /\ Allows(now, served) /\ policy.priced = now.priced => shown
  <1>1. Len(id) # 1
    BY IdShape
  <1>2. allowedModel(policy, id, ownedBy, hint) <=> Allows(policy, id)
    BY <1>1 DEF allowedModel
  <1>3. Allows(policy, id) => Allows(now, id)
    BY AllowsGrows
  <1>4. Allows(now, id) /\ policy.priced = now.priced => Allows(policy, id)
    BY DEF Allows
  <1> QED BY <1>2, <1>3, <1>4, QualifiedIsCanonical

\* On a bare id they agree but where a row names the model with the provider
\* one of them goes by and the other does not.
LEMMA BareListing ==
    ASSUME NEW policy, NEW now, now.models = policy.models, policy.priced \subseteq now.priced,
           NEW id \in Ids \ {Star}, Len(id) = 1, NEW ownedBy, NEW hint, NEW provider
    PROVE  LET shown == allowedModel(policy, id, ownedBy, hint)
               via == listedProvider(id, ownedBy, hint)
               served == canonicalSKU(provider, id)
               Differs(other) == /\ Len(id) = 1 /\ via # provider /\ other # None
                                 /\ <<other>> \o id \in now.models \cup now.priced
           IN  /\ shown => Allows(now, served) \/ Differs(via)
               /\ Allows(now, served) /\ policy.priced = now.priced
                    => shown \/ Differs(provider)
  <1> DEFINE via == listedProvider(id, ownedBy, hint)
             full(q) == <<q>> \o id
  <1>1. id \in Seq(ToSet(id))
    BY IdShape
  <1>2. allowedModel(policy, id, ownedBy, hint) <=>
            Allows(policy, id) \/ (via # None /\ Allows(policy, full(via)))
    BY DEF allowedModel
  <1>3. canonicalSKU(provider, id) = IF provider = None THEN id ELSE full(provider)
    BY DEF canonicalSKU
  <1>4. ASSUME NEW q
        PROVE  /\ Allows(now, id) => Allows(now, full(q))
               /\ Allows(now, full(q)) /\ full(q) \notin now.models \cup now.priced => Allows(now, id)
    <2>1. \A configured :
            /\ modelIDMatches(configured, id) => modelIDMatches(configured, full(q))
            /\ modelIDMatches(configured, full(q)) /\ full(q) \notin configured
                 => modelIDMatches(configured, id)
      BY <1>1, NamingProvider
    <2> HIDE DEF full
    <2> QED BY <2>1 DEF Allows
  <1>5. \A i : Allows(policy, i) => Allows(now, i)
    BY AllowsGrows
  <1>6. \A i : Allows(now, i) /\ policy.priced = now.priced => Allows(policy, i)
    BY DEF Allows
  <1> HIDE DEF via, full
  <1>7. allowedModel(policy, id, ownedBy, hint) =>
            \/ Allows(now, canonicalSKU(provider, id))
            \/ via # provider /\ via # None /\ full(via) \in now.models \cup now.priced
    BY <1>2, <1>3, <1>4, <1>5
  <1>8. Allows(now, canonicalSKU(provider, id)) /\ policy.priced = now.priced =>
            \/ allowedModel(policy, id, ownedBy, hint)
            \/ via # provider /\ provider # None /\ full(provider) \in now.models \cup now.priced
    BY <1>2, <1>3, <1>4, <1>6
  <1> QED BY <1>7, <1>8 DEF via, full

-----------------------------------------------------------------------------
(* Catalogue: charges. *)

\* What division rounds down to.
LEMMA DivisionBounds ==
    ASSUME NEW a \in Nat, NEW m \in Nat \ {0}
    PROVE  /\ a \div m \in Nat
           /\ (a \div m) * m <= a
           /\ a < (a \div m) * m + m
  OBVIOUS

\* What divides evenly.
LEMMA ProductDivides ==
    ASSUME NEW n \in Nat, NEW m \in Nat \ {0}
    PROVE  (n * m) \div m = n
  <1> DEFINE a == n * m
             q == a \div m
  <1>1. a \in Nat
    OBVIOUS
  <1>2. q \in Nat /\ q * m <= a /\ a < q * m + m
    BY <1>1, DivisionBounds
  <1>3. q * m <= n * m /\ n * m < (q + 1) * m
    BY <1>2
  <1> HIDE DEF a, q
  <1>4. q <= n /\ n < q + 1
    BY <1>2, <1>3, SMTT(30)
  <1>5. q = n
    BY <1>2, <1>4
  <1> QED BY <1>5 DEF q, a

\* A charge covers what is due, and is less than a micro over it (price).
LEMMA ChargeBounds ==
    ASSUME NEW tokens \in Nat, NEW rate \in Nat
    PROVE  /\ price(tokens, rate) \in Nat
           /\ tokens * rate <= price(tokens, rate) * Million
           /\ price(tokens, rate) * Million < tokens * rate + Million
  <1> DEFINE due == tokens * rate
             q == (due + Million - 1) \div Million
  <1>1. Million \in Nat \ {0} /\ due \in Nat
    BY CatalogueConstants DEF Million
  <1>2. CASE tokens = 0 \/ rate = 0
    <2>1. price(tokens, rate) = 0 /\ due = 0
      BY <1>2 DEF price
    <2> QED BY <1>1, <2>1
  <1>3. CASE ~(tokens = 0 \/ rate = 0)
    <2>1. price(tokens, rate) = q
      BY <1>3 DEF price
    <2> HIDE DEF due
    <2>2. due + Million - 1 \in Nat
      BY <1>1
    <2>3. q \in Nat /\ q * Million <= due + Million - 1 /\ due + Million - 1 < q * Million + Million
      BY <1>1, <2>2, DivisionBounds
    <2>4. q * Million \in Nat
      BY <1>1, <2>3
    <2> HIDE DEF q
    <2>5. due <= q * Million /\ q * Million < due + Million
      BY <1>1, <2>3, <2>4
    <2> QED BY <2>1, <2>3, <2>5 DEF due
  <1> QED BY <1>2, <1>3

-----------------------------------------------------------------------------
(* Catalogue: the inductive invariant. *)

\* How far a start of an API process has come.
Asking == {"asking", "asked", "altering", "copied"}
ApiSteps == Asking \cup {"down", "seeding", "priced", "assigning", "up"}

Starts == [pc : ApiSteps, missing : SUBSET Sides, listed : SUBSET Subscribers,
           counted : Subscribers \cup {None}]

\* A start knows the columns it found missing and has yet to convert, and past
\* AutoMigrate there are all.
StartOK(x) ==
    /\ x.pc \in {"copied", "seeding", "priced", "assigning", "up"} => columns = Columns
    /\ x.pc \notin Asking => x.missing = {}
    /\ x.pc = "asking" /\ "prompt" \notin columns => "prompt" \in x.missing
    /\ x.pc = "asked" => Sides \ columns \subseteq x.missing
    /\ x.pc = "altering" /\ columns # {} => Sides \ columns \subseteq x.missing
    /\ x.counted # None => x.pc = "assigning"

StartsOK ==
    /\ columns \subseteq Columns
    /\ columns # {} => "thousand" \in columns
    /\ api \in [Apis -> Starts]
    /\ \A a \in Apis : StartOK(api[a])

Desks == [at : Apis, plan : Plans, offer : Offers, deleted : {None} \cup SUBSET Ids]

\* Plan transactions are requests', one for each plan row, and beyond what one
\* has deleted there are at most quota rows that a start copied.
DeskOK ==
    /\ desk \in [Callers -> {None} \cup Desks]
    /\ \A c \in Callers : desk[c] # None /\ desk[c].deleted # None =>
          planModels[desk[c].plan] \subseteq desk[c].deleted \cup quotas[desk[c].plan]
    /\ \A c, d \in Callers :
          desk[c] # None /\ desk[d] # None /\ desk[c].plan = desk[d].plan => c = d

\* Rows of plans and their allow-lists.
PlansOK ==
    /\ plan = [p \in Plans |-> plan[p]]
    /\ planModels \in [Plans -> SUBSET Ids]
    /\ quotas \in [Plans -> SUBSET Ids]
    /\ PlanIsOneRequests

\* Tenants are on plans there are.
AssignedOK ==
    /\ registered \in SUBSET Subscribers
    /\ assignment = [t \in Subscribers |-> assignment[t]]
    /\ \A t \in Subscribers : assignment[t] # None =>
          assignment[t] \in Plans /\ plan[assignment[t]] # None
    /\ \A a \in Apis : api[a].pc = "assigning" => plan[DefaultPlan] # None

\* Rows of prices, which need a table.
SkusOK ==
    /\ sku \in [Ids -> SkuRows \cup {None}]
    /\ meant \in [Ids -> [Sides -> Nat]]
    /\ lost \in [Ids -> SUBSET Sides]
    /\ raced \in [Ids -> SUBSET Sides]
    /\ columns = {} => \A id \in Ids : sku[id] = None

\* One side of a row: the legacy column follows the price that was meant, and
\* is all of it as long as a start is to convert an older release's row.  The
\* price is the one meant, or not filled in yet, or what a conversion that
\* came late left of it.
SideOK(id, side) ==
    /\ sku[id].thousand[side] = meant[id][side] \div Thousand
    /\ side \notin raced[id] /\ (side \in Owed \/ side \notin columns) =>
          sku[id].thousand[side] * Thousand = meant[id][side]
    /\ \/ sku[id].million[side] = meant[id][side]
       \/ /\ sku[id].million[side] = 0 /\ side \notin raced[id]
          /\ side \notin columns \/ side \in Owed \/ side \in lost[id]
       \/ side \in raced[id] /\ sku[id].million[side] = Rounded(meant[id][side])

PricesOK == \A id \in Ids, side \in Sides : sku[id] # None => SideOK(id, side)

\* The place of a model id among candidates.
Rank(candidates, id) == CHOOSE n \in DOMAIN candidates : candidates[n] = id

\* What a settlement must have found of a request's record.
SettledWell(x) ==
    LET candidates == skuCandidates(x.id)
        due == x.tokens.prompt * x.rate.prompt
                 + x.tokens.completion * x.rate.completion
    IN  /\ \A id \in x.known \cap ToSet(candidates) :
              Rank(candidates, x.row) <= Rank(candidates, id)
        /\ due <= x.charge * Million
        /\ x.charge * Million < due + 2 * Million

\* While an admitted request is being priced, a row it was admitted by is
\* among the candidates still to ask for, and is still there; so are the rows
\* a listing has read.
GateOK(x, priced) ==
    /\ x.pc \in {"idle", "assigned", "allowed", "admitted", "settled",
                 "listing", "pricing", "listed"}
    /\ x.pc \in {"assigned", "allowed"} => x.id \in Ids \ {Star}
    /\ x.pc = "admitted" =>
          /\ x \in [pc : {"admitted"}, id : Ids \ {Star}, tried : Nat, known : SUBSET priced]
          /\ x.known \cap ToSet(skuCandidates(x.id)) # {}
          /\ x.tried < Len(skuCandidates(x.id))
          /\ \A n \in 1..x.tried : skuCandidates(x.id)[n] \notin x.known
    /\ x.pc = "settled" => SettledWell(x)
    /\ x.pc = "listed" => x.priced \subseteq priced

GatesOK ==
    /\ gate = [g \in Gates |-> gate[g]]
    /\ \A g \in Gates : GateOK(gate[g], PricedIds)

CatalogueInv ==
    /\ StartsOK
    /\ DeskOK
    /\ PlansOK
    /\ AssignedOK
    /\ SkusOK
    /\ PricesOK
    /\ GatesOK

-----------------------------------------------------------------------------
(* Catalogue: the invariant at the start. *)

\* A fresh database and one an older release left both start right.
LEMMA CatalogueInitKeeps == CatalogueInit => CatalogueInv
  <1> SUFFICES ASSUME CatalogueInit PROVE CatalogueInv
    OBVIOUS
  <1>1. StartsOK
    <2>1. Down \in Starts /\ Down.pc = "down" /\ Down.missing = {} /\ Down.counted = None
      BY DEF Down, Starts, ApiSteps
    <2>2. \A a \in Apis : api[a] = Down
      BY DEF CatalogueInit
    <2>3. \A a \in Apis : StartOK(api[a])
      BY <2>1, <2>2 DEF StartOK, Asking
    <2> QED BY <2>1, <2>3 DEF CatalogueInit, StartsOK, Columns
  <1>2. AssignedOK
    BY CatalogueConstants DEF CatalogueInit, AssignedOK, Down
  <1>3. DeskOK
    BY DEF CatalogueInit, DeskOK
  <1>4. PlansOK
    <2>1. /\ plan = [p \in Plans |-> IF quotas[p] = {} THEN None ELSE LegacyTerms]
          /\ planModels = [p \in Plans |-> {}]
      BY DEF CatalogueInit
    <2>2. PlanIsOneRequests
      <3> SUFFICES ASSUME NEW p \in Plans, plan[p] # None
                   PROVE  \E offer \in {[terms |-> LegacyTerms, models |-> {}]} :
                            /\ plan[p] = offer.terms
                            /\ offer.models \subseteq planModels[p]
                            /\ planModels[p] \subseteq offer.models \cup quotas[p]
        BY DEF PlanIsOneRequests
      <3> QED BY <2>1
    <2>3. quotas \in [Plans -> SUBSET Ids]
      BY CatalogueConstants DEF CatalogueInit
    <2> QED BY <2>1, <2>2, <2>3 DEF PlansOK
  <1>5. SkusOK /\ PricesOK
    <2>1. lost = [i \in Ids |-> {}] /\ raced = [i \in Ids |-> {}]
      BY DEF CatalogueInit
    <2>2. CASE sku = [id \in Ids |-> None] /\ meant = [id \in Ids |-> Zero]
      BY <2>1, <2>2 DEF SkusOK, PricesOK, Zero
    <2>3. ASSUME NEW id \in Ids \ {Star}, NEW rate \in LegacyPrices,
                 sku = [i \in Ids |-> IF i = id THEN LegacyRow(rate) ELSE None],
                 columns = {"thousand"},
                 meant = [i \in Ids |-> IF i = id THEN Scaled(rate) ELSE Zero]
          PROVE  SkusOK /\ PricesOK
      <3>1. rate \in [Sides -> Nat] /\ Thousand \in Nat \ {0}
        BY CatalogueConstants
      <3>2. /\ LegacyRow(rate) \in SkuRows /\ Scaled(rate) \in [Sides -> Nat]
            /\ Zero \in [Sides -> Nat]
        BY <3>1 DEF LegacyRow, SkuRows, Scaled, Zero
      <3>3. SkusOK
        BY <2>1, <2>3, <3>2 DEF SkusOK
      <3>4. \A i \in Ids : sku[i] # None =>
                i = id /\ sku[i] = LegacyRow(rate) /\ meant[i] = Scaled(rate)
        BY <2>3
      <3>5. \A side \in Sides :
              /\ LegacyRow(rate).million[side] = 0
              /\ LegacyRow(rate).thousand[side] = rate[side]
              /\ Scaled(rate)[side] = rate[side] * Thousand
              /\ rate[side] \in Nat
        BY <3>1 DEF LegacyRow, Scaled, Zero
      <3>6. \A n \in Nat : (n * Thousand) \div Thousand = n
        BY <3>1, ProductDivides
      <3>7. \A side \in Sides : side \notin columns
        BY <2>3 DEF Sides
      <3>8. PricesOK
        BY <2>1, <3>4, <3>5, <3>6, <3>7 DEF PricesOK, SideOK
      <3> QED BY <3>3, <3>8
    <2> QED BY <2>2, <2>3 DEF CatalogueInit
  <1>6. GatesOK
    BY DEF CatalogueInit, GatesOK, GateOK, Idle
  <1> QED BY <1>1, <1>2, <1>3, <1>4, <1>5, <1>6 DEF CatalogueInv

-----------------------------------------------------------------------------
(* Catalogue: one lemma for each part of the invariant. *)

\* What a start's record says is about the columns, which are only added to.
LEMMA StartKeeps ==
    ASSUME StartsOK, NEW x \in Starts, StartOK(x), columns' \subseteq Columns,
           columns \subseteq columns', columns = {} => columns' \in {{}, Columns}
    PROVE  StartOK(x)'
  <1>1. Sides \subseteq Columns /\ columns \subseteq Columns
    BY DEF Columns, StartsOK
  <1>2. columns' # {} => Sides \ columns' \subseteq Sides \ columns /\ (columns # {} \/ Sides \ columns' = {})
    BY <1>1
  <1> QED BY <1>1, <1>2 DEF StartOK

\* Only a start moves its own progress, and only AutoMigrate adds columns.
LEMMA StartsKeep ==
    ASSUME CatalogueInv, [CatalogueNext]_catalogueVars
    PROVE  StartsOK'
  <1>1. StartsOK /\ registered \subseteq Subscribers
    BY DEF CatalogueInv, AssignedOK
  <1>2. CASE UNCHANGED <<api, columns>>
    BY <1>1, <1>2 DEF StartsOK, StartOK
  <1>3. ASSUME NEW a \in Apis, NEW x \in Starts, StartOK(x),
               api' = [api EXCEPT ![a] = x], columns' = columns
        PROVE  StartsOK'
    <2>1. /\ api' \in [Apis -> Starts]
          /\ \A b \in Apis : api'[b] = IF b = a THEN x ELSE api[b]
      BY <1>1, <1>3 DEF StartsOK
    <2>2. \A y : StartOK(y) => StartOK(y)'
      BY <1>3 DEF StartOK
    <2> QED BY <1>1, <1>3, <2>1, <2>2 DEF StartsOK
  <1>4. ASSUME api' = api, columns \subseteq columns', columns' \subseteq Columns,
               columns' # {} => "thousand" \in columns',
               columns = {} => columns' \in {{}, Columns}
        PROVE  StartsOK'
    BY <1>1, <1>4, StartKeeps DEF StartsOK
  <1>5. ASSUME NEW a \in Apis
        PROVE  /\ api[a] \in Starts /\ StartOK(api[a])
               /\ api = [api EXCEPT ![a] = api[a]]
    BY <1>1 DEF StartsOK
  <1>6. ASSUME NEW a \in Apis, HasPromptPer1M(a)
        PROVE  StartsOK'
    <2> DEFINE x == [api[a] EXCEPT !.pc = "asking", !.missing = {"prompt"} \ columns]
    <2>1. api' = [api EXCEPT ![a] = x] /\ columns' = columns /\ api[a].pc = "down"
      BY <1>1, <1>6 DEF HasPromptPer1M, tables, StartsOK
    <2>2. x \in Starts /\ x.pc = "asking" /\ x.missing = {"prompt"} \ columns /\ x.counted = api[a].counted
      BY <1>5 DEF Starts, Sides, ApiSteps, Asking
    <2> HIDE DEF x
    <2>3. StartOK(x)
      BY <1>5, <2>1, <2>2 DEF StartOK, Asking
    <2> QED BY <1>3, <2>1, <2>2, <2>3
  <1>7. ASSUME NEW a \in Apis, HasCompletionPer1M(a)
        PROVE  StartsOK'
    <2> DEFINE x == [api[a] EXCEPT !.pc = "asked", !.missing = @ \cup ({"completion"} \ columns)]
    <2>1. api' = [api EXCEPT ![a] = x] /\ columns' = columns /\ api[a].pc = "asking"
      BY <1>1, <1>7 DEF HasCompletionPer1M, tables, StartsOK
    <2>2. /\ x \in Starts /\ x.pc = "asked" /\ x.counted = api[a].counted
          /\ x.missing = api[a].missing \cup ({"completion"} \ columns)
      BY <1>5 DEF Starts, Sides, ApiSteps, Asking
    <2> HIDE DEF x
    <2>3. StartOK(x)
      BY <1>5, <2>1, <2>2 DEF StartOK, Asking, Sides
    <2> QED BY <1>3, <2>1, <2>2, <2>3
  <1>8. ASSUME NEW a \in Apis, HasLegacyPer1K(a)
        PROVE  StartsOK'
    <2> DEFINE x == [api[a] EXCEPT !.pc = "altering",
                                   !.missing = IF "thousand" \in columns THEN @ ELSE {}]
    <2>1. api' = [api EXCEPT ![a] = x] /\ columns' = columns /\ api[a].pc = "asked"
      BY <1>1, <1>8 DEF HasLegacyPer1K, tables, StartsOK
    <2>2. /\ x \in Starts /\ x.pc = "altering" /\ x.counted = api[a].counted
          /\ x.missing = IF "thousand" \in columns THEN api[a].missing ELSE {}
      BY <1>5 DEF Starts, Sides, ApiSteps, Asking
    <2> HIDE DEF x
    <2>3. StartOK(x)
      BY <1>1, <1>5, <2>1, <2>2 DEF StartOK, StartsOK, Asking
    <2> QED BY <1>3, <2>1, <2>2, <2>3
  <1>9. ASSUME NEW a \in Apis, CreateSKUs(a)
        PROVE  StartsOK'
    BY <1>1, <1>4, <1>9 DEF CreateSKUs, StartsOK, Columns
  <1>10. ASSUME NEW a \in Apis, NEW side \in Sides, AddColumn(a, side)
         PROVE  StartsOK'
    BY <1>1, <1>4, <1>10 DEF AddColumn, StartsOK, Columns
  <1>11. ASSUME NEW a \in Apis, CopyQuotas(a)
         PROVE  StartsOK'
    <2> DEFINE x == [api[a] EXCEPT !.pc = "copied"]
    <2>1. /\ api' = [api EXCEPT ![a] = x] /\ columns' = columns
          /\ api[a].pc = "altering" /\ columns = Columns
      BY <1>1, <1>11 DEF CopyQuotas, StartsOK
    <2>2. x \in Starts /\ x.pc = "copied" /\ x.counted = api[a].counted
      BY <1>5 DEF Starts, ApiSteps, Asking
    <2> HIDE DEF x
    <2>3. StartOK(x)
      BY <1>5, <2>1, <2>2 DEF StartOK, Asking
    <2> QED BY <1>3, <2>1, <2>2, <2>3
  <1>12. ASSUME NEW a \in Apis, Convert(a)
         PROVE  StartsOK'
    <2> DEFINE x == [api[a] EXCEPT !.pc = "seeding", !.missing = {}]
    <2>1. /\ api' = [api EXCEPT ![a] = x] /\ columns' = columns /\ api[a].pc = "copied"
      BY <1>1, <1>12 DEF Convert, StartsOK
    <2>2. x \in Starts /\ x.pc = "seeding" /\ x.missing = {} /\ x.counted = api[a].counted
      BY <1>5 DEF Starts, ApiSteps, Asking
    <2> HIDE DEF x
    <2>3. StartOK(x)
      BY <1>5, <2>1, <2>2 DEF StartOK, Asking
    <2> QED BY <1>3, <2>1, <2>2, <2>3
  <1>13. ASSUME NEW a \in Apis, SeedPrice(a)
         PROVE  StartsOK'
    <2> DEFINE x == [api[a] EXCEPT !.pc = "priced"]
    <2>1. /\ api' = [api EXCEPT ![a] = x] /\ columns' = columns /\ api[a].pc = "seeding"
      BY <1>1, <1>13 DEF SeedPrice, StartsOK
    <2>2. x \in Starts /\ x.pc = "priced" /\ x.missing = api[a].missing /\ x.counted = api[a].counted
      BY <1>5 DEF Starts, ApiSteps, Asking
    <2> HIDE DEF x
    <2>3. StartOK(x)
      BY <1>5, <2>1, <2>2 DEF StartOK, Asking
    <2> QED BY <1>3, <2>1, <2>2, <2>3
  <1>14. ASSUME NEW a \in Apis, SeedPlan(a)
         PROVE  StartsOK'
    <2>1. PICK some \in ListedTenants :
              api' = [api EXCEPT ![a].pc = "assigning", ![a].listed = some]
      BY <1>14 DEF SeedPlan
    <2> DEFINE x == [api[a] EXCEPT !.pc = "assigning", !.listed = some]
    <2>2. /\ api' = [api EXCEPT ![a] = x] /\ columns' = columns /\ api[a].pc = "priced"
      BY <1>1, <1>14, <2>1 DEF SeedPlan, StartsOK
    <2>3. some \in SUBSET Subscribers
      BY <1>1, <2>1 DEF ListedTenants
    <2>4. x \in Starts /\ x.pc = "assigning" /\ x.missing = api[a].missing
      BY <1>5, <2>3 DEF Starts, ApiSteps, Asking
    <2> HIDE DEF x
    <2>5. StartOK(x)
      BY <1>5, <2>2, <2>4 DEF StartOK, Asking
    <2> QED BY <1>3, <2>2, <2>4, <2>5
  <1>15. ASSUME NEW a \in Apis, NEW t \in Subscribers, SeedCount(a, t)
         PROVE  StartsOK'
    <2> DEFINE x == [api[a] EXCEPT !.listed = @ \ {t},
                                   !.counted = IF assignment[t] = None THEN t ELSE None]
    <2>1. /\ api' = [api EXCEPT ![a] = x] /\ columns' = columns /\ api[a].pc = "assigning"
      BY <1>1, <1>15 DEF SeedCount, tables, StartsOK
    <2>2. x \in Starts /\ x.pc = api[a].pc /\ x.missing = api[a].missing
      BY <1>5 DEF Starts
    <2> HIDE DEF x
    <2>3. StartOK(x)
      BY <1>5, <2>1, <2>2 DEF StartOK, Asking
    <2> QED BY <1>3, <2>1, <2>2, <2>3
  <1>16. ASSUME NEW a \in Apis, SeedAssign(a)
         PROVE  StartsOK'
    <2> DEFINE x == [api[a] EXCEPT !.counted = None]
    <2>1. /\ api' = [api EXCEPT ![a] = x] /\ columns' = columns
      BY <1>1, <1>16 DEF SeedAssign, StartsOK
    <2>2. x \in Starts /\ x.pc = api[a].pc /\ x.missing = api[a].missing /\ x.counted = None
      BY <1>5 DEF Starts
    <2> HIDE DEF x
    <2>3. StartOK(x)
      BY <1>5, <2>1, <2>2 DEF StartOK
    <2> QED BY <1>3, <2>1, <2>2, <2>3
  <1>17. ASSUME NEW a \in Apis, Serve(a)
         PROVE  StartsOK'
    <2> DEFINE x == [api[a] EXCEPT !.pc = "up"]
    <2>1. /\ api' = [api EXCEPT ![a] = x] /\ columns' = columns
          /\ api[a].pc = "assigning" /\ api[a].counted = None
      BY <1>1, <1>17 DEF Serve, tables, StartsOK
    <2>2. x \in Starts /\ x.pc = "up" /\ x.missing = api[a].missing /\ x.counted = api[a].counted
      BY <1>5 DEF Starts, ApiSteps
    <2> HIDE DEF x
    <2>3. StartOK(x)
      BY <1>5, <2>1, <2>2 DEF StartOK, Asking
    <2> QED BY <1>3, <2>1, <2>2, <2>3
  <1>18. ASSUME NEW a \in Apis, ApiCrash(a)
         PROVE  StartsOK'
    <2>1. Down \in Starts /\ StartOK(Down)
      BY DEF Down, Starts, ApiSteps, StartOK, Asking
    <2> QED BY <1>3, <1>18, <2>1 DEF ApiCrash, tables
  <1>19. CASE ApiStart
    BY <1>6, <1>7, <1>8, <1>9, <1>10, <1>11, <1>12, <1>13, <1>14, <1>15, <1>16, <1>17, <1>18,
       <1>19 DEF ApiStart
  <1>20. CASE ApiRequest \/ GateStep
    BY <1>2, <1>20 DEF ApiRequest, GateStep, PlanLock, PlanClear, PlanCommit, PlanRollback,
       UpsertSKU, SetTenantPlan, CreateTenant, GateAssigned, GateModelAllowed, GatePricingConfigured, PriceUsage, ListAssignment,
       ListPlanModels, ListPriced, GateEnd, tables
  <1> QED BY <1>2, <1>19, <1>20 DEF CatalogueNext, catalogueVars, tables

\* The row lock keeps plan transactions apart; a start writes allow-lists only
\* by copying quotas, or where no transaction is open.
LEMMA DeskKeeps ==
    ASSUME CatalogueInv, [CatalogueNext]_catalogueVars
    PROVE  DeskOK'
  <1>1. /\ DeskOK /\ planModels \in [Plans -> SUBSET Ids] /\ quotas \in [Plans -> SUBSET Ids]
        /\ desk \in [Callers -> {None} \cup Desks]
    BY DEF CatalogueInv, PlansOK, DeskOK
  <1>2. CASE UNCHANGED <<desk, planModels, quotas>>
    BY <1>1, <1>2 DEF DeskOK
  <1>3. ASSUME NEW a \in Apis, CopyQuotas(a)
        PROVE  DeskOK'
    <2>1. /\ UNCHANGED <<desk, quotas>>
          /\ \A p \in Plans : planModels'[p] = planModels[p] \cup quotas[p]
      BY <1>3 DEF CopyQuotas
    <2>2. \A c \in Callers : desk[c] # None => desk[c].plan \in Plans
      BY <1>1 DEF Desks
    <2>3. \A c \in Callers : desk[c] # None /\ desk[c].deleted # None =>
              planModels'[desk[c].plan] \subseteq desk[c].deleted \cup quotas[desk[c].plan]
      BY <1>1, <2>1, <2>2 DEF DeskOK
    <2> QED BY <1>1, <2>1, <2>3 DEF DeskOK
  <1>4. ASSUME NEW a \in Apis, SeedPlan(a)
        PROVE  DeskOK'
    <2>1. /\ UNCHANGED <<desk, quotas>>
          /\ \A p \in Plans \ {DefaultPlan} : planModels'[p] = planModels[p]
          /\ \A c \in Callers : desk[c] # None => desk[c].plan # DefaultPlan
      BY <1>1, <1>4 DEF SeedPlan, PlanFree
    <2>2. \A c \in Callers : desk[c] # None => desk[c].plan \in Plans
      BY <1>1 DEF Desks
    <2>3. \A c \in Callers : desk[c] # None => planModels'[desk[c].plan] = planModels[desk[c].plan]
      BY <2>1, <2>2
    <2> QED BY <1>1, <2>1, <2>3 DEF DeskOK
  <1>5. ASSUME NEW a \in Apis, ApiCrash(a)
        PROVE  DeskOK'
    <2>1. /\ UNCHANGED <<planModels, quotas>>
          /\ desk' = [c \in Callers |-> IF desk[c] # None /\ desk[c].at = a THEN None ELSE desk[c]]
      BY <1>5 DEF ApiCrash, tables
    <2>2. \A c \in Callers : desk'[c] \in {None, desk[c]}
      BY <2>1
    <2> QED BY <1>1, <2>1, <2>2 DEF DeskOK
  <1>6. ASSUME NEW a \in Apis, NEW c \in Callers, NEW p \in Plans, NEW offer \in Offers,
               PlanLock(a, c, p, offer)
        PROVE  DeskOK'
    <2>1. /\ Opened(a, p, offer) \in Desks
          /\ Opened(a, p, offer).plan = p /\ Opened(a, p, offer).deleted = None
      BY DEF Opened, Desks
    <2>2. /\ desk' = [desk EXCEPT ![c] = Opened(a, p, offer)]
          /\ UNCHANGED <<planModels, quotas>> /\ PlanFree(p)
      BY <1>6 DEF PlanLock, tables
    <2>3. \A d \in Callers : desk'[d] = IF d = c THEN Opened(a, p, offer) ELSE desk[d]
      BY <1>1, <2>2
    <2>4. desk' \in [Callers -> {None} \cup Desks]
      BY <1>1, <2>1, <2>2
    <2> QED BY <1>1, <2>1, <2>2, <2>3, <2>4 DEF PlanFree, DeskOK
  <1>7. ASSUME NEW c \in Callers, PlanClear(c)
        PROVE  DeskOK'
    <2>1. /\ desk[c] # None /\ desk[c] \in Desks
          /\ desk' = [desk EXCEPT ![c].deleted = planModels[desk[c].plan]]
          /\ UNCHANGED <<planModels, quotas>>
      BY <1>1, <1>7 DEF PlanClear, tables
    <2>2. planModels[desk[c].plan] \in SUBSET Ids
      BY <1>1, <2>1 DEF Desks
    <2>3. /\ desk'[c] \in Desks
          /\ desk'[c].deleted = planModels[desk[c].plan]
          /\ desk'[c].plan = desk[c].plan
          /\ \A d \in Callers \ {c} : desk'[d] = desk[d]
      BY <1>1, <2>1, <2>2 DEF Desks
    <2>4. desk' \in [Callers -> {None} \cup Desks]
      BY <1>1, <2>1, <2>3
    <2>5. \A d \in Callers : desk'[d] # None => desk[d] # None /\ desk'[d].plan = desk[d].plan
      BY <2>1, <2>3
    <2> QED BY <1>1, <2>1, <2>3, <2>4, <2>5 DEF DeskOK
  <1>8. ASSUME NEW c \in Callers, PlanCommit(c)
        PROVE  DeskOK'
    <2>1. /\ desk[c] # None /\ desk[c] \in Desks
          /\ desk' = [desk EXCEPT ![c] = None]
          /\ \A p \in Plans \ {desk[c].plan} : planModels'[p] = planModels[p]
          /\ quotas' = quotas
      BY <1>1, <1>8 DEF PlanCommit
    <2>2. /\ \A d \in Callers : desk'[d] # None => d # c /\ desk'[d] = desk[d]
          /\ desk' \in [Callers -> {None} \cup Desks]
      BY <1>1, <2>1
    <2>3. \A d \in Callers : desk'[d] # None =>
              desk[d].plan \in Plans /\ desk[d].plan # desk[c].plan
      BY <1>1, <2>1, <2>2 DEF DeskOK, Desks
    <2> QED BY <1>1, <2>1, <2>2, <2>3 DEF DeskOK
  <1>9. ASSUME NEW c \in Callers, PlanRollback(c)
        PROVE  DeskOK'
    BY <1>1, <1>9 DEF PlanRollback, DeskOK, tables
  <1>10. CASE ApiStart
    BY <1>2, <1>3, <1>4, <1>5, <1>10 DEF ApiStart, HasPromptPer1M, HasCompletionPer1M,
       HasLegacyPer1K, CreateSKUs, AddColumn, Convert, SeedPrice, SeedCount, SeedAssign, Serve, tables
  <1>11. CASE GateStep
    BY <1>2, <1>11 DEF GateStep, GateAssigned, GateModelAllowed, GatePricingConfigured, PriceUsage, ListAssignment,
       ListPlanModels, ListPriced, GateEnd, tables
  <1>12. CASE ApiRequest
    BY <1>2, <1>6, <1>7, <1>8, <1>9, <1>12
       DEF ApiRequest, UpsertSKU, SetTenantPlan, CreateTenant
  <1> QED BY <1>2, <1>10, <1>11, <1>12 DEF CatalogueNext, catalogueVars, tables

\* A plan is written whole, by a commit or by the seed, but for quota rows
\* that are copied beside it.
LEMMA PlansKeeps ==
    ASSUME CatalogueInv, [CatalogueNext]_catalogueVars
    PROVE  PlansOK'
  <1>1. /\ plan = [p \in Plans |-> plan[p]]
        /\ planModels \in [Plans -> SUBSET Ids]
        /\ quotas \in [Plans -> SUBSET Ids]
        /\ PlanIsOneRequests
    BY DEF CatalogueInv, PlansOK
  <1>2. CASE UNCHANGED <<plan, planModels, quotas>>
    BY <1>1, <1>2 DEF PlansOK, PlanIsOneRequests
  <1>3. ASSUME NEW a \in Apis, CopyQuotas(a)
        PROVE  PlansOK'
    <2>1. /\ planModels' = [p \in Plans |-> planModels[p] \cup quotas[p]]
          /\ plan' = plan /\ quotas' = quotas
      BY <1>3 DEF CopyQuotas
    <2>2. planModels' \in [Plans -> SUBSET Ids]
      BY <1>1, <2>1
    <2>3. PlanIsOneRequests'
      <3> SUFFICES ASSUME NEW p \in Plans, plan[p] # None
                   PROVE  \E offer \in Offers \cup {SeedOffer, [terms |-> LegacyTerms, models |-> {}]} :
                            /\ plan[p] = offer.terms
                            /\ offer.models \subseteq planModels'[p]
                            /\ planModels'[p] \subseteq offer.models \cup quotas[p]
        BY <2>1 DEF PlanIsOneRequests
      <3>1. PICK offer \in Offers \cup {SeedOffer, [terms |-> LegacyTerms, models |-> {}]} :
                /\ plan[p] = offer.terms
                /\ offer.models \subseteq planModels[p]
                /\ planModels[p] \subseteq offer.models \cup quotas[p]
        BY <1>1 DEF PlanIsOneRequests
      <3> QED BY <2>1, <3>1
    <2> QED BY <1>1, <2>1, <2>2, <2>3 DEF PlansOK
  <1>4. ASSUME NEW p \in Plans, NEW offer \in Offers \cup {SeedOffer}, NEW extra \in SUBSET quotas[p],
               plan' = [plan EXCEPT ![p] = offer.terms],
               planModels' = [planModels EXCEPT ![p] = extra \cup offer.models],
               quotas' = quotas
        PROVE  PlansOK'
    <2>1. offer.models \subseteq Ids /\ extra \subseteq Ids
      BY <1>1, CatalogueConstants
    <2>2. /\ plan' = [q \in Plans |-> plan'[q]]
          /\ planModels' \in [Plans -> SUBSET Ids]
      BY <1>1, <1>4, <2>1
    <2>3. PlanIsOneRequests'
      <3> SUFFICES ASSUME NEW q \in Plans, plan'[q] # None
                   PROVE  \E o \in Offers \cup {SeedOffer, [terms |-> LegacyTerms, models |-> {}]} :
                            /\ plan'[q] = o.terms
                            /\ o.models \subseteq planModels'[q]
                            /\ planModels'[q] \subseteq o.models \cup quotas[q]
        BY <1>4 DEF PlanIsOneRequests
      <3>1. CASE q = p
        <4>1. plan'[q] = offer.terms /\ planModels'[q] = extra \cup offer.models
          BY <1>1, <1>4, <3>1
        <4> QED BY <3>1, <4>1
      <3>2. CASE q # p
        <4>1. plan'[q] = plan[q] /\ planModels'[q] = planModels[q]
          BY <1>1, <1>4, <3>2
        <4> QED BY <1>1, <4>1 DEF PlanIsOneRequests
      <3> QED BY <3>1, <3>2
    <2> QED BY <1>1, <1>4, <2>2, <2>3 DEF PlansOK
  <1>5. ASSUME NEW a \in Apis, SeedPlan(a)
        PROVE  PlansOK'
    <2>1. {} \in SUBSET quotas[DefaultPlan] /\ DefaultPlan \in Plans
      BY CatalogueConstants
    <2>2. /\ plan' = [plan EXCEPT ![DefaultPlan] = SeedOffer.terms]
          /\ planModels' = [planModels EXCEPT ![DefaultPlan] = {} \cup SeedOffer.models]
          /\ quotas' = quotas
      BY <1>5 DEF SeedPlan
    <2> QED BY <1>4, <2>1, <2>2, Zenon
  <1>6. ASSUME NEW c \in Callers, PlanCommit(c)
        PROVE  PlansOK'
    <2> DEFINE left == planModels[desk[c].plan] \ desk[c].deleted
    <2>1. /\ desk[c].plan \in Plans /\ desk[c].offer \in Offers
          /\ left \in SUBSET quotas[desk[c].plan]
      BY <1>6 DEF PlanCommit, CatalogueInv, DeskOK, Desks
    <2>2. /\ planModels' = [planModels EXCEPT ![desk[c].plan] = left \cup desk[c].offer.models]
          /\ plan' = [plan EXCEPT ![desk[c].plan] = desk[c].offer.terms]
          /\ quotas' = quotas
      BY <1>6 DEF PlanCommit
    <2> HIDE DEF left
    <2> QED BY <1>4, <2>1, <2>2
  <1>7. CASE ApiStart
    BY <1>2, <1>3, <1>5, <1>7 DEF ApiStart, HasPromptPer1M, HasCompletionPer1M, HasLegacyPer1K,
       CreateSKUs, AddColumn, Convert, SeedPrice, SeedCount, SeedAssign, Serve, ApiCrash, tables
  <1>8. CASE ApiRequest \/ GateStep
    BY <1>2, <1>6, <1>8 DEF ApiRequest, GateStep, PlanLock, PlanClear, PlanRollback,
       UpsertSKU, SetTenantPlan, CreateTenant, GateAssigned, GateModelAllowed, GatePricingConfigured, PriceUsage, ListAssignment,
       ListPlanModels, ListPriced, GateEnd, tables
  <1> QED BY <1>2, <1>7, <1>8 DEF CatalogueNext, catalogueVars, tables

\* Plans are never deleted, so an assignment stays good.
LEMMA AssignedKeeps ==
    ASSUME CatalogueInv, [CatalogueNext]_catalogueVars
    PROVE  AssignedOK'
  <1>1. AssignedOK /\ plan = [p \in Plans |-> plan[p]] /\ api \in [Apis -> Starts]
    BY DEF CatalogueInv, PlansOK, StartsOK
  <1>2. CASE /\ UNCHANGED <<registered, assignment, plan>>
             /\ \A a \in Apis : api'[a].pc = "assigning" => api[a].pc = "assigning"
    BY <1>1, <1>2 DEF AssignedOK
  <1>3. ASSUME NEW a \in Apis, SeedPlan(a)
        PROVE  AssignedOK'
    <2>1. /\ plan'[DefaultPlan] # None
          /\ \A p \in Plans : plan[p] # None => plan'[p] # None
      BY <1>1, <1>3, CatalogueConstants DEF SeedPlan
    <2>2. UNCHANGED <<registered, assignment>>
      BY <1>3 DEF SeedPlan
    <2> QED BY <1>1, <2>1, <2>2 DEF AssignedOK
  <1>4. ASSUME NEW a \in Apis, SeedAssign(a)
        PROVE  AssignedOK'
    <2>1. /\ UNCHANGED <<registered, plan>>
          /\ assignment' = [assignment EXCEPT ![api[a].counted] = DefaultPlan]
          /\ api' = [api EXCEPT ![a].counted = None]
          /\ api[a].counted \in Subscribers /\ plan[DefaultPlan] # None
      BY <1>1, <1>4 DEF SeedAssign, CatalogueInv, StartsOK, StartOK, Starts, AssignedOK
    <2>2. \A b \in Apis : api'[b].pc = api[b].pc
      BY <1>1, <2>1 DEF Starts
    <2> QED BY <1>1, <2>1, <2>2, CatalogueConstants DEF AssignedOK
  <1>5. ASSUME NEW c \in Callers, PlanCommit(c)
        PROVE  AssignedOK'
    <2>1. desk[c].plan \in Plans /\ desk[c].offer \in Offers
      BY <1>5 DEF PlanCommit, CatalogueInv, DeskOK, Desks
    <2>2. /\ \A p \in Plans : plan[p] # None => plan'[p] # None
          /\ UNCHANGED <<registered, assignment, api>>
      BY <1>1, <1>5, <2>1, CatalogueConstants DEF PlanCommit
    <2> QED BY <1>1, <2>2, CatalogueConstants DEF AssignedOK
  <1>6. ASSUME NEW a \in Apis, NEW t \in Subscribers, NEW p \in Plans, SetTenantPlan(a, t, p)
        PROVE  AssignedOK'
    BY <1>1, <1>6 DEF SetTenantPlan, AssignedOK
  <1>7. ASSUME NEW a \in Apis, NEW t \in Subscribers, CreateTenant(a, t)
        PROVE  AssignedOK'
    BY <1>1, <1>7, CatalogueConstants DEF CreateTenant, AssignedOK
  <1>8. ASSUME NEW a \in Apis, api' = [api EXCEPT ![a] = Down], UNCHANGED <<registered, assignment, plan>>
        PROVE  AssignedOK'
    BY <1>1, <1>2, <1>8 DEF Down
  <1>9. ASSUME NEW a \in Apis, UNCHANGED <<registered, assignment, plan>>,
               api'[a].pc # "assigning" \/ api[a].pc = "assigning",
               \A b \in Apis \ {a} : api'[b] = api[b]
        PROVE  AssignedOK'
    BY <1>1, <1>2, <1>9
  <1>10. CASE ApiStart
    <2>1. PICK a \in Apis :
            \/ HasPromptPer1M(a) \/ HasCompletionPer1M(a) \/ HasLegacyPer1K(a)
            \/ CreateSKUs(a)
            \/ \E side \in Sides : AddColumn(a, side)
            \/ CopyQuotas(a) \/ Convert(a) \/ SeedPrice(a) \/ SeedPlan(a)
            \/ \E t \in Subscribers : SeedCount(a, t)
            \/ SeedAssign(a) \/ Serve(a) \/ ApiCrash(a)
      BY <1>10 DEF ApiStart
    <2>2. CASE HasPromptPer1M(a) \/ HasCompletionPer1M(a) \/ HasLegacyPer1K(a)
      BY <1>1, <1>9, <2>2 DEF HasPromptPer1M, HasCompletionPer1M, HasLegacyPer1K, tables, Starts
    <2>3. CASE CopyQuotas(a) \/ Convert(a) \/ SeedPrice(a)
      BY <1>1, <1>9, <2>3 DEF CopyQuotas, Convert, SeedPrice, Starts
    <2>4. CASE Serve(a) \/ \E t \in Subscribers : SeedCount(a, t)
      BY <1>1, <1>9, <2>4 DEF Serve, SeedCount, tables, Starts
    <2>5. CASE CreateSKUs(a) \/ \E side \in Sides : AddColumn(a, side)
      BY <1>2, <2>5 DEF CreateSKUs, AddColumn
    <2>6. CASE ApiCrash(a)
      BY <1>8, <2>6 DEF ApiCrash, tables
    <2> QED BY <1>3, <1>4, <2>1, <2>2, <2>3, <2>4, <2>5, <2>6
  <1>11. CASE ApiRequest
    BY <1>2, <1>5, <1>6, <1>7, <1>11 DEF ApiRequest, PlanLock, PlanClear, PlanRollback,
       UpsertSKU, tables
  <1>12. CASE GateStep
    BY <1>2, <1>12 DEF GateStep, GateAssigned, GateModelAllowed, GatePricingConfigured, PriceUsage, ListAssignment,
       ListPlanModels, ListPriced, GateEnd, tables
  <1> QED BY <1>2, <1>10, <1>11, <1>12 DEF CatalogueNext, catalogueVars, tables

\* A conversion multiplies the old price of the given sides, and no more.
LEMMA ConvertedRow ==
    ASSUME NEW row \in SkuRows, NEW sides
    PROVE  /\ Converted(row, sides) \in SkuRows
           /\ Converted(row, sides).thousand = row.thousand
           /\ \A side \in Sides : Converted(row, sides).million[side] =
                 IF side \in sides THEN row.thousand[side] * Thousand ELSE row.million[side]
  <1> DEFINE m == [side \in Sides |->
                IF side \in sides THEN row.thousand[side] * Thousand ELSE row.million[side]]
  <1>1. m \in [Sides -> Nat]
    BY CatalogueConstants DEF SkuRows
  <1>2. Converted(row, sides) = [row EXCEPT !.million = m]
    BY DEF Converted
  <1>3. \A side \in Sides : m[side] =
                IF side \in sides THEN row.thousand[side] * Thousand ELSE row.million[side]
    OBVIOUS
  <1> HIDE DEF m
  <1>4. /\ Converted(row, sides) \in SkuRows
        /\ Converted(row, sides).thousand = row.thousand
        /\ Converted(row, sides).million = m
    BY <1>1, <1>2 DEF SkuRows
  <1> QED BY <1>3, <1>4

\* The row UpsertSKU writes is a row.
LEMMA PriceRowIsRow ==
    ASSUME NEW rate \in [Sides -> Nat]
    PROVE  /\ PriceRow(rate) \in SkuRows /\ PriceRow(rate).million = rate
           /\ \A side \in Sides : PriceRow(rate).thousand[side] = rate[side] \div Thousand
  <1>1. [side \in Sides |-> rate[side] \div Thousand] \in [Sides -> Nat]
    BY CatalogueConstants, DivisionBounds
  <1> QED BY <1>1 DEF PriceRow, SkuRows

\* What is owed is what some start has found missing.
LEMMA OwedBySomeone ==
    \A side : side \in Owed <=> \E a \in Apis : side \in api[a].missing
  BY DEF Owed

\* A price is given only once there are all columns: by a serving process, or
\* by a start past AutoMigrate.
LEMMA WritersSeeColumns ==
    ASSUME StartsOK, NEW a \in Apis, api[a].pc \in {"seeding", "up"}
    PROVE  columns = Columns /\ Sides \subseteq columns /\ columns # {}
  BY DEF StartsOK, StartOK, Columns, Sides

\* A price that was set stays set: rows are written over, never deleted.
LEMMA SkusKeep ==
    ASSUME CatalogueInv, [CatalogueNext]_catalogueVars
    PROVE  SkusOK' /\ PricedIds \subseteq PricedIds'
  <1>1. SkusOK /\ StartsOK
    BY DEF CatalogueInv
  <1>2. CASE UNCHANGED <<sku, meant, lost, raced, columns>>
    BY <1>1, <1>2 DEF SkusOK, PricedIds
  <1>3. ASSUME NEW a \in Apis, Convert(a)
        PROVE  SkusOK' /\ PricedIds \subseteq PricedIds'
    <2> DEFINE M == api[a].missing
    <2>1. /\ sku' = [id \in Ids |-> IF sku[id] = None THEN None ELSE Converted(sku[id], M)]
          /\ lost' = [id \in Ids |-> lost[id] \ M]
          /\ UNCHANGED <<meant, raced, columns>>
      BY <1>3 DEF Convert, Filled
    <2> HIDE DEF M
    <2>2. \A id \in Ids : sku[id] # None => Converted(sku[id], M) \in SkuRows
      BY <1>1, ConvertedRow DEF SkusOK
    <2>3. \A id \in Ids : Converted(sku[id], M) \in SkuRows => Converted(sku[id], M) # None
      BY IdsAssumption
    <2> QED BY <1>1, <2>1, <2>2, <2>3 DEF SkusOK, PricedIds
  <1>4. ASSUME NEW id \in Ids, NEW rate \in [Sides -> Nat], WritePrice(id, rate),
               columns # {}, columns' = columns
        PROVE  SkusOK' /\ PricedIds \subseteq PricedIds'
    <2>1. PriceRow(rate) \in SkuRows /\ PriceRow(rate) # None
      BY PriceRowIsRow, IdsAssumption
    <2>2. Owed \in SUBSET Sides
      BY <1>1 DEF Owed, StartsOK, Starts
    <2> QED BY <1>1, <1>4, <2>1, <2>2 DEF WritePrice, SkusOK, PricedIds
  <1>5. ASSUME NEW a \in Apis, SeedPrice(a)
        PROVE  SkusOK' /\ PricedIds \subseteq PricedIds'
    <2>1. Zero \in [Sides -> Nat]
      BY DEF Zero
    <2>2. columns # {} /\ columns' = columns /\ WritePrice(Star, Zero)
      BY <1>1, <1>5, WritersSeeColumns DEF SeedPrice
    <2> QED BY <1>4, <2>1, <2>2, CatalogueConstants
  <1>6. ASSUME NEW a \in Apis, NEW id \in Ids, NEW rate \in Prices, UpsertSKU(a, id, rate)
        PROVE  SkusOK' /\ PricedIds \subseteq PricedIds'
    <2>1. columns # {} /\ columns' = columns /\ WritePrice(id, rate)
      BY <1>1, <1>6, WritersSeeColumns DEF UpsertSKU, Serving
    <2> QED BY <1>4, <2>1, CatalogueConstants
  <1>7. ASSUME NEW a \in Apis, ApiCrash(a)
        PROVE  SkusOK' /\ PricedIds \subseteq PricedIds'
    <2>1. api[a].missing \subseteq Sides
      BY <1>1 DEF StartsOK, Starts
    <2> QED BY <1>1, <1>7, <2>1 DEF ApiCrash, tables, SkusOK, PricedIds
  <1>8. ASSUME UNCHANGED <<sku, meant, lost, raced>>, columns' # {}
        PROVE  SkusOK' /\ PricedIds \subseteq PricedIds'
    BY <1>1, <1>8 DEF SkusOK, PricedIds
  <1>9. CASE ApiStart
    <2>1. ASSUME NEW a \in Apis, CreateSKUs(a) \/ \E side \in Sides : AddColumn(a, side)
          PROVE  SkusOK' /\ PricedIds \subseteq PricedIds'
      BY <1>8, <2>1 DEF CreateSKUs, AddColumn, Columns, history
    <2> QED BY <1>2, <1>3, <1>5, <1>7, <1>9, <2>1 DEF ApiStart, HasPromptPer1M, HasCompletionPer1M,
       HasLegacyPer1K, CopyQuotas, SeedPlan, SeedCount, SeedAssign, Serve, tables, history
  <1>10. CASE ApiRequest \/ GateStep
    BY <1>2, <1>6, <1>10 DEF ApiRequest, GateStep, PlanLock, PlanClear, PlanCommit, PlanRollback,
       SetTenantPlan, CreateTenant, GateAssigned, GateModelAllowed, GatePricingConfigured, PriceUsage, ListAssignment,
       ListPlanModels, ListPriced, GateEnd, tables, history
  <1> QED BY <1>2, <1>9, <1>10 DEF CatalogueNext, catalogueVars, tables, history

\* A row that is not written stays right while what is due to be filled in is
\* due no more than before, or known to be lost.
LEMMA SideStays ==
    ASSUME NEW id \in Ids, NEW side \in Sides, SideOK(id, side),
           sku'[id].thousand[side] = sku[id].thousand[side],
           sku'[id].million[side] = sku[id].million[side],
           meant' = meant, raced' = raced,
           side \in Owed' \/ side \notin columns' => side \in Owed \/ side \notin columns,
           side \in Owed \/ side \notin columns \/ side \in lost[id] =>
               side \in Owed' \/ side \notin columns' \/ side \in lost'[id]
    PROVE  SideOK(id, side)'
  <1>1. sku'[id].thousand[side] = meant'[id][side] \div Thousand
    BY DEF SideOK
  <1>2. side \notin raced'[id] /\ (side \in Owed' \/ side \notin columns') =>
          sku'[id].thousand[side] * Thousand = meant'[id][side]
    BY DEF SideOK
  <1>3. \/ sku'[id].million[side] = meant'[id][side]
        \/ /\ sku'[id].million[side] = 0 /\ side \notin raced'[id]
           /\ side \notin columns' \/ side \in Owed' \/ side \in lost'[id]
        \/ side \in raced'[id] /\ sku'[id].million[side] = Rounded(meant'[id][side])
    BY DEF SideOK
  <1> QED BY <1>1, <1>2, <1>3 DEF SideOK, Rounded

\* An older release's row has its old price until a start that found the
\* column missing converts it, or never gets it; a price given meanwhile loses
\* at most what the legacy column does not keep.
LEMMA PricesKeep ==
    ASSUME CatalogueInv, [CatalogueNext]_catalogueVars
    PROVE  PricesOK'
  <1>1. StartsOK /\ SkusOK /\ PricesOK
    BY DEF CatalogueInv
  \* Columns may come, and starts may find more of them missing.
  <1>2. ASSUME UNCHANGED <<sku, meant, lost, raced>>,
               \A side \in Sides : /\ side \in Owed => side \in Owed'
                                   /\ side \in Owed' => side \in Owed \/ side \notin columns
                                   /\ side \notin columns' => side \notin columns
                                   /\ side \in columns' /\ side \notin columns => side \in Owed
        PROVE  PricesOK'
    <2> SUFFICES ASSUME NEW id \in Ids, NEW side \in Sides, sku[id] # None
                 PROVE  SideOK(id, side)'
      BY <1>2 DEF PricesOK
    <2>1. SideOK(id, side)
      BY <1>1 DEF PricesOK
    <2> QED BY <1>2, <2>1, SideStays
  <1>3. CASE UNCHANGED <<sku, meant, lost, raced, columns, api>>
    <2>1. Owed' = Owed
      BY <1>3 DEF Owed
    <2> QED BY <1>2, <1>3, <2>1
  \* The starts do not change what they have found missing.
  <1>4. ASSUME UNCHANGED <<sku, meant, lost, raced, columns>>,
               \A a \in Apis : api'[a].missing = api[a].missing
        PROVE  PricesOK'
    <2>1. Owed' = Owed
      BY <1>4 DEF Owed
    <2> QED BY <1>2, <1>4, <2>1
  \* Without a table there are no rows.
  <1>5. ASSUME columns = {}, sku' = sku
        PROVE  PricesOK'
    BY <1>1, <1>5 DEF SkusOK, PricesOK
  <1>6. ASSUME NEW a \in Apis, HasPromptPer1M(a) \/ HasCompletionPer1M(a)
        PROVE  PricesOK'
    <2>1. /\ UNCHANGED <<sku, meant, lost, raced, columns>>
          /\ \A b \in Apis \ {a} : api'[b].missing = api[b].missing
          /\ api[a].missing \subseteq api'[a].missing
          /\ api'[a].missing \ api[a].missing \subseteq Sides \ columns
      <3>1. CASE HasPromptPer1M(a)
        <4>1. api[a].missing = {}
          BY <1>1, <3>1 DEF HasPromptPer1M, StartsOK, StartOK, Asking
        <4> QED BY <1>1, <3>1, <4>1 DEF HasPromptPer1M, StartsOK, Starts, tables, history, Sides
      <3>2. CASE HasCompletionPer1M(a)
        BY <1>1, <3>2 DEF HasCompletionPer1M, StartsOK, Starts, tables, history, Sides
      <3> QED BY <1>6, <3>1, <3>2
    <2>2. \A side : /\ side \in Owed <=> \E b \in Apis : side \in api[b].missing
                    /\ side \in Owed' <=> \E b \in Apis : side \in api'[b].missing
      BY DEF Owed
    <2>3. \A side \in Sides : /\ side \in Owed => side \in Owed'
                              /\ side \in Owed' => side \in Owed \/ side \notin columns
      BY <2>1, <2>2
    <2> QED BY <1>2, <2>1, <2>3
  <1>7. ASSUME NEW a \in Apis, HasLegacyPer1K(a)
        PROVE  PricesOK'
    <2>1. CASE "thousand" \in columns
      BY <1>1, <1>4, <1>7, <2>1 DEF HasLegacyPer1K, StartsOK, Starts, tables, history
    <2>2. CASE "thousand" \notin columns
      BY <1>1, <1>5, <1>7, <2>2 DEF HasLegacyPer1K, StartsOK, tables
    <2> QED BY <2>1, <2>2
  <1>8. ASSUME NEW a \in Apis, CreateSKUs(a)
        PROVE  PricesOK'
    BY <1>5, <1>8 DEF CreateSKUs
  <1>9. ASSUME NEW a \in Apis, NEW side \in Sides, AddColumn(a, side)
        PROVE  PricesOK'
    <2>1. side \in api[a].missing
      BY <1>1, <1>9 DEF AddColumn, StartsOK, StartOK
    <2>2. side \in Owed /\ Owed' = Owed
      BY <1>9, <2>1 DEF AddColumn, Owed
    <2> QED BY <1>2, <1>9, <2>2 DEF AddColumn, history
  <1>10. ASSUME NEW a \in Apis, Convert(a)
         PROVE  PricesOK'
    <2> DEFINE M == api[a].missing
    <2>1. /\ sku' = [id \in Ids |-> IF sku[id] = None THEN None ELSE Converted(sku[id], M)]
          /\ lost' = [id \in Ids |-> lost[id] \ M]
          /\ UNCHANGED <<meant, raced, columns>>
          /\ \A b \in Apis : api'[b].missing = IF b = a THEN {} ELSE api[b].missing
      BY <1>1, <1>10 DEF Convert, Filled, StartsOK, Starts
    <2>2. \A side : /\ side \in Owed' => side \in Owed
                    /\ side \in M => side \in Owed
                    /\ side \in Owed /\ side \notin M => side \in Owed'
      <3>1. \A side : /\ side \in Owed <=> \E b \in Apis : side \in api[b].missing
                      /\ side \in Owed' <=> \E b \in Apis : side \in api'[b].missing
        BY DEF Owed
      <3> QED BY <2>1, <3>1
    <2> HIDE DEF M
    <2> SUFFICES ASSUME NEW id \in Ids, NEW side \in Sides, sku'[id] # None
                 PROVE  SideOK(id, side)'
      BY DEF PricesOK
    <2>3. sku[id] # None /\ sku'[id] = Converted(sku[id], M) /\ sku[id] \in SkuRows
      BY <1>1, <2>1 DEF SkusOK
    <2>4. /\ sku'[id].million[side] =
               IF side \in M THEN sku[id].thousand[side] * Thousand ELSE sku[id].million[side]
          /\ sku'[id].thousand = sku[id].thousand
          /\ lost'[id] = lost[id] \ M
      BY <2>1, <2>3, ConvertedRow
    <2>5. SideOK(id, side)
      BY <1>1, <2>3 DEF PricesOK
    <2>6. CASE side \in M
      <3>1. CASE side \in raced[id]
        BY <2>1, <2>2, <2>4, <2>5, <2>6, <3>1 DEF SideOK, Rounded
      <3>2. CASE side \notin raced[id]
        <4>1. side \in Owed
          BY <2>2, <2>6
        <4>2. /\ sku[id].thousand[side] * Thousand = meant[id][side]
              /\ sku[id].thousand[side] = meant[id][side] \div Thousand
          BY <2>5, <3>2, <4>1 DEF SideOK
        <4>3. /\ sku'[id].million[side] = meant'[id][side]
              /\ sku'[id].thousand[side] * Thousand = meant'[id][side]
              /\ sku'[id].thousand[side] = meant'[id][side] \div Thousand
          BY <2>1, <2>4, <2>6, <4>2
        <4> QED BY <4>3 DEF SideOK
      <3> QED BY <3>1, <3>2
    <2>7. CASE side \notin M
      <3>1. /\ sku'[id].million[side] = sku[id].million[side]
            /\ side \in lost[id] => side \in lost'[id]
        BY <2>4, <2>7
      <3>2. /\ sku'[id].thousand[side] = sku[id].thousand[side]
            /\ side \in Owed' => side \in Owed
            /\ side \in Owed => side \in Owed'
            /\ columns' = columns /\ meant' = meant /\ raced' = raced
        BY <2>1, <2>2, <2>4, <2>7
      <3> QED BY <2>5, <3>1, <3>2, SideStays
    <2> QED BY <2>6, <2>7
  <1>11. ASSUME NEW i \in Ids, NEW rate \in [Sides -> Nat], WritePrice(i, rate),
                Sides \subseteq columns, columns' = columns, Owed' = Owed
         PROVE  PricesOK'
    <2>1. /\ PriceRow(rate).million = rate
          /\ \A side \in Sides : PriceRow(rate).thousand[side] = rate[side] \div Thousand
      BY PriceRowIsRow
    <2>2. /\ sku'[i] = PriceRow(rate) /\ meant'[i] = rate /\ raced'[i] = Owed
          /\ \A k \in Ids \ {i} : /\ sku'[k] = sku[k] /\ meant'[k] = meant[k]
                                  /\ raced'[k] = raced[k] /\ lost'[k] = lost[k]
      BY <1>1, <1>11 DEF WritePrice, SkusOK
    <2> SUFFICES ASSUME NEW id \in Ids, NEW side \in Sides, sku'[id] # None
                 PROVE  SideOK(id, side)'
      BY DEF PricesOK
    <2>3. CASE id = i
      BY <1>11, <2>1, <2>2, <2>3 DEF SideOK
    <2>4. CASE id # i
      <3>1. SideOK(id, side) /\ sku[id] # None
        BY <1>1, <2>2, <2>4 DEF PricesOK
      <3> QED BY <1>11, <2>2, <2>4, <3>1 DEF SideOK
    <2> QED BY <2>3, <2>4
  <1>12. ASSUME NEW a \in Apis, SeedPrice(a)
         PROVE  PricesOK'
    <2>1. Zero \in [Sides -> Nat] /\ Star \in Ids
      BY CatalogueConstants DEF Zero
    <2>2. Sides \subseteq columns /\ columns' = columns /\ WritePrice(Star, Zero)
      BY <1>1, <1>12, WritersSeeColumns DEF SeedPrice
    <2>3. \A b \in Apis : api'[b].missing = api[b].missing
      BY <1>1, <1>12 DEF SeedPrice, StartsOK, Starts
    <2>4. Owed' = Owed
      BY <2>3 DEF Owed
    <2> QED BY <1>11, <2>1, <2>2, <2>4
  <1>13. ASSUME NEW a \in Apis, NEW id \in Ids, NEW rate \in Prices, UpsertSKU(a, id, rate)
         PROVE  PricesOK'
    <2>1. Sides \subseteq columns /\ columns' = columns /\ WritePrice(id, rate) /\ api' = api
      BY <1>1, <1>13, WritersSeeColumns DEF UpsertSKU, Serving
    <2>2. Owed' = Owed
      BY <2>1 DEF Owed
    <2> QED BY <1>11, <2>1, <2>2, CatalogueConstants
  <1>14. ASSUME NEW a \in Apis, ApiCrash(a)
         PROVE  PricesOK'
    <2>1. /\ UNCHANGED <<sku, meant, raced, columns>>
          /\ \A id \in Ids : lost'[id] = lost[id] \cup ((api[a].missing \cap columns) \ raced[id])
          /\ \A b \in Apis : api'[b].missing = IF b = a THEN {} ELSE api[b].missing
      BY <1>1, <1>14 DEF ApiCrash, tables, Down, StartsOK
    <2>2. \A side : /\ side \in Owed' => side \in Owed
                    /\ side \in Owed /\ side \notin api[a].missing => side \in Owed'
      <3>1. \A side : /\ side \in Owed <=> \E b \in Apis : side \in api[b].missing
                      /\ side \in Owed' <=> \E b \in Apis : side \in api'[b].missing
        BY DEF Owed
      <3>2. ASSUME NEW side, side \in Owed'
            PROVE  side \in Owed
        <4>1. PICK b \in Apis : side \in api'[b].missing
          BY <3>1, <3>2
        <4>2. side \in api[b].missing
          BY <2>1, <4>1
        <4> QED BY <3>1, <4>2
      <3>3. ASSUME NEW side, side \in Owed, side \notin api[a].missing
            PROVE  side \in Owed'
        <4>1. PICK b \in Apis : side \in api[b].missing
          BY <3>1, <3>3
        <4>2. b # a /\ side \in api'[b].missing
          BY <2>1, <3>3, <4>1
        <4> QED BY <3>1, <4>2
      <3> QED BY <3>2, <3>3
    <2> SUFFICES ASSUME NEW id \in Ids, NEW side \in Sides, sku[id] # None
                 PROVE  SideOK(id, side)'
      BY <2>1 DEF PricesOK
    <2>3. SideOK(id, side)
      BY <1>1 DEF PricesOK
    <2>4. lost'[id] = lost[id] \cup ((api[a].missing \cap columns) \ raced[id])
      BY <2>1
    <2>5. raced[id] \subseteq Sides /\ (side \in raced[id] \/ side \notin raced[id])
      BY <1>1 DEF SkusOK
    <2>6. CASE side \in raced[id]
      <3>1. /\ sku[id].thousand[side] = meant[id][side] \div Thousand
            /\ \/ sku[id].million[side] = meant[id][side]
               \/ sku[id].million[side] = Rounded(meant[id][side])
        BY <2>3, <2>6 DEF SideOK
      <3>2. /\ sku'[id].thousand[side] = meant'[id][side] \div Thousand
            /\ \/ sku'[id].million[side] = meant'[id][side]
               \/ sku'[id].million[side] = Rounded(meant'[id][side])
            /\ side \in raced'[id]
        BY <2>1, <2>6, <3>1
      <3> QED BY <3>2 DEF SideOK, Rounded
    <2>7. CASE side \notin raced[id]
      <3>1. side \in Owed \/ side \notin columns \/ side \in lost[id] =>
               side \in Owed' \/ side \notin columns' \/ side \in lost'[id]
        BY <2>1, <2>2, <2>4, <2>7
      <3>2. side \in Owed' \/ side \notin columns' => side \in Owed \/ side \notin columns
        BY <2>1, <2>2
      <3> QED BY <2>1, <2>3, <3>1, <3>2, SideStays
    <2> QED BY <2>5, <2>6, <2>7
  <1>15. CASE ApiStart
    <2>1. ASSUME NEW a \in Apis, CopyQuotas(a) \/ SeedPlan(a)
          PROVE  PricesOK'
      BY <1>1, <1>4, <2>1 DEF CopyQuotas, SeedPlan, StartsOK, Starts, history
    <2>2. ASSUME NEW a \in Apis,
                 (\E t \in Subscribers : SeedCount(a, t)) \/ SeedAssign(a) \/ Serve(a)
          PROVE  PricesOK'
      <3>1. UNCHANGED <<sku, meant, lost, raced, columns>>
        BY <2>2 DEF SeedCount, SeedAssign, Serve, tables, history
      <3>2. \A b \in Apis : api'[b].missing = api[b].missing
        <4>1. CASE \E t \in Subscribers : SeedCount(a, t)
          BY <1>1, <4>1 DEF SeedCount, StartsOK, Starts
        <4>2. CASE SeedAssign(a)
          BY <1>1, <4>2 DEF SeedAssign, StartsOK, Starts
        <4>3. CASE Serve(a)
          BY <1>1, <4>3 DEF Serve, StartsOK, Starts
        <4> QED BY <2>2, <4>1, <4>2, <4>3
      <3> QED BY <1>4, <3>1, <3>2
    <2>3. PICK a \in Apis :
              \/ HasPromptPer1M(a) \/ HasCompletionPer1M(a) \/ HasLegacyPer1K(a) \/ CreateSKUs(a)
              \/ \E side \in Sides : AddColumn(a, side)
              \/ CopyQuotas(a) \/ Convert(a) \/ SeedPrice(a) \/ SeedPlan(a)
              \/ \E t \in Subscribers : SeedCount(a, t)
              \/ SeedAssign(a) \/ Serve(a) \/ ApiCrash(a)
      BY <1>15 DEF ApiStart
    <2> QED BY <1>6, <1>7, <1>8, <1>9, <1>10, <1>12, <1>14, <2>1, <2>2, <2>3
  <1>16. CASE ApiRequest \/ GateStep
    BY <1>3, <1>13, <1>16 DEF ApiRequest, GateStep, PlanLock, PlanClear, PlanCommit, PlanRollback,
       SetTenantPlan, CreateTenant, GateAssigned, GateModelAllowed, GatePricingConfigured, PriceUsage, ListAssignment,
       ListPlanModels, ListPriced, GateEnd, tables, history
  <1> QED BY <1>3, <1>15, <1>16 DEF CatalogueNext, catalogueVars, tables, history

-----------------------------------------------------------------------------
(* Catalogue: requests at a gateway. *)

\* Candidates are model ids.
LEMMA CandidatesAreIds ==
    ASSUME NEW id \in Ids \ {Star}
    PROVE  LET C == skuCandidates(id)
           IN  /\ Len(C) \in Nat /\ 0 < Len(C) /\ DOMAIN C = 1..Len(C)
               /\ \A m \in DOMAIN C : C[m] \in Ids
  <1> DEFINE C == skuCandidates(id)
  <1>1. /\ id \in Seq(ToSet(id)) /\ (Len(id) = 1 \/ Len(id) >= 2)
        /\ Len(id) >= 2 => Tail(id) \in Ids
    BY IdShape
  <1>2. Star \in Ids
    BY CatalogueConstants
  <1>3. CASE Len(id) = 1
    <2>1. Len(C) = 2 /\ DOMAIN C = 1..2 /\ C[1] = id /\ C[2] = Star
      BY <1>1, <1>3, Candidates
    <2> HIDE DEF C
    <2>2. \A m \in DOMAIN C : C[m] \in Ids
      BY <1>2, <2>1
    <2> QED BY <2>1, <2>2 DEF C
  <1>4. CASE Len(id) >= 2
    <2>1. Len(C) = 3 /\ DOMAIN C = 1..3 /\ C[1] = id /\ C[2] = Tail(id) /\ C[3] = Star
      BY <1>1, <1>4, Candidates
    <2> HIDE DEF C
    <2>2. C[1] \in Ids /\ C[2] \in Ids /\ C[3] \in Ids
      BY <1>1, <1>2, <1>4, <2>1
    <2>3. \A m \in DOMAIN C : m = 1 \/ m = 2 \/ m = 3
      BY <2>1
    <2>4. \A m \in DOMAIN C : C[m] \in Ids
      BY <2>2, <2>3, Zenon
    <2> QED BY <2>1, <2>4 DEF C
  <1> QED BY <1>1, <1>3, <1>4

\* The first candidate that has a row ranks no lower than any that had one at
\* admission, although the fallback may be a candidate twice.
LEMMA FirstRanksBest ==
    ASSUME NEW id \in Ids \ {Star}, NEW known, NEW n \in DOMAIN skuCandidates(id),
           \A m \in 1..(n - 1) : skuCandidates(id)[m] \notin known
    PROVE  \A i \in known \cap ToSet(skuCandidates(id)) :
             Rank(skuCandidates(id), skuCandidates(id)[n]) <= Rank(skuCandidates(id), i)
  <1> DEFINE C == skuCandidates(id)
  <1>1. /\ C[1] = id
        /\ \/ DOMAIN C = 1..2 /\ C[2] = Star
           \/ DOMAIN C = 1..3 /\ C[2] = Tail(id) /\ C[3] = Star /\ Tail(id) # id
    <2>1. /\ id \in Seq(ToSet(id)) /\ Len(id) \in Nat /\ (Len(id) = 1 \/ Len(id) >= 2)
      BY IdShape
    <2>2. Tail(id) # id
      <3>1. Len(id) >= 1
        BY IdShape
      <3> QED BY <2>1, <3>1, TailShape, Zenon
    <2> QED BY <2>1, <2>2, Candidates
  <1> SUFFICES ASSUME NEW i \in known \cap ToSet(C)
               PROVE  Rank(C, C[n]) <= Rank(C, i)
    OBVIOUS
  <1>2. Rank(C, i) \in DOMAIN C /\ C[Rank(C, i)] = i
    BY DEF ToSet, Rank
  <1>3. Rank(C, C[n]) \in DOMAIN C /\ C[Rank(C, C[n])] = C[n]
    BY DEF Rank
  <1>4. CASE i = C[n]
    BY <1>1, <1>2, <1>4
  <1>5. CASE i # C[n]
    <2> DEFINE r == Rank(C, C[n])
               k == Rank(C, i)
    <2>1. r \in DOMAIN C /\ C[r] = C[n] /\ k \in DOMAIN C /\ C[k] = i
      BY <1>2, <1>3
    <2>2. \A m \in 1..(n - 1) : C[m] \notin known
      OBVIOUS
    <2>3. n \in DOMAIN C
      OBVIOUS
    <2> HIDE DEF r, k, C
    <2>4. n \in Nat /\ k \in Nat /\ r \in Nat /\ k >= n
      BY <1>1, <2>1, <2>2, <2>3
    <2>5. r <= k
      <3>1. CASE DOMAIN C = 1..2 /\ C[2] = Star
        <4>1. r = n
          BY <1>1, <2>1, <2>3, <3>1
        <4> QED BY <2>4, <4>1
      <3>2. CASE DOMAIN C = 1..3 /\ C[2] = Tail(id) /\ C[3] = Star /\ Tail(id) # id
        <4> DEFINE tl == Tail(id)
        <4> HIDE DEF tl
        <4>1. C[1] = id /\ C[2] = tl /\ C[3] = Star /\ tl # id /\ id # Star
          BY <1>1, <3>2 DEF tl
        <4>2. /\ n = 1 \/ n = 2 \/ n = 3
              /\ r = 1 \/ r = 2 \/ r = 3
              /\ k = 1 \/ k = 2 \/ k = 3
          BY <2>1, <2>3, <3>2
        <4>3. k # n
          BY <1>5, <2>1
        <4>4. CASE n = 1
          BY <2>1, <2>4, <4>1, <4>2, <4>4
        <4>5. CASE n = 2
          BY <1>5, <2>1, <2>4, <4>1, <4>2, <4>3, <4>5
        <4>6. CASE n = 3
          BY <2>4, <4>2, <4>3, <4>6
        <4> QED BY <4>2, <4>4, <4>5, <4>6
      <3> QED BY <1>1, <3>1, <3>2
    <2> QED BY <2>5 DEF r, k, C
  <1> QED BY <1>4, <1>5

\* Both sides of a charge together.
LEMMA ChargesAddUp ==
    ASSUME NEW a \in Nat, NEW b \in Nat, NEW p \in Nat, NEW q \in Nat,
           NEW m \in Nat, a <= p * m, p * m < a + m, b <= q * m, q * m < b + m
    PROVE  a + b <= (p + q) * m /\ (p + q) * m < (a + b) + 2 * m
  <1>1. (p + q) * m = p * m + q * m
    OBVIOUS
  <1> DEFINE x == p * m
             y == q * m
  <1>2. x \in Nat /\ y \in Nat
    OBVIOUS
  <1>3. a <= x /\ x < a + m /\ b <= y /\ y < b + m
    OBVIOUS
  <1> HIDE DEF x, y
  <1>4. a + b <= x + y /\ x + y < (a + b) + 2 * m
    BY <1>2, <1>3
  <1> QED BY <1>1, <1>4 DEF x, y

\* Pricing tries one candidate at a time while prices change, and finds a row.
LEMMA GatesKeep ==
    ASSUME CatalogueInv, [CatalogueNext]_catalogueVars
    PROVE  GatesOK'
  <1>1. /\ GatesOK /\ SkusOK /\ PricedIds \subseteq PricedIds'
        /\ PricedIds \subseteq Ids
    BY SkusKeep DEF CatalogueInv, PricedIds
  <1>2. CASE gate' = gate
    <2>1. ASSUME NEW g \in Gates, GateOK(gate[g], PricedIds)
          PROVE  GateOK(gate[g], PricedIds')
      BY <1>1, <2>1 DEF GateOK
    <2> QED BY <1>1, <1>2, <2>1 DEF GatesOK
  <1>3. ASSUME NEW g \in Gates, NEW x, GateOK(x, PricedIds),
               gate' = [gate EXCEPT ![g] = x], sku' = sku
        PROVE  GatesOK'
    <2>1. PricedIds' = PricedIds
      BY <1>3 DEF PricedIds
    <2>2. /\ gate' = [h \in Gates |-> gate'[h]]
          /\ \A h \in Gates : gate'[h] = IF h = g THEN x ELSE gate[h]
      BY <1>1, <1>3 DEF GatesOK
    <2> QED BY <1>1, <1>3, <2>1, <2>2 DEF GatesOK
  <1>4. ASSUME NEW g \in Gates, NEW t \in Subscribers, NEW id \in Ids \ {Star},
               GateAssigned(g, t, id)
        PROVE  GatesOK'
    <2> DEFINE x == [pc |-> "assigned", plan |-> assignment[t], id |-> id]
    <2>1. GateOK(x, PricedIds)
      BY DEF GateOK
    <2> HIDE DEF x
    <2> QED BY <1>3, <1>4, <2>1 DEF GateAssigned, x, tables
  <1>5. ASSUME NEW g \in Gates, GateModelAllowed(g)
        PROVE  GatesOK'
    <2> DEFINE x == [pc |-> "allowed", id |-> gate[g].id]
    <2>1. gate[g].id \in Ids \ {Star}
      BY <1>1, <1>5 DEF GateModelAllowed, GatesOK, GateOK
    <2>2. GateOK(x, PricedIds)
      BY <2>1 DEF GateOK
    <2> QED BY <1>3, <1>5, <2>2 DEF GateModelAllowed, tables
  <1>6. ASSUME NEW g \in Gates, GatePricingConfigured(g)
        PROVE  GatesOK'
    <2> DEFINE x == [pc |-> "admitted", id |-> gate[g].id, tried |-> 0, known |-> PricedIds]
    <2>1. gate[g].id \in Ids \ {Star}
      BY <1>1, <1>6 DEF GatePricingConfigured, GatesOK, GateOK
    <2>2. /\ x \in [pc : {"admitted"}, id : Ids \ {Star}, tried : Nat, known : SUBSET PricedIds]
          /\ x.pc = "admitted" /\ x.id = gate[g].id /\ x.tried = 0 /\ x.known = PricedIds
      BY <2>1
    <2>3. PricedIds \cap ToSet(skuCandidates(gate[g].id)) # {}
      BY <1>6 DEF GatePricingConfigured, modelIDMatches
    <2>4. 0 < Len(skuCandidates(gate[g].id))
      BY <2>1, CandidatesAreIds
    <2>5. gate' = [gate EXCEPT ![g] = x] /\ sku' = sku
      BY <1>6 DEF GatePricingConfigured, tables
    <2> HIDE DEF x
    <2>6. GateOK(x, PricedIds)
      BY <2>2, <2>3, <2>4 DEF GateOK
    <2> QED BY <1>3, <2>5, <2>6
  <1>7. ASSUME NEW g \in Gates, NEW tokens \in [Sides -> Tokens], PriceUsage(g, tokens)
        PROVE  GatesOK'
    <2> DEFINE id == gate[g].id
               C == skuCandidates(id)
               known == gate[g].known
               n == gate[g].tried + 1
               row == sku[C[n]]
    <2>1. /\ gate[g] \in [pc : {"admitted"}, id : Ids \ {Star}, tried : Nat, known : SUBSET PricedIds]
          /\ id \in Ids \ {Star} /\ gate[g].tried \in Nat
          /\ known \subseteq PricedIds
          /\ known \cap ToSet(C) # {}
          /\ gate[g].tried < Len(C)
          /\ \A m \in 1..gate[g].tried : C[m] \notin known
      BY <1>1, <1>7 DEF PriceUsage, GatesOK, GateOK
    <2>2. Len(C) \in Nat /\ DOMAIN C = 1..Len(C) /\ \A m \in DOMAIN C : C[m] \in Ids
      BY <2>1, CandidatesAreIds
    <2>3. /\ sku' = sku
          /\ gate' = [gate EXCEPT ![g] =
              IF row # None
                THEN [pc |-> "settled", row |-> C[n], id |-> id,
                      known |-> known, tokens |-> tokens, rate |-> row.million,
                      charge |-> price(tokens.prompt, row.million.prompt)
                                   + price(tokens.completion, row.million.completion)]
              ELSE IF n < Len(C) THEN [gate[g] EXCEPT !.tried = n]
              ELSE [pc |-> "unpriced"]]
      BY <1>7 DEF PriceUsage, tables
    <2>4. n \in Nat /\ n \in DOMAIN C /\ C[n] \in Ids /\ n - 1 = gate[g].tried
      BY <2>1, <2>2
    <2>5. CASE row # None
      <3> DEFINE rate == row.million
                 a == price(tokens.prompt, rate.prompt)
                 b == price(tokens.completion, rate.completion)
                 x == [pc |-> "settled", row |-> C[n], id |-> id, known |-> known,
                       tokens |-> tokens, rate |-> rate, charge |-> a + b]
      <3>1. gate' = [gate EXCEPT ![g] = x]
        BY <2>3, <2>5
      <3>2. /\ tokens.prompt \in Nat /\ tokens.completion \in Nat
            /\ rate.prompt \in Nat /\ rate.completion \in Nat
        <4>1. row \in SkuRows
          BY <1>1, <2>4, <2>5 DEF SkusOK
        <4> QED BY <4>1, CatalogueConstants DEF SkuRows, Sides
      <3>3. \A m \in 1..(n - 1) : C[m] \notin known
        BY <2>1, <2>4
      <3>4. \A i \in known \cap ToSet(C) : Rank(C, C[n]) <= Rank(C, i)
        BY <2>1, <2>4, <3>3, FirstRanksBest
      <3>5. LET due == tokens.prompt * rate.prompt + tokens.completion * rate.completion
            IN  due <= (a + b) * Million /\ (a + b) * Million < due + 2 * Million
        <4> HIDE DEF rate
        <4>1. /\ a \in Nat /\ tokens.prompt * rate.prompt <= a * Million
              /\ a * Million < tokens.prompt * rate.prompt + Million
          BY <3>2, ChargeBounds
        <4>2. /\ b \in Nat /\ tokens.completion * rate.completion <= b * Million
              /\ b * Million < tokens.completion * rate.completion + Million
          BY <3>2, ChargeBounds
        <4>3. /\ Million \in Nat /\ tokens.prompt * rate.prompt \in Nat
              /\ tokens.completion * rate.completion \in Nat
          BY <3>2, CatalogueConstants DEF Million
        <4> HIDE DEF a, b
        <4> QED BY <4>1, <4>2, <4>3, ChargesAddUp
      <3>6. SettledWell(x)
        <4>1. /\ x.id = id /\ x.known = known /\ x.row = C[n] /\ x.tokens = tokens
              /\ x.rate = rate /\ x.charge = a + b
          OBVIOUS
        <4> HIDE DEF x, a, b, rate, id, known, n, row
        <4> QED BY <3>4, <3>5, <4>1, Zenon DEF SettledWell
      <3>7. GateOK(x, PricedIds)
        <4>1. x.pc = "settled"
          OBVIOUS
        <4> HIDE DEF x
        <4> QED BY <3>6, <4>1 DEF GateOK
      <3> HIDE DEF x
      <3> QED BY <1>3, <2>3, <3>1, <3>7
    <2>6. CASE row = None
      <3>1. C[n] \notin known
        BY <2>1, <2>6 DEF PricedIds
      <3>2. \A m \in 1..n : C[m] \notin known
        BY <2>1, <2>4, <3>1
      <3>3. CASE n < Len(C)
        <4> DEFINE x == [gate[g] EXCEPT !.tried = n]
        <4>1. gate' = [gate EXCEPT ![g] = x]
          BY <2>3, <2>6, <3>3
        <4>2. /\ x \in [pc : {"admitted"}, id : Ids \ {Star}, tried : Nat, known : SUBSET PricedIds]
              /\ x.pc = "admitted" /\ x.id = id /\ x.tried = n /\ x.known = known
          BY <2>1, <2>4
        <4> HIDE DEF x
        <4>3. GateOK(x, PricedIds)
          BY <2>1, <3>2, <3>3, <4>2 DEF GateOK
        <4> QED BY <1>3, <2>3, <4>1, <4>3
      <3>4. CASE ~(n < Len(C))
        <4>1. n = Len(C)
          BY <2>2, <2>4, <3>4
        <4>2. ToSet(C) = {C[m] : m \in 1..n}
          BY <2>2, <4>1 DEF ToSet
        <4> QED BY <2>1, <3>2, <4>2
      <3> QED BY <3>3, <3>4
    <2> QED BY <2>5, <2>6
  <1>8. ASSUME NEW g \in Gates, GateEnd(g)
        PROVE  GatesOK'
    <2>1. GateOK(Idle, PricedIds)
      BY DEF GateOK, Idle
    <2> QED BY <1>3, <1>8, <2>1 DEF GateEnd, tables
  <1>9. ASSUME NEW g \in Gates, NEW t \in Subscribers, ListAssignment(g, t)
        PROVE  GatesOK'
    <2> DEFINE x == [pc |-> "listing", tenant |-> t, plan |-> assignment[t]]
    <2>1. GateOK(x, PricedIds)
      BY DEF GateOK
    <2> HIDE DEF x
    <2> QED BY <1>3, <1>9, <2>1 DEF ListAssignment, x, tables
  <1>10. ASSUME NEW g \in Gates, ListPlanModels(g)
         PROVE  GatesOK'
    <2> DEFINE x == [pc |-> "pricing", tenant |-> gate[g].tenant, plan |-> gate[g].plan,
                     models |-> planModels[gate[g].plan]]
    <2>1. GateOK(x, PricedIds)
      BY DEF GateOK
    <2> HIDE DEF x
    <2> QED BY <1>3, <1>10, <2>1 DEF ListPlanModels, x, tables
  <1>11. ASSUME NEW g \in Gates, ListPriced(g)
         PROVE  GatesOK'
    <2> DEFINE x == [pc |-> "listed", tenant |-> gate[g].tenant, plan |-> gate[g].plan,
                     models |-> gate[g].models, priced |-> PricedIds]
    <2>1. x.pc = "listed" /\ x.priced = PricedIds
      OBVIOUS
    <2>2. gate' = [gate EXCEPT ![g] = x] /\ sku' = sku
      BY <1>11 DEF ListPriced, tables
    <2> HIDE DEF x
    <2>3. GateOK(x, PricedIds)
      BY <2>1 DEF GateOK
    <2> QED BY <1>3, <2>2, <2>3
  <1>12. CASE GateStep
    BY <1>4, <1>5, <1>6, <1>7, <1>8, <1>9, <1>10, <1>11, <1>12 DEF GateStep
  <1>13. CASE ApiStart
    BY <1>2, <1>13 DEF ApiStart, HasPromptPer1M, HasCompletionPer1M, HasLegacyPer1K, CreateSKUs,
       AddColumn, CopyQuotas, Convert, SeedPrice, SeedPlan, SeedCount, SeedAssign, Serve, ApiCrash
  <1>14. CASE ApiRequest
    BY <1>2, <1>14 DEF ApiRequest, PlanLock, PlanClear, PlanCommit, PlanRollback,
       UpsertSKU, SetTenantPlan, CreateTenant
  <1> QED BY <1>2, <1>12, <1>13, <1>14 DEF CatalogueNext, catalogueVars

-----------------------------------------------------------------------------
(* Catalogue: the theorems. *)

\* The invariant of the catalogue holds however API processes start, race and
\* die (Server.Migrate takes no lock).
THEOREM CatalogueInvariant == CatalogueSpec => []CatalogueInv
  <1>1. CatalogueInv /\ [CatalogueNext]_catalogueVars => CatalogueInv'
    <2> SUFFICES ASSUME CatalogueInv, [CatalogueNext]_catalogueVars PROVE CatalogueInv'
      OBVIOUS
    <2> QED BY StartsKeep, DeskKeeps, PlansKeeps, AssignedKeeps, SkusKeep, PricesKeep, GatesKeep
            DEF CatalogueInv
  <1> QED BY CatalogueInitKeeps, <1>1, PTL DEF CatalogueSpec

\* Rows are well formed, and no tenant is on a plan that does not exist
\* (SetTenantPlanTx looks the plan up, and plans are never deleted).
THEOREM CatalogueWellFormed == CatalogueSpec => []CatalogueTypeOK
  <1>1. CatalogueInv => CatalogueTypeOK
    <2> SUFFICES ASSUME CatalogueInv PROVE CatalogueTypeOK
      OBVIOUS
    <2>1. /\ registered \in SUBSET Subscribers
          /\ \A t \in Subscribers : assignment[t] # None =>
                assignment[t] \in Plans /\ plan[assignment[t]] # None
      BY DEF CatalogueInv, AssignedOK
    <2>2. columns \subseteq Columns /\ api \in [Apis -> Starts]
      BY DEF CatalogueInv, StartsOK
    <2>3. \A a \in Apis : api[a].missing \subseteq Sides /\ api[a].listed \subseteq Subscribers
      BY <2>2 DEF Starts
    <2>4. /\ \A p \in Plans : planModels[p] \subseteq Ids
          /\ \A id \in Ids : sku[id] # None => sku[id] \in SkuRows
      BY DEF CatalogueInv, PlansOK, SkusOK
    <2>5. desk \in [Callers -> {None} \cup Desks]
      BY DEF CatalogueInv, DeskOK
    <2>6. \A g \in Gates : gate[g].pc \in
            {"idle", "assigned", "allowed", "admitted", "settled", "unpriced",
             "listing", "pricing", "listed"}
      BY DEF CatalogueInv, GatesOK, GateOK
    <2> QED BY <2>1, <2>2, <2>3, <2>4, <2>5, <2>6 DEF CatalogueTypeOK, Desks
  <1> QED BY CatalogueInvariant, <1>1, PTL

\* A plan has the terms and the models of one request (CreatePlan, the PUT of a plan).
THEOREM PlansAreWhole == CatalogueSpec => []PlanIsOneRequests
  <1>1. CatalogueInv => PlanIsOneRequests
    BY DEF CatalogueInv, PlansOK
  <1> QED BY CatalogueInvariant, <1>1, PTL

\* Whatever API processes start and die, and however Migrate's conversion races
\* prices set through another of them, a price is the one last given, or zero or
\* in whole thousands in the two cases the history tells.
THEOREM PricesAreMeant == CatalogueSpec => []PriceIsMeant
  <1>1. CatalogueInv => PriceIsMeant
    BY DEF CatalogueInv, PricesOK, SideOK, PriceIsMeant
  <1> QED BY CatalogueInvariant, <1>1, PTL

\* What CheckAllowance admits PriceUsage can price, by the best row, with a
\* started micro charged in full.
THEOREM AdmissionsArePriced == CatalogueSpec => []AdmittedIsPriced
  <1>1. CatalogueInv => AdmittedIsPriced
    <2> SUFFICES ASSUME CatalogueInv, NEW g \in Gates
                 PROVE  /\ gate[g].pc # "unpriced"
                        /\ gate[g].pc = "settled" => SettledWell(gate[g])
      BY DEF AdmittedIsPriced, SettledWell, Rank
    <2> QED BY DEF CatalogueInv, GatesOK, GateOK
  <1> QED BY CatalogueInvariant, <1>1, PTL

\* What a listing (FilterListModels) shows is what CheckAllowance admits, however
\* prices are added between and after its reads, but for bare ids that are
\* served by another provider than their owner or the answer's only provider.
THEOREM ListingIsAdmission == CatalogueSpec => []ListedIsServed
  <1>1. CatalogueInv => ListedIsServed
    <2> SUFFICES ASSUME CatalogueInv, NEW g \in Gates, gate[g].pc = "listed",
                        planModels[gate[g].plan] = gate[g].models,
                        NEW id \in Ids \ {Star}, NEW ownedBy, NEW hint, NEW provider,
                        Len(id) >= 3 => id[1] # id[2]
                 PROVE  LET x == gate[g]
                            now == [models |-> planModels[x.plan], priced |-> PricedIds]
                            shown == allowedModel(x, id, ownedBy, hint)
                            via == listedProvider(id, ownedBy, hint)
                            served == IF Len(id) >= 2 THEN canonicalSKU(id[1], Tail(id))
                                                      ELSE canonicalSKU(provider, id)
                            Differs(other) ==
                                /\ Len(id) = 1 /\ via # provider /\ other # None
                                /\ <<other>> \o id \in now.models \cup now.priced
                        IN  /\ shown => Allows(now, served) \/ Differs(via)
                            /\ Allows(now, served) /\ x.priced = now.priced
                                 => shown \/ Differs(provider)
      BY DEF ListedIsServed
    <2> DEFINE x == gate[g]
               now == [models |-> planModels[x.plan], priced |-> PricedIds]
    <2>1. now.models = x.models /\ x.priced \subseteq now.priced
      BY DEF CatalogueInv, GatesOK, GateOK
    <2> HIDE DEF x, now
    <2>2. Len(id) \in Nat /\ (Len(id) = 1 \/ Len(id) >= 2)
      BY IdShape
    <2>3. CASE Len(id) >= 2
      BY <2>1, <2>3, QualifiedListing DEF x, now
    <2>4. CASE Len(id) = 1
      BY <2>1, <2>4, BareListing DEF x, now
    <2> QED BY <2>2, <2>3, <2>4
  <1> QED BY CatalogueInvariant, <1>1, PTL

-----------------------------------------------------------------------------
(* The billing store as a whole. *)

\* The three parts share no variable.  However they are worked on, together or
\* one at a time, the ledger, the accounts, the plans and the open transactions
\* stay well formed: no balance is negative and no tenant is on a plan that does
\* not exist (billing.go's tables).
THEOREM StoreWellFormed ==
    ReservationsSpec /\ InvoicingSpec /\ CatalogueSpec => []BillingTypeOK
<1>1. ReservationsTypeOK /\ InvoicingTypeOK /\ CatalogueTypeOK => BillingTypeOK
  BY DEF BillingTypeOK
<1>2. QED
  BY <1>1, AccountsWellFormed, LedgerWellFormed, CatalogueWellFormed, PTL

\* What TLC explores of the store, one part at a time, is a behaviour of all
\* three: PartSpec only bounds them.
LEMMA PartsStandAlone == PartSpec => ReservationsSpec /\ InvoicingSpec /\ CatalogueSpec
<1>1. PartInit => ReservationsInit /\ InvoicingInit /\ CatalogueInit
  BY DEF PartInit
<1>2. [PartNext]_<<reservationsVars, invoicingVars, catalogueVars, part>> =>
          /\ [ReservationsNext]_reservationsVars
          /\ [InvoicingNext]_invoicingVars
          /\ [CatalogueNext]_catalogueVars
  BY DEF PartNext
<1>3. QED
  BY <1>1, <1>2, PTL DEF PartSpec, ReservationsSpec, InvoicingSpec, CatalogueSpec

===============================================================================
