---------------------------- MODULE Billing_proofs ----------------------------
(***************************************************************************)
(* What holds of the money for any tenants, callers, keys, attempts and    *)
(* amounts.                                                                *)
(*                                                                         *)
(*   Sums           what a sum over a finite set of rows satisfies;        *)
(*   Reservations   rows are well formed, no account owes more than it     *)
(*                  holds, a reservation ends once, and the books balance; *)
(*   Invoicing      no request is billed twice, an invoice is final, and   *)
(*                  its totals are the sums of the rows it bills;          *)
(*   UsageMetering  no charge is counted twice, spent credit stays closed  *)
(*                  and overspend is bounded by what is in flight.         *)
(*                                                                         *)
(* The induction over finite sets is by a minimal counterexample: the sets *)
(* for which a claim about a sum fails would have a minimal member         *)
(* (MinimalSet), and one row less is a smaller one.                        *)
(***************************************************************************)
EXTENDS Reservations, Invoicing, UsageMetering, FiniteSetTheorems, WellFoundedInduction, TLAPS

-----------------------------------------------------------------------------
(* Sums: what MapThenSumSet computes.                                       *)

\* The element MapThenSumSet takes next.
Pick(s) == CHOOSE x \in s : TRUE

\* A function that sums f over every subset of S, element by element.
Adds(g, f, S) ==
  g = [s \in SUBSET S |-> IF s = {} THEN 0 ELSE f[Pick(s)] + g[s \ {Pick(s)}]]

\* Induction over finite sets: a nonempty collection has a minimal member.
LEMMA MinimalSet ==
  ASSUME NEW D, IsFiniteSet(D), NEW T, T \subseteq SUBSET D, T # {}
  PROVE  \E s \in T : \A u \in T : u \subseteq s => u = s
<1>1. T \subseteq FiniteSubsetsOf(D)
  BY FS_Subset DEF FiniteSubsetsOf
<1>2. PICK s \in T : \A u \in T : ~(<<u, s>> \in StrictSubsetOrdering(D))
  BY <1>1, FS_StrictSubsetOrderingWellFounded, WFMin
<1>3. QED BY <1>2 DEF StrictSubsetOrdering

\* The numbers have the same property.
LEMMA LeastNumber ==
  ASSUME NEW T, T \subseteq Nat, T # {}
  PROVE  \E m \in T : \A n \in T : m <= n
<1> DEFINE Less == {p \in Nat \X Nat : p[1] < p[2]}
<1>1. IsWellFoundedOn(Less, Nat)
  BY NatLessThanWellFounded DEF OpToRel
<1>2. PICK m \in T : \A n \in T : ~(<<n, m>> \in Less)
  <2> HIDE DEF Less
  <2> QED BY <1>1, WFMin
<1>3. \A n \in T : ~(n < m)
  BY <1>2
<1>4. QED BY <1>3

LEMMA PickIn ==
  ASSUME NEW s, s # {}
  PROVE  Pick(s) \in s
  BY DEF Pick

LEMMA SumIsFold ==
  ASSUME NEW f, NEW S
  PROVE  SumOver(f, S) = (CHOOSE g : Adds(g, f, S))[S]
  BY DEF SumOver, MapThenSumSet, MapThenFoldSet, Adds, Pick

\* There is such a function: extend it from the sets of at most n elements to
\* those of n + 1.
LEMMA AdderExists ==
  ASSUME NEW f, NEW S, IsFiniteSet(S)
  PROVE  \E g : Adds(g, f, S)
<1> DEFINE Upto(n) == {s \in SUBSET S : Cardinality(s) <= n}
           Unfold(g, s) == IF s = {} THEN 0 ELSE f[Pick(s)] + g[s \ {Pick(s)}]
           Found(n) == \E g : g = [s \in Upto(n) |-> Unfold(g, s)]
           Bad == {n \in Nat : ~Found(n)}
<1>1. \A s \in SUBSET S : IsFiniteSet(s) /\ Cardinality(s) \in Nat
  BY FS_Subset, FS_CardinalityType
<1>2. \A n \in Nat : Found(n)
  <2> SUFFICES ASSUME Bad # {} PROVE FALSE
    OBVIOUS
  <2>1. PICK n \in Bad : \A m \in Bad : n <= m
    <3> HIDE DEF Bad
    <3>1. Bad \subseteq Nat BY DEF Bad
    <3>2. QED BY <3>1, LeastNumber
  <2>2. CASE n = 0
    <3>1. \A s \in Upto(0) : s = {}
      BY <1>1, FS_EmptySet
    <3>2. [s \in Upto(0) |-> 0] = [s \in Upto(0) |-> Unfold([r \in Upto(0) |-> 0], s)]
      BY <3>1
    <3>3. Found(0)
      BY <3>2
    <3>4. QED BY <2>1, <2>2, <3>3
  <2>3. CASE n # 0
    <3>1. n - 1 \in Nat /\ n - 1 \notin Bad
      <4>1. n \in Nat
        BY <2>1
      <4> HIDE DEF Bad
      <4>2. QED BY <2>1, <2>3, <4>1
    <3>2. PICK g : g = [s \in Upto(n - 1) |-> Unfold(g, s)]
      BY <3>1
    <3> DEFINE h == [s \in Upto(n) |-> Unfold(g, s)]
    <3>3. \A s \in Upto(n) : s # {} => s \ {Pick(s)} \in Upto(n - 1)
      <4> SUFFICES ASSUME NEW s \in Upto(n), s # {}
                   PROVE  s \ {Pick(s)} \in Upto(n - 1)
        OBVIOUS
      <4>1. Cardinality(s \ {Pick(s)}) = Cardinality(s) - 1
        BY <1>1, PickIn, FS_RemoveElement
      <4>2. QED BY <1>1, <2>1, <4>1
    <3>4. \A s \in Upto(n - 1) : s \in Upto(n) /\ h[s] = g[s]
      <4> SUFFICES ASSUME NEW s \in Upto(n - 1) PROVE s \in Upto(n) /\ h[s] = g[s]
        OBVIOUS
      <4>1. s \in Upto(n)
        BY <1>1, <2>1
      <4>2. g[s] = Unfold(g, s)
        BY <3>2
      <4>3. QED BY <4>1, <4>2
    <3>5. \A s \in Upto(n) : h[s] = Unfold(h, s)
      <4> SUFFICES ASSUME NEW s \in Upto(n) PROVE h[s] = Unfold(h, s)
        OBVIOUS
      <4>1. h[s] = Unfold(g, s)
        OBVIOUS
      <4>2. s # {} => h[s \ {Pick(s)}] = g[s \ {Pick(s)}]
        BY <3>3, <3>4
      <4> HIDE DEF h
      <4>3. QED BY <4>1, <4>2
    <3>6. h = [s \in Upto(n) |-> Unfold(h, s)]
      BY <3>5
    <3>7. Found(n)
      <4> HIDE DEF h
      <4> QED BY <3>6
    <3>8. QED BY <2>1, <3>7
  <2>4. QED BY <2>2, <2>3
<1>3. Cardinality(S) \in Nat /\ Upto(Cardinality(S)) = SUBSET S
  BY FS_Subset, FS_CardinalityType
<1>4. QED BY <1>2, <1>3 DEF Adds

LEMMA AdderAdds ==
  ASSUME NEW f, NEW S, IsFiniteSet(S)
  PROVE  \E g : Adds(g, f, S) /\ SumOver(f, S) = g[S]
<1>1. Adds(CHOOSE g : Adds(g, f, S), f, S)
  BY AdderExists
<1>2. QED BY <1>1, SumIsFold

\* Two functions that add f agree where both are defined, although they were
\* built for different sets.
LEMMA AddersAgree ==
  ASSUME NEW f, NEW S, NEW V \in SUBSET S, IsFiniteSet(S),
         NEW g, Adds(g, f, S), NEW h, Adds(h, f, V)
  PROVE  \A s \in SUBSET V : g[s] = h[s]
<1> DEFINE Bad == {s \in SUBSET V : g[s] # h[s]}
<1> SUFFICES ASSUME Bad # {} PROVE FALSE
  OBVIOUS
<1>1. PICK s \in Bad : \A u \in Bad : u \subseteq s => u = s
  <2>1. Bad \subseteq SUBSET S
    OBVIOUS
  <2> HIDE DEF Bad
  <2>2. QED BY <2>1, MinimalSet
<1>2. s \in SUBSET V /\ s \in SUBSET S /\ g[s] # h[s]
  BY <1>1
<1>3. CASE s = {}
  BY <1>2, <1>3 DEF Adds
<1>4. CASE s # {}
  <2>1. s \ {Pick(s)} \in SUBSET V /\ s \ {Pick(s)} # s
    BY <1>2, <1>4, PickIn
  <2>2. g[s \ {Pick(s)}] = h[s \ {Pick(s)}]
    BY <1>1, <2>1
  <2>3. g[s] = f[Pick(s)] + g[s \ {Pick(s)}]
    BY <1>2, <1>4 DEF Adds
  <2>4. h[s] = f[Pick(s)] + h[s \ {Pick(s)}]
    BY <1>2, <1>4 DEF Adds
  <2>5. QED BY <1>2, <2>2, <2>3, <2>4
<1>5. QED BY <1>3, <1>4

LEMMA SumUnfolds ==
  ASSUME NEW f, NEW S, IsFiniteSet(S)
  PROVE  SumOver(f, S) = IF S = {} THEN 0
                         ELSE f[Pick(S)] + SumOver(f, S \ {Pick(S)})
<1> DEFINE V == S \ {Pick(S)}
<1>1. PICK g : Adds(g, f, S) /\ SumOver(f, S) = g[S]
  BY AdderAdds
<1>2. IsFiniteSet(V) /\ V \in SUBSET S
  BY FS_Subset
<1>3. PICK h : Adds(h, f, V) /\ SumOver(f, V) = h[V]
  <2> HIDE DEF V
  <2> QED BY <1>2, AdderAdds
<1>4. g[V] = h[V]
  <2> HIDE DEF V
  <2> QED BY <1>1, <1>2, <1>3, AddersAgree
<1>5. g[S] = IF S = {} THEN 0 ELSE f[Pick(S)] + g[V]
  BY <1>1 DEF Adds
<1>6. QED BY <1>1, <1>3, <1>4, <1>5

-----------------------------------------------------------------------------
(* Sums: what a sum of natural numbers satisfies.                           *)

\* The sum over no rows is zero.
LEMMA SumEmpty ==
  ASSUME NEW f
  PROVE  SumOver(f, {}) = 0
  BY SumUnfolds, FS_EmptySet

\* A sum of natural numbers is one.
LEMMA SumType ==
  ASSUME NEW S, IsFiniteSet(S), NEW f, \A x \in S : f[x] \in Nat
  PROVE  SumOver(f, S) \in Nat
<1> DEFINE Bad == {s \in SUBSET S : SumOver(f, s) \notin Nat}
<1> SUFFICES ASSUME Bad # {} PROVE FALSE
  OBVIOUS
<1>1. PICK s \in Bad : \A u \in Bad : u \subseteq s => u = s
  <2> HIDE DEF Bad
  <2>1. Bad \subseteq SUBSET S
    BY DEF Bad
  <2>2. QED BY <2>1, MinimalSet
<1>2. s \in SUBSET S /\ SumOver(f, s) \notin Nat /\ IsFiniteSet(s)
  BY <1>1, FS_Subset
<1>3. s # {}
  BY <1>2, SumEmpty
<1>4. Pick(s) \in s /\ s \ {Pick(s)} \in SUBSET S /\ s \ {Pick(s)} # s
  BY <1>2, <1>3, PickIn
<1>5. SumOver(f, s \ {Pick(s)}) \in Nat
  BY <1>1, <1>4
<1>6. SumOver(f, s) = f[Pick(s)] + SumOver(f, s \ {Pick(s)})
  BY <1>2, <1>3, SumUnfolds
<1>7. QED BY <1>2, <1>4, <1>5, <1>6

\* Any row may be taken out first.
LEMMA SumRemove ==
  ASSUME NEW S, IsFiniteSet(S), NEW f, \A x \in S : f[x] \in Nat, NEW y \in S
  PROVE  SumOver(f, S) = f[y] + SumOver(f, S \ {y})
<1> DEFINE Bad == {s \in SUBSET S : \E x \in s : SumOver(f, s) # f[x] + SumOver(f, s \ {x})}
<1> SUFFICES ASSUME Bad # {} PROVE FALSE
  OBVIOUS
<1>1. PICK s \in Bad : \A u \in Bad : u \subseteq s => u = s
  <2> HIDE DEF Bad
  <2>1. Bad \subseteq SUBSET S
    BY DEF Bad
  <2>2. QED BY <2>1, MinimalSet
<1>2. PICK x \in s : SumOver(f, s) # f[x] + SumOver(f, s \ {x})
  BY <1>1
<1>3. s \in SUBSET S /\ s # {}
  BY <1>1, <1>2
<1> DEFINE p == Pick(s)
<1>4. p \in s /\ SumOver(f, s) = f[p] + SumOver(f, s \ {p})
  BY <1>3, PickIn, SumUnfolds, FS_Subset
<1>5. p # x
  BY <1>2, <1>4
<1> HIDE DEF p
<1>6. /\ SumOver(f, s \ {p}) = f[x] + SumOver(f, (s \ {p}) \ {x})
      /\ SumOver(f, s \ {x}) = f[p] + SumOver(f, (s \ {x}) \ {p})
  <2>1. /\ s \ {p} \in SUBSET S /\ s \ {p} # s /\ x \in s \ {p}
        /\ s \ {x} \in SUBSET S /\ s \ {x} # s /\ p \in s \ {x}
    BY <1>2, <1>3, <1>4, <1>5
  <2>2. s \ {p} \notin Bad /\ s \ {x} \notin Bad
    <3> HIDE DEF Bad
    <3> QED BY <1>1, <2>1
  <2>3. QED BY <2>1, <2>2
<1>7. (s \ {p}) \ {x} = (s \ {x}) \ {p}
  OBVIOUS
<1>8. SumOver(f, (s \ {p}) \ {x}) \in Nat /\ f[x] \in Nat /\ f[p] \in Nat
  BY <1>2, <1>3, <1>4, SumType, FS_Subset
<1>9. QED BY <1>2, <1>4, <1>6, <1>7, <1>8

\* A row more adds its amount.
LEMMA SumAdd ==
  ASSUME NEW S, IsFiniteSet(S), NEW y, y \notin S, NEW f,
         \A x \in S \union {y} : f[x] \in Nat
  PROVE  SumOver(f, S \union {y}) = f[y] + SumOver(f, S)
<1>1. IsFiniteSet(S \union {y}) /\ y \in S \union {y} /\ (S \union {y}) \ {y} = S
  BY FS_AddElement
<1>2. QED BY <1>1, SumRemove

\* A sum depends on the amounts of its rows alone.
LEMMA SumEqual ==
  ASSUME NEW S, IsFiniteSet(S), NEW f, NEW g, \A x \in S : f[x] = g[x]
  PROVE  SumOver(f, S) = SumOver(g, S)
<1> DEFINE Bad == {s \in SUBSET S : SumOver(f, s) # SumOver(g, s)}
<1> SUFFICES ASSUME Bad # {} PROVE FALSE
  OBVIOUS
<1>1. PICK s \in Bad : \A u \in Bad : u \subseteq s => u = s
  <2> HIDE DEF Bad
  <2>1. Bad \subseteq SUBSET S
    BY DEF Bad
  <2>2. QED BY <2>1, MinimalSet
<1>2. s \in SUBSET S /\ SumOver(f, s) # SumOver(g, s) /\ IsFiniteSet(s)
  BY <1>1, FS_Subset
<1>3. s # {}
  BY <1>2, SumEmpty
<1>4. Pick(s) \in s /\ s \ {Pick(s)} \in SUBSET S /\ s \ {Pick(s)} # s
  BY <1>2, <1>3, PickIn
<1>5. SumOver(f, s \ {Pick(s)}) = SumOver(g, s \ {Pick(s)}) /\ f[Pick(s)] = g[Pick(s)]
  BY <1>1, <1>2, <1>4
<1>6. /\ SumOver(f, s) = f[Pick(s)] + SumOver(f, s \ {Pick(s)})
      /\ SumOver(g, s) = g[Pick(s)] + SumOver(g, s \ {Pick(s)})
  BY <1>2, <1>3, SumUnfolds
<1>7. QED BY <1>2, <1>5, <1>6

\* Rows that a set has over another and that are worth nothing do not make its
\* sum larger.
LEMMA SumCovered ==
  ASSUME NEW S, IsFiniteSet(S), NEW T, IsFiniteSet(T), NEW f,
         \A x \in S \union T : f[x] \in Nat, \A x \in S \ T : f[x] = 0
  PROVE  SumOver(f, S) <= SumOver(f, T)
<1> DEFINE Bad == {s \in SUBSET S :
                     \E t \in SUBSET T : s \cap T \subseteq t
                                         /\ ~(SumOver(f, s) <= SumOver(f, t))}
<1> SUFFICES ASSUME Bad # {} PROVE FALSE
  OBVIOUS
<1>1. PICK s \in Bad : \A u \in Bad : u \subseteq s => u = s
  <2> HIDE DEF Bad
  <2>1. Bad \subseteq SUBSET S
    BY DEF Bad
  <2>2. QED BY <2>1, MinimalSet
<1>2. PICK t \in SUBSET T : s \cap T \subseteq t /\ ~(SumOver(f, s) <= SumOver(f, t))
  BY <1>1
<1>3. s \in SUBSET S /\ IsFiniteSet(s) /\ IsFiniteSet(t)
  BY <1>1, FS_Subset
<1>4. SumOver(f, s) \in Nat /\ SumOver(f, t) \in Nat
  BY <1>3, SumType
<1>5. s # {}
  BY <1>2, <1>4, SumEmpty
<1>6. PICK x \in s : TRUE
  BY <1>5
<1>7. s \ {x} \in SUBSET S /\ s \ {x} # s /\ s \ {x} \notin Bad
  <2>1. s \ {x} \in SUBSET S /\ s \ {x} # s /\ s \ {x} \subseteq s
    BY <1>3, <1>6
  <2> HIDE DEF Bad
  <2>2. QED BY <1>1, <2>1
<1>8. SumOver(f, s) = f[x] + SumOver(f, s \ {x}) /\ f[x] \in Nat
  BY <1>3, SumRemove
<1>9. SumOver(f, s \ {x}) \in Nat
  BY <1>3, SumType, FS_Subset
<1>10. CASE x \in T
  <2>1. x \in t /\ t \ {x} \in SUBSET T /\ (s \ {x}) \cap T \subseteq t \ {x}
    BY <1>2, <1>6, <1>10
  <2>2. SumOver(f, s \ {x}) <= SumOver(f, t \ {x})
    BY <1>7, <2>1
  <2>3. SumOver(f, t) = f[x] + SumOver(f, t \ {x})
    BY <1>3, <2>1, SumRemove
  <2>4. SumOver(f, t \ {x}) \in Nat
    BY <1>3, SumType, FS_Subset
  <2>5. QED BY <1>2, <1>8, <1>9, <2>2, <2>3, <2>4
<1>11. CASE x \notin T
  <2>1. f[x] = 0 /\ (s \ {x}) \cap T \subseteq t
    BY <1>2, <1>3, <1>11
  <2>2. SumOver(f, s \ {x}) <= SumOver(f, t)
    BY <1>7, <2>1
  <2>3. QED BY <1>2, <1>8, <1>9, <2>1, <2>2
<1>12. QED BY <1>10, <1>11

-----------------------------------------------------------------------------
(* Reservations: the inductive invariant, what the row locks buy. *)

\* Transaction c is a Capture or a Release, and holds its reservation row.
Ending(c) == claim[c] # None /\ claim[c].to \in Ends

\* What a transaction saw of the account it locked is what the account still
\* is, and it covers the transaction.
SeenIsCurrent ==
    \A c \in Callers : At(c, "ready") =>
        /\ account[claim[c].tenant] # None
        /\ claim[c].seen = account[claim[c].tenant]
        /\ Covers(claim[c].seen, claim[c])

\* FOR UPDATE on an account admits one transaction.
AccountHeldOnce ==
    \A c, d \in Callers :
        At(c, "ready") /\ At(d, "ready") /\ claim[c].tenant = claim[d].tenant => c = d

\* A transaction that will end a reservation works on an open one.
EndingIsOpen ==
    \A c \in Callers : Ending(c) =>
        /\ reservation[claim[c].key] # None
        /\ reservation[claim[c].key].status = "reserved"
        /\ reservation[claim[c].key].tenant = claim[c].tenant
        /\ reservation[claim[c].key].amount = claim[c].amount

\* FOR UPDATE on a reservation admits one transaction.
ReservationHeldOnce ==
    \A c, d \in Callers :
        Ending(c) /\ Ending(d) /\ claim[c].key = claim[d].key => c = d

ReservationsInv ==
    /\ ReservationsTypeOK
    /\ Solvent
    /\ SeenIsCurrent
    /\ AccountHeldOnce
    /\ EndingIsOpen
    /\ ReservationHeldOnce

-----------------------------------------------------------------------------
(* Reservations: what a transaction writes to the account. *)

\* A covered transaction leaves well-formed columns, and no more reserved than
\* there is: the guards of Reserve and of transitionReservation are enough.
LEMMA UpdateIsSound ==
    ASSUME NEW row \in Accounts, row.reserved <= row.balance,
           NEW x \in ClaimRecords, x.seen = row, Covers(row, x)
    PROVE  /\ Updated(row, x) \in Accounts
           /\ Updated(row, x).reserved <= Updated(row, x).balance
  <1>1. x.amount \in Nat /\ x.to \in {"reserved", "released", "captured"}
    BY ReservationConstants DEF ClaimRecords, Ends
  <1>2. row.balance \in Nat /\ row.reserved \in Nat
    BY DEF Accounts
  <1>3. CASE x.to = "reserved"
    BY <1>1, <1>2, <1>3 DEF Covers, Updated, Accounts
  <1>4. CASE x.to = "released"
    BY <1>1, <1>2, <1>4 DEF Covers, Updated, Accounts
  <1>5. CASE x.to = "captured"
    BY <1>1, <1>2, <1>5 DEF Covers, Updated, Accounts
  <1> QED BY <1>1, <1>3, <1>4, <1>5

-----------------------------------------------------------------------------
(* Reservations: one lemma per operation. *)

\* UpsertAccount waits for the account and leaves what is reserved covered.
LEMMA UpsertAccountKeeps ==
    ASSUME ReservationsInv, NEW t \in Tenants,
           NEW balance \in Balances, NEW reserved \in Balances,
           UpsertAccount(t, balance, reserved)
    PROVE  ReservationsInv'
  <1> DEFINE row == [balance |-> balance, reserved |-> reserved]
  <1>1. row \in Accounts /\ row.reserved <= row.balance
    BY ReservationConstants DEF UpsertAccount, Accounts
  <1>2. /\ account' = [account EXCEPT ![t] = row]
        /\ UNCHANGED <<reservation, claim>>
        /\ AccountFree(t)
    BY DEF UpsertAccount
  <1>3. ReservationsTypeOK'
    <2>1. booked' \in [Tenants -> Bookings \cup {None}]
      <3>1. Claims(t, "reserved") \in SUBSET Keys /\ Claims(t, "captured") \in SUBSET Keys
        BY DEF Claims
      <3>2. booked' = [booked EXCEPT ![t] =
                [row |-> row, open |-> Claims(t, "reserved"), captured |-> Claims(t, "captured")]]
        BY DEF UpsertAccount
      <3> QED BY <1>1, <3>1, <3>2 DEF ReservationsInv, ReservationsTypeOK, Bookings
    <2> QED BY <1>1, <1>2, <2>1 DEF ReservationsInv, ReservationsTypeOK
  <1>4. Solvent'
    BY <1>1, <1>2 DEF ReservationsInv, ReservationsTypeOK, Solvent
  <1>5. SeenIsCurrent'
    <2> SUFFICES ASSUME NEW c \in Callers, At(c, "ready")'
                 PROVE  /\ account'[claim'[c].tenant] # None
                        /\ claim'[c].seen = account'[claim'[c].tenant]
                        /\ Covers(claim[c].seen, claim[c])'
      BY DEF SeenIsCurrent
    <2>1. At(c, "ready") /\ claim[c].tenant # t
      BY <1>2 DEF At, AccountFree
    <2>2. account'[claim[c].tenant] = account[claim[c].tenant]
      BY <1>2, <2>1 DEF ReservationsInv, ReservationsTypeOK, At, ClaimRecords
    <2>3. Covers(claim[c].seen, claim[c])'
      BY <1>2, <2>1 DEF ReservationsInv, SeenIsCurrent, Covers
    <2> QED BY <1>2, <2>1, <2>2, <2>3 DEF ReservationsInv, SeenIsCurrent
  <1>6. AccountHeldOnce' /\ EndingIsOpen' /\ ReservationHeldOnce'
    BY <1>2 DEF ReservationsInv, AccountHeldOnce, EndingIsOpen, ReservationHeldOnce, At, Ending
  <1> QED BY <1>3, <1>4, <1>5, <1>6 DEF ReservationsInv

\* A step that only adds, ends or drops a transaction that has locked no
\* account keeps what the others saw.
LEMMA OpeningKeeps ==
    ASSUME ReservationsInv, NEW c \in Callers, NEW x \in ClaimRecords \cup {None},
           x # None => x.pc = "sought",
           x # None /\ x.to \in Ends =>
               /\ reservation[x.key] # None
               /\ reservation[x.key].status = "reserved"
               /\ reservation[x.key].tenant = x.tenant
               /\ reservation[x.key].amount = x.amount
               /\ ReservationFree(x.key),
           claim' = [claim EXCEPT ![c] = x],
           UNCHANGED <<account, reservation, booked>>
    PROVE  ReservationsInv'
  <1>1. ReservationsTypeOK'
    BY DEF ReservationsInv, ReservationsTypeOK
  <1>2. \A d \in Callers : claim'[d] = IF d = c THEN x ELSE claim[d]
    BY DEF ReservationsInv, ReservationsTypeOK
  <1>3. \A d \in Callers : At(d, "ready")' => d # c /\ At(d, "ready") /\ claim'[d] = claim[d]
    BY <1>2 DEF At
  <1>4. Solvent'
    BY DEF ReservationsInv, Solvent
  <1>5. SeenIsCurrent'
    BY <1>3 DEF ReservationsInv, SeenIsCurrent, Covers
  <1>6. AccountHeldOnce'
    BY <1>3 DEF ReservationsInv, AccountHeldOnce
  <1>7. EndingIsOpen'
    BY <1>2 DEF ReservationsInv, EndingIsOpen, Ending
  <1>8. ReservationHeldOnce'
    BY <1>2 DEF ReservationsInv, ReservationHeldOnce, Ending, ReservationFree
  <1> QED BY <1>1, <1>4, <1>5, <1>6, <1>7, <1>8 DEF ReservationsInv

\* Reserve's lookup of its key changes no row.
LEMMA ReserveBeginKeeps ==
    ASSUME ReservationsInv, NEW c \in Callers, NEW t \in Tenants, NEW k \in Keys,
           NEW amount \in Amounts, ReserveBegin(c, t, k, amount)
    PROVE  ReservationsInv'
  <1> DEFINE x == Opening("reserved", t, k, amount)
  <1>1. x \in ClaimRecords /\ x.pc = "sought" /\ x.to \notin Ends
    BY DEF Opening, ClaimRecords, Ends
  <1>2. claim' = [claim EXCEPT ![c] = x] /\ UNCHANGED <<account, reservation, booked>>
    BY DEF ReserveBegin
  <1> HIDE DEF x
  <1> QED BY <1>1, <1>2, OpeningKeeps

\* Capture and Release begin with the lock of an open reservation.
LEMMA TransitionBeginKeeps ==
    ASSUME ReservationsInv, NEW c \in Callers, NEW k \in Keys, NEW end \in Ends,
           TransitionBegin(c, k, end)
    PROVE  ReservationsInv'
  <1> DEFINE x == Opening(end, reservation[k].tenant, k, reservation[k].amount)
  <1>1. reservation[k] # None /\ reservation[k].status = "reserved" /\ ReservationFree(k)
    BY DEF TransitionBegin
  <1>2. reservation[k] \in ReservationRows
    BY <1>1 DEF ReservationsInv, ReservationsTypeOK
  <1>3. /\ x \in ClaimRecords /\ x.pc = "sought" /\ x.key = k
        /\ x.tenant = reservation[k].tenant /\ x.amount = reservation[k].amount
    BY <1>2 DEF Opening, ClaimRecords, ReservationRows, Ends
  <1>4. claim' = [claim EXCEPT ![c] = x] /\ UNCHANGED <<account, reservation, booked>>
    BY DEF TransitionBegin
  <1> HIDE DEF x
  <1> QED BY <1>1, <1>3, <1>4, OpeningKeeps

\* A rollback gives the locks back and writes nothing.
LEMMA ClaimRollbackKeeps ==
    ASSUME ReservationsInv, NEW c \in Callers, ClaimRollback(c)
    PROVE  ReservationsInv'
  <1>1. claim' = [claim EXCEPT ![c] = None] /\ UNCHANGED <<account, reservation, booked>>
    BY DEF ClaimRollback
  <1> QED BY <1>1, OpeningKeeps

\* The lock of the account row is taken by one transaction, which sees it as it is.
LEMMA LockAccountKeeps ==
    ASSUME ReservationsInv, NEW c \in Callers, LockAccount(c)
    PROVE  ReservationsInv'
  <1> DEFINE t == claim[c].tenant
             y == [claim[c] EXCEPT !.pc = "ready", !.seen = account[t]]
  <1>1. /\ claim[c] # None /\ account[t] # None
        /\ AccountFree(t) /\ Covers(account[t], claim[c])
        /\ UNCHANGED <<account, reservation, booked>>
    BY DEF LockAccount, At
  <1>2. claim[c] \in ClaimRecords
    BY <1>1 DEF ReservationsInv, ReservationsTypeOK
  <1>3. t \in Tenants /\ account[t] \in Accounts
    BY <1>1, <1>2 DEF ReservationsInv, ReservationsTypeOK, ClaimRecords
  <1>4. claim' = [claim EXCEPT ![c] = y]
    BY <1>2 DEF LockAccount, ReservationsInv, ReservationsTypeOK, ClaimRecords
  <1>5. /\ y \in ClaimRecords /\ y.tenant = t /\ y.seen = account[t]
        /\ y.to = claim[c].to /\ y.key = claim[c].key /\ y.amount = claim[c].amount
    BY <1>2, <1>3 DEF ClaimRecords
  <1>6. \A d \in Callers : claim'[d] = IF d = c THEN y ELSE claim[d]
    BY <1>4 DEF ReservationsInv, ReservationsTypeOK
  <1> HIDE DEF y
  <1>7. ReservationsTypeOK'
    BY <1>1, <1>4, <1>5 DEF ReservationsInv, ReservationsTypeOK
  <1>8. Solvent'
    BY <1>1 DEF ReservationsInv, Solvent
  <1>9. SeenIsCurrent'
    <2>1. Covers(y.seen, y)
      BY <1>1, <1>5 DEF Covers
    <2> QED BY <1>1, <1>3, <1>5, <1>6, <2>1 DEF ReservationsInv, SeenIsCurrent, At, Covers
  <1>10. AccountHeldOnce'
    BY <1>1, <1>5, <1>6 DEF ReservationsInv, AccountHeldOnce, At, AccountFree
  <1>11. EndingIsOpen' /\ ReservationHeldOnce'
    <2>1. \A d \in Callers : Ending(d)' => /\ Ending(d)
                                          /\ claim'[d].key = claim[d].key
                                          /\ claim'[d].tenant = claim[d].tenant
                                          /\ claim'[d].amount = claim[d].amount
      BY <1>1, <1>5, <1>6 DEF Ending
    <2> QED BY <1>1, <2>1 DEF ReservationsInv, EndingIsOpen, ReservationHeldOnce
  <1> QED BY <1>7, <1>8, <1>9, <1>10, <1>11 DEF ReservationsInv

\* The commit writes what the lock made safe: to the account what was reckoned
\* from its current row, and to a reservation that is absent or open.
LEMMA ClaimCommitKeeps ==
    ASSUME ReservationsInv, NEW c \in Callers, ClaimCommit(c)
    PROVE  ReservationsInv'
  <1> DEFINE x == claim[c]
             t == x.tenant
             new == [tenant |-> t, amount |-> x.amount, status |-> x.to]
  <1>1. /\ At(c, "ready") /\ x # None
        /\ x.to = "reserved" => reservation[x.key] = None
        /\ account' = [account EXCEPT ![t] = Updated(account[t], x)]
        /\ reservation' = [reservation EXCEPT ![x.key] = new]
        /\ claim' = [claim EXCEPT ![c] = None]
        /\ booked' = booked
    BY DEF ClaimCommit, At
  <1>2. x \in ClaimRecords /\ t \in Tenants /\ x.key \in Keys /\ new \in ReservationRows
    BY <1>1 DEF ReservationsInv, ReservationsTypeOK, ClaimRecords, ReservationRows
  <1>3. /\ account[t] # None /\ account[t] \in Accounts /\ x.seen = account[t]
        /\ Covers(account[t], x) /\ account[t].reserved <= account[t].balance
    BY <1>1, <1>2 DEF ReservationsInv, ReservationsTypeOK, SeenIsCurrent, Solvent
  <1>4. /\ Updated(account[t], x) \in Accounts
        /\ Updated(account[t], x).reserved <= Updated(account[t], x).balance
    BY <1>2, <1>3, UpdateIsSound
  <1>5. \A d \in Callers : claim'[d] # None => d # c /\ claim'[d] = claim[d]
    BY <1>1 DEF ReservationsInv, ReservationsTypeOK
  <1>6. ReservationsTypeOK'
    BY <1>1, <1>2, <1>4 DEF ReservationsInv, ReservationsTypeOK
  <1>7. Solvent'
    BY <1>1, <1>2, <1>4 DEF ReservationsInv, ReservationsTypeOK, Solvent
  <1>8. SeenIsCurrent'
    <2> SUFFICES ASSUME NEW d \in Callers, At(d, "ready")'
                 PROVE  /\ account'[claim'[d].tenant] # None
                        /\ claim'[d].seen = account'[claim'[d].tenant]
                        /\ Covers(claim[d].seen, claim[d])'
      BY DEF SeenIsCurrent
    <2>1. d # c /\ claim'[d] = claim[d] /\ At(d, "ready")
      BY <1>5 DEF At
    <2>2. claim[d].tenant \in Tenants /\ claim[d].tenant # t
      BY <1>1, <2>1 DEF ReservationsInv, ReservationsTypeOK, AccountHeldOnce, At, ClaimRecords
    <2>3. account'[claim[d].tenant] = account[claim[d].tenant]
      BY <1>1, <2>2 DEF ReservationsInv, ReservationsTypeOK
    <2>4. Covers(claim[d].seen, claim[d])'
      BY <2>1 DEF ReservationsInv, SeenIsCurrent, Covers
    <2> QED BY <2>1, <2>3, <2>4 DEF ReservationsInv, SeenIsCurrent
  <1>9. AccountHeldOnce' /\ ReservationHeldOnce'
    BY <1>5 DEF ReservationsInv, AccountHeldOnce, ReservationHeldOnce, At, Ending
  <1>10. EndingIsOpen'
    <2> SUFFICES ASSUME NEW d \in Callers, Ending(d)'
                 PROVE  /\ reservation'[claim'[d].key] # None
                        /\ reservation'[claim'[d].key].status = "reserved"
                        /\ reservation'[claim'[d].key].tenant = claim'[d].tenant
                        /\ reservation'[claim'[d].key].amount = claim'[d].amount
      BY DEF EndingIsOpen
    <2>1. d # c /\ claim'[d] = claim[d] /\ Ending(d)
      BY <1>5 DEF Ending
    <2>2. claim[d].key \in Keys
      BY <2>1 DEF ReservationsInv, ReservationsTypeOK, Ending, ClaimRecords
    <2>3. claim[d].key # x.key
      <3>1. CASE x.to = "reserved"
        BY <1>1, <2>1, <3>1 DEF ReservationsInv, EndingIsOpen
      <3>2. CASE x.to \in Ends
        BY <1>1, <2>1, <3>2 DEF ReservationsInv, ReservationHeldOnce, Ending
      <3> QED BY <1>2, <3>1, <3>2 DEF ClaimRecords
    <2>4. reservation'[claim[d].key] = reservation[claim[d].key]
      BY <1>1, <2>2, <2>3 DEF ReservationsInv, ReservationsTypeOK
    <2> QED BY <2>1, <2>4 DEF ReservationsInv, EndingIsOpen
  <1> QED BY <1>6, <1>7, <1>8, <1>9, <1>10 DEF ReservationsInv

\* Nothing is open and nobody has an account at the start.
LEMMA ReservationsInitKeeps == ReservationsInit => ReservationsInv
  BY DEF ReservationsInit, ReservationsInv, ReservationsTypeOK, Solvent, SeenIsCurrent,
         AccountHeldOnce, EndingIsOpen, ReservationHeldOnce, At, Ending

\* Every operation on accounts and reservations keeps the invariant.
LEMMA ReservationsStepKeeps ==
    ASSUME ReservationsInv, [ReservationsNext]_reservationsVars
    PROVE  ReservationsInv'
  <1>1. CASE ReservationsNext
    BY <1>1, UpsertAccountKeeps, ReserveBeginKeeps, TransitionBeginKeeps, LockAccountKeeps,
       ClaimCommitKeeps, ClaimRollbackKeeps DEF ReservationsNext
  <1>2. CASE UNCHANGED reservationsVars
    BY <1>2 DEF reservationsVars, ReservationsInv, ReservationsTypeOK, Solvent, SeenIsCurrent,
         AccountHeldOnce, EndingIsOpen, ReservationHeldOnce, At, Ending, Covers
  <1> QED BY <1>1, <1>2

-----------------------------------------------------------------------------
(* Reservations: the theorems. *)

\* The invariant of the row locks holds in every behaviour.
THEOREM LocksHold == ReservationsSpec => []ReservationsInv
  <1>1. ReservationsInv /\ [ReservationsNext]_reservationsVars => ReservationsInv'
    BY ReservationsStepKeeps
  <1> QED BY ReservationsInitKeeps, <1>1, PTL DEF ReservationsSpec

\* No balance and no reserved amount is ever negative, although UpsertAccount
\* may take away what open reservations had reserved.
THEOREM AccountsWellFormed == ReservationsSpec => []ReservationsTypeOK
  <1>1. ReservationsInv => ReservationsTypeOK
    BY DEF ReservationsInv
  <1> QED BY LocksHold, <1>1, PTL

\* However many callers reserve, capture, release and correct, no account has
\* more reserved than it holds.
THEOREM AccountsSolvent == ReservationsSpec => []Solvent
  <1>1. ReservationsInv => Solvent
    BY DEF ReservationsInv
  <1> QED BY LocksHold, <1>1, PTL

\* A captured or released reservation is never written again: no capture races
\* a release, and no retry of Reserve opens it anew.
EndsOnce ==
    \A k \in Keys :
        reservation[k] # None /\ reservation[k].status \in Ends => reservation'[k] = reservation[k]

\* Capture and Release end a reservation once, for good.
THEOREM ReservationEndsOnce == ReservationsSpec => [][EndsOnce]_reservationsVars
  <1>1. ASSUME ReservationsInv, [ReservationsNext]_reservationsVars
        PROVE  [EndsOnce]_reservationsVars
    <2> SUFFICES ASSUME ReservationsNext, NEW k \in Keys,
                        reservation[k] # None, reservation[k].status \in Ends
                 PROVE  reservation'[k] = reservation[k]
      BY <1>1 DEF EndsOnce
    <2>1. CASE reservation' = reservation
      BY <2>1
    <2>2. ASSUME NEW c \in Callers, ClaimCommit(c)
          PROVE  reservation'[k] = reservation[k]
      <3>1. /\ claim[c] # None
            /\ claim[c].to = "reserved" => reservation[claim[c].key] = None
            /\ reservation' = [reservation EXCEPT ![claim[c].key] =
                  [tenant |-> claim[c].tenant, amount |-> claim[c].amount, status |-> claim[c].to]]
        BY <2>2 DEF ClaimCommit, At
      <3>2. claim[c] \in ClaimRecords
        BY <1>1, <3>1 DEF ReservationsInv, ReservationsTypeOK
      <3>3. claim[c].key # k
        <4>1. CASE claim[c].to = "reserved"
          BY <3>1, <4>1
        <4>2. CASE claim[c].to \in Ends
          BY <1>1, <3>1, <4>2 DEF ReservationsInv, EndingIsOpen, Ending, Ends
        <4> QED BY <3>2, <4>1, <4>2 DEF ClaimRecords
      <3> QED BY <1>1, <3>1, <3>3 DEF ReservationsInv, ReservationsTypeOK
    <2> QED BY <2>1, <2>2 DEF ReservationsNext, UpsertAccount, ReserveBegin, TransitionBegin,
               LockAccount, ClaimRollback
  <1> QED BY LocksHold, <1>1, PTL DEF ReservationsSpec

-----------------------------------------------------------------------------
(* Reservations: transactions act at once. *)

\* A commit is the operation of AccountBook that its transaction set out to do,
\* on the rows as they are: what it saw is current, and what it ends is open.
LEMMA CommitActsAtOnce ==
    ASSUME ReservationsInv, NEW c \in Callers, ClaimCommit(c)
    PROVE  Book!Next
  <1> DEFINE x == claim[c]
             t == x.tenant
             k == x.key
  <1>1. /\ At(c, "ready") /\ x # None
        /\ x.to = "reserved" => reservation[k] = None
        /\ account' = [account EXCEPT ![t] = Updated(account[t], x)]
        /\ reservation' = [reservation EXCEPT ![k] =
              [tenant |-> t, amount |-> x.amount, status |-> x.to]]
    BY DEF ClaimCommit, At
  <1>2. /\ t \in Tenants /\ k \in Keys /\ x.amount \in Amounts /\ x.amount \in Nat
        /\ x.to \in {"reserved"} \cup Ends
    BY <1>1, ReservationConstants DEF ReservationsInv, ReservationsTypeOK, ClaimRecords
  <1>3. account[t] # None /\ account[t] \in Accounts /\ x.seen = account[t] /\ Covers(account[t], x)
    BY <1>1, <1>2 DEF ReservationsInv, ReservationsTypeOK, SeenIsCurrent
  <1>4. CASE x.to = "reserved"
    <2>1. Updated(account[t], x) = [account[t] EXCEPT !.reserved = account[t].reserved + x.amount]
      BY <1>3, <1>4 DEF Updated
    <2>2. account[t].reserved + x.amount <= account[t].balance
      BY <1>2, <1>3, <1>4 DEF Covers, Accounts
    <2>3. Book!Reserve(t, k, x.amount)
      BY <1>1, <1>3, <1>4, <2>1, <2>2 DEF Book!Reserve
    <2> QED BY <1>2, <2>3 DEF Book!Next
  <1>5. CASE x.to \in Ends
    <2>1. /\ reservation[k] # None /\ reservation[k] \in ReservationRows
          /\ reservation[k].status = "reserved"
          /\ reservation[k].tenant = t /\ reservation[k].amount = x.amount
      BY <1>1, <1>2, <1>5 DEF ReservationsInv, ReservationsTypeOK, EndingIsOpen, Ending
    <2>2. [reservation[k] EXCEPT !.status = x.to] =
            [tenant |-> t, amount |-> x.amount, status |-> x.to]
      BY <2>1 DEF ReservationRows
    <2>3. reservation' = [reservation EXCEPT ![k].status = x.to]
      BY <1>1, <2>2
    <2>4. x.amount <= account[t].reserved
      BY <1>2, <1>3, <1>5 DEF Covers, Accounts, Ends
    <2>5. Book!Covered(k)
      BY <1>3, <2>1, <2>4 DEF Book!Covered
    <2>6. CASE x.to = "released"
      <3>1. Updated(account[t], x) = [account[t] EXCEPT !.reserved = account[t].reserved - x.amount]
        BY <1>3, <2>6 DEF Updated
      <3>2. Book!Release(k)
        BY <1>1, <2>1, <2>3, <2>5, <2>6, <3>1 DEF Book!Release
      <3> QED BY <1>2, <3>2 DEF Book!Next
    <2>7. CASE x.to = "captured"
      <3>1. Updated(account[t], x) = [balance |-> account[t].balance - x.amount,
                                      reserved |-> account[t].reserved - x.amount]
        BY <1>3, <2>7 DEF Updated
      <3>2. Book!Capture(k)
        BY <1>1, <2>1, <2>3, <2>5, <2>7, <3>1 DEF Book!Capture
      <3> QED BY <1>2, <3>2 DEF Book!Next
    <2> QED BY <1>5, <2>6, <2>7 DEF Ends
  <1> QED BY <1>2, <1>4, <1>5

\* However transactions interleave, fail and are retried, accounts and
\* reservations change as if each transaction had run alone at its commit: the
\* store implements AccountBook.
THEOREM TransactionsActAtOnce == ReservationsSpec => ActsAtOnce
  <1>1. ReservationsInit => Book!Init
    BY DEF ReservationsInit, Book!Init
  <1>2. ASSUME ReservationsInv, [ReservationsNext]_reservationsVars
        PROVE  [Book!Next]_(Book!vars)
    <2>1. ASSUME NEW t \in Tenants, NEW balance \in Balances, NEW reserved \in Balances,
                 UpsertAccount(t, balance, reserved)
          PROVE  Book!Next
      <3>1. Book!Set(t, balance, reserved)
        BY <2>1 DEF UpsertAccount, Book!Set
      <3> QED BY <3>1 DEF Book!Next
    <2>2. ASSUME NEW c \in Callers, ClaimCommit(c)
          PROVE  Book!Next
      BY <1>2, <2>2, CommitActsAtOnce
    <2>3. CASE UNCHANGED <<account, reservation>>
      BY <2>3 DEF Book!vars
    <2> QED
      BY <1>2, <2>1, <2>2, <2>3 DEF ReservationsNext, ReserveBegin, TransitionBegin,
         LockAccount, ClaimRollback, reservationsVars
  <1> QED
    BY LocksHold, <1>1, <1>2, PTL DEF ReservationsSpec, ActsAtOnce, Book!Spec

\* What AccountBook keeps, with no lock in sight.
BookInv ==
    /\ account \in [Tenants -> Accounts \cup {None}]
    /\ reservation \in [Keys -> ReservationRows \cup {None}]
    /\ Solvent

LEMMA BookKeeps ==
    ASSUME BookInv, Book!Next
    PROVE  BookInv' /\ EndsOnce
  <1> USE DEF BookInv
  <1>1. ASSUME NEW t \in Tenants, NEW balance \in Balances, NEW reserved \in Balances,
               Book!Set(t, balance, reserved)
        PROVE  BookInv' /\ EndsOnce
    <2>1. [balance |-> balance, reserved |-> reserved] \in Accounts /\ reserved <= balance
      BY <1>1, ReservationConstants DEF Accounts, Book!Set
    <2> QED BY <1>1, <2>1 DEF Book!Set, Solvent, EndsOnce
  <1>2. ASSUME NEW t \in Tenants, NEW k \in Keys, NEW amount \in Amounts,
               Book!Reserve(t, k, amount)
        PROVE  BookInv' /\ EndsOnce
    <2> DEFINE new == [account[t] EXCEPT !.reserved = account[t].reserved + amount]
    <2>1. amount \in Nat /\ account[t] \in Accounts
      BY <1>2, ReservationConstants DEF Book!Reserve
    <2>2. new \in Accounts /\ new.reserved <= new.balance
      BY <1>2, <2>1 DEF Accounts, Book!Reserve
    <2>3. [tenant |-> t, amount |-> amount, status |-> "reserved"] \in ReservationRows
      BY DEF ReservationRows
    <2>4. account' = [account EXCEPT ![t] = new]
      BY <1>2 DEF Book!Reserve
    <2>5. /\ reservation[k] = None
          /\ reservation' = [reservation EXCEPT ![k] =
                [tenant |-> t, amount |-> amount, status |-> "reserved"]]
      BY <1>2 DEF Book!Reserve
    <2>6. BookInv'
      BY <2>2, <2>3, <2>4, <2>5 DEF Solvent
    <2>7. EndsOnce
      BY <2>5 DEF EndsOnce
    <2> QED BY <2>6, <2>7
  <1>3. ASSUME NEW k \in Keys, Book!Release(k) \/ Book!Capture(k)
        PROVE  BookInv' /\ EndsOnce
    <2> DEFINE x == reservation[k]
               t == x.tenant
    <2>1. /\ x \in ReservationRows /\ x.status = "reserved" /\ t \in Tenants
          /\ x.amount \in Nat /\ account[t] \in Accounts /\ account[t] # None
          /\ x.amount <= account[t].reserved /\ account[t].reserved <= account[t].balance
      BY <1>3, ReservationConstants
         DEF Book!Release, Book!Capture, Book!Covered, ReservationRows, Solvent
    <2>2. PICK new \in Accounts : /\ new.reserved <= new.balance
                                  /\ account' = [account EXCEPT ![t] = new]
      <3>1. CASE Book!Release(k)
        <4> DEFINE left == [account[t] EXCEPT !.reserved = account[t].reserved - x.amount]
        <4>1. left \in Accounts /\ left.reserved <= left.balance
          BY <2>1 DEF Accounts
        <4> QED BY <3>1, <4>1 DEF Book!Release
      <3>2. CASE Book!Capture(k)
        <4> DEFINE left == [balance |-> account[t].balance - x.amount,
                            reserved |-> account[t].reserved - x.amount]
        <4>1. left \in Accounts /\ left.reserved <= left.balance
          BY <2>1 DEF Accounts
        <4> QED BY <3>2, <4>1 DEF Book!Capture
      <3> QED BY <1>3, <3>1, <3>2
    <2>3. PICK end \in Ends : reservation' = [reservation EXCEPT ![k] = [x EXCEPT !.status = end]]
      BY <1>3 DEF Book!Release, Book!Capture, Ends
    <2>4. [x EXCEPT !.status = end] \in ReservationRows
      BY <2>1 DEF ReservationRows
    <2>5. BookInv'
      BY <2>1, <2>2, <2>3, <2>4 DEF Solvent
    <2>6. EndsOnce
      BY <2>1, <2>3 DEF EndsOnce, Ends
    <2> QED BY <2>5, <2>6
  <1> QED BY <1>1, <1>2, <1>3 DEF Book!Next

\* The promise is worth having: operations that act at once never reserve more
\* than an account holds, and end a reservation once.
THEOREM BookIsSolvent == ActsAtOnce => []Solvent /\ [][EndsOnce]_(Book!vars)
  <1>1. Book!Init => BookInv
    BY DEF Book!Init, BookInv, Solvent
  <1>2. BookInv /\ [Book!Next]_(Book!vars) => BookInv' /\ [EndsOnce]_(Book!vars)
    <2>1. BookInv /\ UNCHANGED Book!vars => BookInv'
      BY DEF Book!vars, BookInv, Solvent
    <2> QED BY <2>1, BookKeeps
  <1>3. BookInv => Solvent
    BY DEF BookInv
  <1> QED BY <1>1, <1>2, <1>3, PTL DEF ActsAtOnce, Book!Spec

-----------------------------------------------------------------------------
(* Reservations: the books balance. *)

\* What the keys of S hold in the table r.
TotalOf(r, S) == SumOver([k \in S |-> r[k].amount], S)

\* What UpsertAccount saw is still there: rows keep their tenant, and captured
\* ones their status.
BookingStands(t) ==
    /\ booked[t] \in Bookings
    /\ \A k \in booked[t].open : reservation[k] # None /\ reservation[k].tenant = t
    /\ booked[t].captured \subseteq Claims(t, "captured")

\* The balance of an account from its booking, its columns and its rows.
BooksAgree(row, then, r, open, captured) ==
    /\ row.reserved + TotalOf(r, then.open \ open) = then.row.reserved + TotalOf(r, open \ then.open)
    /\ row.balance + TotalOf(r, captured \ then.captured) = then.row.balance

BooksInv ==
    \A t \in Tenants : account[t] # None =>
        /\ BookingStands(t)
        /\ BooksAgree(account[t], booked[t], reservation,
                    Claims(t, "reserved"), Claims(t, "captured"))

LEMMA TotalType ==
    ASSUME NEW S \in SUBSET Keys, NEW r, \A k \in S : r[k].amount \in Nat
    PROVE  TotalOf(r, S) \in Nat
  <1> DEFINE f == [k \in S |-> r[k].amount]
  <1>1. IsFiniteSet(S) /\ \A k \in S : f[k] \in Nat
    BY FiniteReservations, FS_Subset
  <1>2. SumOver(f, S) \in Nat
    <2> HIDE DEF f
    <2> QED BY <1>1, SumType
  <1> QED BY <1>2 DEF TotalOf

LEMMA TotalEmpty ==
    ASSUME NEW r
    PROVE  TotalOf(r, {}) = 0
  BY SumEmpty DEF TotalOf

\* A total depends on the amounts of its rows alone.
LEMMA TotalSame ==
    ASSUME NEW S \in SUBSET Keys, NEW r, NEW q, \A k \in S : r[k].amount = q[k].amount
    PROVE  TotalOf(r, S) = TotalOf(q, S)
  <1> DEFINE f == [k \in S |-> r[k].amount]
             g == [k \in S |-> q[k].amount]
  <1>1. IsFiniteSet(S) /\ \A k \in S : f[k] = g[k]
    BY FiniteReservations, FS_Subset
  <1>2. SumOver(f, S) = SumOver(g, S)
    <2> HIDE DEF f, g
    <2> QED BY <1>1, SumEqual
  <1> QED BY <1>2 DEF TotalOf

LEMMA TotalAdd ==
    ASSUME NEW S \in SUBSET Keys, NEW y \in Keys, y \notin S, NEW r,
           \A k \in S \cup {y} : r[k].amount \in Nat
    PROVE  TotalOf(r, S \cup {y}) = r[y].amount + TotalOf(r, S)
  <1> DEFINE U == S \cup {y}
             f == [k \in U |-> r[k].amount]
             g == [k \in S |-> r[k].amount]
  <1>1. /\ IsFiniteSet(S)
        /\ \A k \in U : f[k] \in Nat
        /\ \A k \in S : f[k] = g[k]
        /\ f[y] = r[y].amount
    BY FiniteReservations, FS_Subset
  <1>2. SumOver(f, U) = f[y] + SumOver(f, S) /\ SumOver(f, S) = SumOver(g, S)
    <2> HIDE DEF f, g
    <2> QED BY <1>1, SumAdd, SumEqual
  <1> QED BY <1>1, <1>2 DEF TotalOf

\* What a covered transaction does to the columns.
LEMMA UpdatedColumns ==
    ASSUME NEW row \in Accounts, NEW x \in ClaimRecords, x.seen = row, Covers(row, x)
    PROVE  /\ x.to = "reserved" => /\ Updated(row, x).reserved = row.reserved + x.amount
                                   /\ Updated(row, x).balance = row.balance
           /\ x.to \in Ends => /\ Updated(row, x).reserved = row.reserved - x.amount
                               /\ row.reserved >= x.amount
           /\ x.to = "released" => Updated(row, x).balance = row.balance
           /\ x.to = "captured" => /\ Updated(row, x).balance = row.balance - x.amount
                                   /\ row.balance >= x.amount
  BY DEF Accounts, ClaimRecords, Ends, Covers, Updated

\* The commit moves the columns by the amount of the one row it moves.
LEMMA CommitBalances ==
    ASSUME NEW row \in Accounts, NEW x \in ClaimRecords, x.seen = row, Covers(row, x),
           NEW then \in Bookings, NEW r, NEW q,
           NEW open \in SUBSET Keys, NEW captured \in SUBSET Keys,
           \A k \in open \cup captured \cup then.open \cup {x.key} : q[k].amount \in Nat,
           \A k \in (open \cup captured \cup then.open) \ {x.key} : q[k].amount = r[k].amount,
           q[x.key].amount = x.amount,
           x.to = "reserved" => x.key \notin open \cup captured \cup then.open,
           x.to \in Ends => x.key \in open /\ r[x.key].amount = x.amount,
           x.key \notin captured \cup then.captured,
           BooksAgree(row, then, r, open, captured),
           NEW open2, open2 = IF x.to = "reserved" THEN open \cup {x.key} ELSE open \ {x.key},
           NEW captured2,
           captured2 = IF x.to = "captured" THEN captured \cup {x.key} ELSE captured
    PROVE  BooksAgree(Updated(row, x), then, q, open2, captured2)
  <1> DEFINE k == x.key
             A == then.open \ open
             B == open \ then.open
             C == captured \ then.captured
             A2 == then.open \ open2
             B2 == open2 \ then.open
             C2 == captured2 \ then.captured
  <1>1. /\ x.amount \in Nat /\ x.to \in {"reserved", "released", "captured"}
        /\ row.balance \in Nat /\ row.reserved \in Nat
        /\ then.row.balance \in Nat /\ then.row.reserved \in Nat
    BY ReservationConstants DEF ClaimRecords, Ends, Accounts, Bookings
  <1>2. /\ row.reserved + TotalOf(r, A) = then.row.reserved + TotalOf(r, B)
        /\ row.balance + TotalOf(r, C) = then.row.balance
    BY DEF BooksAgree
  <1>3. /\ k \in Keys /\ q[k].amount = x.amount
        /\ \A S \in {A, B, C, A2, B2, C2} :
              S \in SUBSET Keys /\ \A j \in S : q[j].amount \in Nat
        /\ \A S \in {A, B, C} : \A j \in S : q[j].amount = r[j].amount
    <2>1. k \in Keys /\ then.open \in SUBSET Keys
      BY DEF ClaimRecords, Bookings
    <2>2. open2 \subseteq open \cup {k} /\ captured2 \subseteq captured \cup {k}
      OBVIOUS
    <2>3. x.to = "reserved" \/ q[k].amount = r[k].amount
      BY <1>1 DEF Ends
    <2>4. /\ A \cup B \cup C \cup A2 \cup B2 \cup C2 \subseteq
                (open \cup captured \cup then.open) \cup {k}
          /\ A \cup B \cup C \subseteq open \cup captured \cup then.open
      BY <2>2
    <2>5. x.to = "reserved" => k \notin A \cup B \cup C
      OBVIOUS
    <2> HIDE DEF A, B, C, A2, B2, C2
    <2> QED BY <2>1, <2>3, <2>4, <2>5
  <1>4. /\ TotalOf(q, A) = TotalOf(r, A) /\ TotalOf(q, B) = TotalOf(r, B)
        /\ TotalOf(q, C) = TotalOf(r, C)
    <2> HIDE DEF A, B, C
    <2> QED BY <1>3, TotalSame
  <1>5. /\ TotalOf(q, A) \in Nat /\ TotalOf(q, B) \in Nat /\ TotalOf(q, C) \in Nat
        /\ TotalOf(q, A2) \in Nat /\ TotalOf(q, B2) \in Nat /\ TotalOf(q, C2) \in Nat
    <2> HIDE DEF A, B, C, A2, B2, C2
    <2> QED BY <1>3, TotalType
  <1>6. ASSUME NEW S, NEW U, S \in {A, B, C, A2, B2, C2}, U \in {A, B, C, A2, B2, C2},
               k \notin S, U = S \cup {k}
        PROVE  TotalOf(q, U) = x.amount + TotalOf(q, S)
    <2> HIDE DEF A, B, C, A2, B2, C2, k
    <2>1. S \in SUBSET Keys /\ k \in Keys /\ \A j \in U : q[j].amount \in Nat
      BY <1>3, <1>6
    <2>2. k \notin S /\ U = S \cup {k}
      BY <1>6
    <2>3. TotalOf(q, S \cup {k}) = q[k].amount + TotalOf(q, S)
      <3>1. \A j \in S \cup {k} : q[j].amount \in Nat
        BY <2>1, <2>2
      <3> QED BY <2>1, <2>2, <3>1, TotalAdd
    <2>4. TotalOf(q, U) = TotalOf(q, S \cup {k})
      BY <2>2, Zenon
    <2> QED BY <1>3, <2>3, <2>4
  <1>7. Updated(row, x).reserved + TotalOf(q, A2) = then.row.reserved + TotalOf(q, B2)
    <2>1. CASE x.to = "reserved"
      <3>1. A2 = A /\ B2 = B \cup {k} /\ k \notin B
        BY <2>1
      <3>2. TotalOf(q, A2) = TotalOf(q, A) /\ TotalOf(q, B2) = x.amount + TotalOf(q, B)
        <4> HIDE DEF A, B, C, A2, B2, C2, k
        <4> QED BY <1>6, <3>1
      <3> HIDE DEF A, B, C, A2, B2, C2, k
      <3> QED BY <1>1, <1>2, <1>4, <1>5, <2>1, <3>2, UpdatedColumns
    <2>2. CASE x.to \in Ends /\ k \in then.open
      <3>1. A2 = A \cup {k} /\ k \notin A /\ B2 = B
        BY <2>2 DEF Ends
      <3>2. TotalOf(q, B2) = TotalOf(q, B) /\ TotalOf(q, A2) = x.amount + TotalOf(q, A)
        <4> HIDE DEF A, B, C, A2, B2, C2, k
        <4> QED BY <1>6, <3>1
      <3> HIDE DEF A, B, C, A2, B2, C2, k
      <3> QED BY <1>1, <1>2, <1>4, <1>5, <2>2, <3>2, UpdatedColumns
    <2>3. CASE x.to \in Ends /\ k \notin then.open
      <3>1. A2 = A /\ B = B2 \cup {k} /\ k \notin B2
        BY <2>3 DEF Ends
      <3>2. TotalOf(q, A2) = TotalOf(q, A) /\ TotalOf(q, B) = x.amount + TotalOf(q, B2)
        <4> HIDE DEF A, B, C, A2, B2, C2, k
        <4> QED BY <1>6, <3>1
      <3> HIDE DEF A, B, C, A2, B2, C2, k
      <3> QED BY <1>1, <1>2, <1>4, <1>5, <2>3, <3>2, UpdatedColumns
    <2> QED BY <1>1, <2>1, <2>2, <2>3 DEF Ends
  <1>8. Updated(row, x).balance + TotalOf(q, C2) = then.row.balance
    <2>1. CASE x.to = "captured"
      <3>1. C2 = C \cup {k} /\ k \notin C
        BY <2>1
      <3>2. TotalOf(q, C2) = x.amount + TotalOf(q, C)
        <4> HIDE DEF A, B, C, A2, B2, C2, k
        <4> QED BY <1>6, <3>1
      <3> HIDE DEF A, B, C, A2, B2, C2, k
      <3> QED BY <1>1, <1>2, <1>4, <1>5, <2>1, <3>2, UpdatedColumns
    <2>2. CASE x.to # "captured"
      <3>1. C2 = C
        BY <2>2
      <3>2. TotalOf(q, C2) = TotalOf(q, C)
        <4> HIDE DEF C, C2
        <4> QED BY <3>1
      <3> HIDE DEF A, B, C, A2, B2, C2, k
      <3> QED BY <1>1, <1>2, <1>4, <1>5, <2>2, <3>2, UpdatedColumns
    <2> QED BY <2>1, <2>2
  <1> QED BY <1>7, <1>8 DEF BooksAgree

\* A commit moves one row, of its own tenant, from absent or open to where the
\* transaction takes it.
LEMMA CommitMoves ==
    ASSUME ReservationsInv, NEW c \in Callers, ClaimCommit(c), NEW t \in Tenants
    PROVE  LET x == claim[c]
           IN  /\ x \in ClaimRecords
               /\ \A k \in Keys \ {x.key} : reservation'[k] = reservation[k]
               /\ reservation'[x.key] = [tenant |-> x.tenant, amount |-> x.amount, status |-> x.to]
               /\ reservation'[x.key] # None
               /\ x.to = "reserved" => reservation[x.key] = None
               /\ x.to \in Ends => /\ x.key \in Claims(x.tenant, "reserved")
                                   /\ reservation[x.key].amount = x.amount
               /\ x.tenant # t => Claims(t, "reserved")' = Claims(t, "reserved")
                                  /\ Claims(t, "captured")' = Claims(t, "captured")
               /\ x.tenant = t =>
                    /\ Claims(t, "reserved")' = IF x.to = "reserved"
                                                THEN Claims(t, "reserved") \cup {x.key}
                                                ELSE Claims(t, "reserved") \ {x.key}
                    /\ Claims(t, "captured")' = IF x.to = "captured"
                                                THEN Claims(t, "captured") \cup {x.key}
                                                ELSE Claims(t, "captured")
  <1> DEFINE x == claim[c]
             new == [tenant |-> x.tenant, amount |-> x.amount, status |-> x.to]
  <1>1. /\ x # None
        /\ x.to = "reserved" => reservation[x.key] = None
        /\ reservation' = [reservation EXCEPT ![x.key] = new]
    BY DEF ClaimCommit, At
  <1>2. x \in ClaimRecords /\ x.key \in Keys /\ new \in ReservationRows
    BY <1>1 DEF ReservationsInv, ReservationsTypeOK, ClaimRecords, ReservationRows
  <1>3. /\ reservation'[x.key] = new /\ new # None
        /\ \A k \in Keys \ {x.key} : reservation'[k] = reservation[k]
    BY <1>1, <1>2, NoneIsNoReservation DEF ReservationsInv, ReservationsTypeOK
  <1>4. x.to \in Ends => /\ reservation[x.key] # None
                         /\ reservation[x.key].status = "reserved"
                         /\ reservation[x.key].tenant = x.tenant
                         /\ reservation[x.key].amount = x.amount
    BY <1>1 DEF ReservationsInv, EndingIsOpen, Ending
  <1>5. x.to \in {"reserved", "released", "captured"}
    BY <1>2 DEF ClaimRecords, Ends
  <1> HIDE DEF x
  <1>6. x.tenant # t => Claims(t, "reserved")' = Claims(t, "reserved")
                        /\ Claims(t, "captured")' = Claims(t, "captured")
    BY <1>1, <1>2, <1>3, <1>4, <1>5 DEF Claims, Ends
  <1>7. x.tenant = t =>
          /\ Claims(t, "reserved")' = IF x.to = "reserved" THEN Claims(t, "reserved") \cup {x.key}
                                      ELSE Claims(t, "reserved") \ {x.key}
          /\ Claims(t, "captured")' = IF x.to = "captured" THEN Claims(t, "captured") \cup {x.key}
                                      ELSE Claims(t, "captured")
    BY <1>1, <1>2, <1>3, <1>4, <1>5 DEF Claims, Ends
  <1>8. x.to \in Ends => x.key \in Claims(x.tenant, "reserved")
    BY <1>2, <1>4 DEF Claims
  <1> QED BY <1>1, <1>2, <1>3, <1>4, <1>6, <1>7, <1>8 DEF x

\* UpsertAccount opens the books anew; a commit moves columns and rows together.
LEMMA BooksKept ==
    ASSUME ReservationsInv, BooksInv, [ReservationsNext]_reservationsVars
    PROVE  BooksInv'
  <1>1. CASE UNCHANGED <<account, reservation, booked>>
    <2>1. \A t \in Tenants : /\ Claims(t, "reserved")' = Claims(t, "reserved")
                             /\ Claims(t, "captured")' = Claims(t, "captured")
      BY <1>1 DEF Claims
    <2> QED BY <1>1, <2>1 DEF BooksInv, BookingStands
  <1>2. ASSUME NEW t \in Tenants, NEW balance \in Balances, NEW reserved \in Balances,
               UpsertAccount(t, balance, reserved)
        PROVE  BooksInv'
    <2> DEFINE row == [balance |-> balance, reserved |-> reserved]
               open == Claims(t, "reserved")
               captured == Claims(t, "captured")
               then == [row |-> row, open |-> open, captured |-> captured]
    <2>1. /\ account' = [account EXCEPT ![t] = row]
          /\ booked' = [booked EXCEPT ![t] = then]
          /\ reservation' = reservation
      BY <1>2 DEF UpsertAccount
    <2>2. \A u \in Tenants : /\ Claims(u, "reserved")' = Claims(u, "reserved")
                             /\ Claims(u, "captured")' = Claims(u, "captured")
      BY <2>1 DEF Claims
    <2>3. row.reserved \in Nat /\ row.balance \in Nat /\ row \in Accounts
      BY ReservationConstants DEF Accounts
    <2>4. /\ open \in SUBSET Keys /\ captured \in SUBSET Keys
          /\ \A k \in open : reservation[k] # None /\ reservation[k].tenant = t
      BY DEF Claims
    <2>5. BooksAgree(row, then, reservation, open, captured)
      <3>1. /\ then.open \ open = {} /\ open \ then.open = {}
            /\ captured \ then.captured = {} /\ then.row = row
        OBVIOUS
      <3> HIDE DEF row, open, captured, then
      <3>2. /\ TotalOf(reservation, then.open \ open) = 0
            /\ TotalOf(reservation, open \ then.open) = 0
            /\ TotalOf(reservation, captured \ then.captured) = 0
        BY <3>1, TotalEmpty, Zenon
      <3> QED BY <2>3, <3>1, <3>2 DEF BooksAgree
    <2>6. then \in Bookings
      BY <2>3, <2>4 DEF Bookings
    <2>7. then.open = open /\ then.captured = captured
      OBVIOUS
    <2>8. ASSUME NEW u \in Tenants, account'[u] # None
          PROVE  /\ BookingStands(u)'
                 /\ BooksAgree(account'[u], booked'[u], reservation',
                               Claims(u, "reserved")', Claims(u, "captured")')
      <3> HIDE DEF row, then
      <3>1. CASE u = t
        <4>1. account'[t] = row /\ booked'[t] = then
          BY <2>1 DEF ReservationsInv, ReservationsTypeOK
        <4> QED BY <2>1, <2>2, <2>4, <2>5, <2>6, <2>7, <3>1, <4>1 DEF BookingStands
      <3>2. CASE u # t
        <4>1. account'[u] = account[u] /\ booked'[u] = booked[u]
          BY <2>1, <3>2 DEF ReservationsInv, ReservationsTypeOK
        <4> QED BY <2>1, <2>2, <2>8, <4>1 DEF BookingStands, BooksInv
      <3> QED BY <3>1, <3>2
    <2> QED BY <2>8 DEF BooksInv
  <1>3. ASSUME NEW c \in Callers, ClaimCommit(c)
        PROVE  BooksInv'
    <2> DEFINE x == claim[c]
    <2>1. /\ At(c, "ready") /\ x # None
          /\ account' = [account EXCEPT ![x.tenant] = Updated(account[x.tenant], x)]
          /\ booked' = booked
      BY <1>3 DEF ClaimCommit, At
    <2>2. x \in ClaimRecords
      BY <2>1 DEF ReservationsInv, ReservationsTypeOK
    <2>3. /\ x.tenant \in Tenants /\ x.key \in Keys /\ x.amount \in Nat
          /\ x.to \in {"reserved", "released", "captured"}
      BY <2>2, ReservationConstants DEF ClaimRecords, Ends
    <2>4. /\ account[x.tenant] # None /\ account[x.tenant] \in Accounts
          /\ x.seen = account[x.tenant] /\ Covers(account[x.tenant], x)
      BY <2>1, <2>3 DEF ReservationsInv, ReservationsTypeOK, SeenIsCurrent
    <2>5. /\ \A k \in Keys \ {x.key} : reservation'[k] = reservation[k]
          /\ reservation'[x.key].tenant = x.tenant /\ reservation'[x.key].amount = x.amount
          /\ reservation'[x.key] # None
          /\ x.to = "reserved" => reservation[x.key] = None
          /\ x.to \in Ends => /\ reservation[x.key] # None
                              /\ reservation[x.key].tenant = x.tenant
                              /\ reservation[x.key].status = "reserved"
                              /\ reservation[x.key].amount = x.amount
      <3>1. /\ \A k \in Keys \ {x.key} : reservation'[k] = reservation[k]
            /\ reservation'[x.key] = [tenant |-> x.tenant, amount |-> x.amount, status |-> x.to]
            /\ reservation'[x.key] # None
            /\ x.to = "reserved" => reservation[x.key] = None
            /\ x.to \in Ends => /\ x.key \in Claims(x.tenant, "reserved")
                                /\ reservation[x.key].amount = x.amount
        BY <1>3, <2>3, CommitMoves
      <3> HIDE DEF x
      <3> QED BY <3>1 DEF Claims
    <2> HIDE DEF x
    <2>6. \A k \in Keys : reservation[k] # None => reservation[k].amount \in Nat
      BY ReservationConstants DEF ReservationsInv, ReservationsTypeOK, ReservationRows
    <2>7. ASSUME NEW t \in Tenants, account'[t] # None, t # x.tenant
          PROVE  /\ BookingStands(t)'
                 /\ BooksAgree(account'[t], booked'[t], reservation',
                               Claims(t, "reserved")', Claims(t, "captured")')
      <3> DEFINE then == booked[t]
                 open == Claims(t, "reserved")
                 captured == Claims(t, "captured")
      <3>1. account'[t] = account[t] /\ booked'[t] = then
        BY <2>1, <2>7 DEF ReservationsInv, ReservationsTypeOK
      <3>2. Claims(t, "reserved")' = open /\ Claims(t, "captured")' = captured
        BY <1>3, <2>7, CommitMoves DEF x
      <3>3. BookingStands(t) /\ BooksAgree(account[t], then, reservation, open, captured)
        BY <2>7, <3>1 DEF BooksInv
      <3>4. /\ then.open \in SUBSET Keys
            /\ \A k \in then.open \cup open \cup captured : k \in Keys /\ k # x.key
        BY <2>3, <2>5, <2>7, <3>3 DEF BookingStands, Bookings, Claims, Ends
      <3>5. \A k \in then.open \cup open \cup captured :
              reservation'[k] = reservation[k]
        BY <2>5, <3>4
      <3>6. /\ TotalOf(reservation', then.open \ open) = TotalOf(reservation, then.open \ open)
            /\ TotalOf(reservation', open \ then.open) = TotalOf(reservation, open \ then.open)
            /\ TotalOf(reservation', captured \ then.captured)
                 = TotalOf(reservation, captured \ then.captured)
        <4>1. /\ then.open \ open \in SUBSET Keys /\ open \ then.open \in SUBSET Keys
              /\ captured \ then.captured \in SUBSET Keys
          BY <3>4
        <4> HIDE DEF then, open, captured
        <4> QED BY <3>5, <4>1, TotalSame
      <3>7. BookingStands(t)'
        BY <3>1, <3>2, <3>3, <3>5 DEF BookingStands
      <3> HIDE DEF then, open, captured
      <3> QED BY <3>1, <3>2, <3>3, <3>6, <3>7 DEF BooksAgree
    <2>8. ASSUME NEW t \in Tenants, t = x.tenant
          PROVE  /\ BookingStands(t)'
                 /\ BooksAgree(account'[t], booked'[t], reservation',
                               Claims(t, "reserved")', Claims(t, "captured")')
      <3> DEFINE row == account[t]
                 then == booked[t]
                 open == Claims(t, "reserved")
                 captured == Claims(t, "captured")
                 open2 == Claims(t, "reserved")'
                 captured2 == Claims(t, "captured")'
      <3>1. account'[t] = Updated(row, x) /\ booked'[t] = then
        BY <2>1, <2>8 DEF ReservationsInv, ReservationsTypeOK
      <3>2. /\ open2 = IF x.to = "reserved" THEN open \cup {x.key} ELSE open \ {x.key}
            /\ captured2 = IF x.to = "captured" THEN captured \cup {x.key} ELSE captured
        BY <1>3, <2>8, CommitMoves DEF x
      <3>3. BookingStands(t) /\ BooksAgree(row, then, reservation, open, captured)
        BY <2>4, <2>8 DEF BooksInv
      <3>4. /\ then \in Bookings /\ open \in SUBSET Keys /\ captured \in SUBSET Keys
            /\ then.open \in SUBSET Keys /\ then.captured \subseteq captured
            /\ \A k \in open \cup captured \cup then.open : reservation[k] # None
        BY <3>3 DEF BookingStands, Bookings, Claims
      <3>5. x.key \notin captured
        BY <2>3, <2>5, <2>8 DEF Claims, Ends
      <3>6. /\ x.to = "reserved" => x.key \notin open \cup captured \cup then.open
            /\ x.to \in Ends => x.key \in open /\ reservation[x.key].amount = x.amount
        BY <2>3, <2>5, <2>8, <3>4 DEF Claims
      <3>7. /\ \A k \in open \cup captured \cup then.open \cup {x.key} :
                   reservation'[k].amount \in Nat
            /\ \A k \in (open \cup captured \cup then.open) \ {x.key} :
                   reservation'[k].amount = reservation[k].amount
        BY <2>3, <2>5, <2>6, <3>4
      <3>8. BooksAgree(Updated(row, x), then, reservation', open2, captured2)
        <4> HIDE DEF row, then, open, captured, open2, captured2
        <4>1. row \in Accounts /\ x.seen = row /\ Covers(row, x)
          BY <2>4, <2>8 DEF row
        <4>2. x.key \notin captured \cup then.captured
          BY <3>4, <3>5
        <4> QED BY <2>2, <2>5, <3>2, <3>3, <3>4, <3>6, <3>7, <4>1, <4>2, CommitBalances
      <3>9. BookingStands(t)'
        <4>1. \A k \in then.open : reservation'[k] # None /\ reservation'[k].tenant = t
          BY <2>3, <2>5, <2>8, <3>3, <3>4 DEF BookingStands
        <4>2. then.captured \subseteq captured2
          BY <3>2, <3>4, <3>5
        <4> QED BY <3>1, <3>4, <4>1, <4>2 DEF BookingStands
      <3> QED BY <3>1, <3>8, <3>9
    <2> QED BY <2>7, <2>8 DEF BooksInv
  <1>4. \/ UNCHANGED <<account, reservation, booked>>
        \/ \E t \in Tenants, balance, reserved \in Balances : UpsertAccount(t, balance, reserved)
        \/ \E c \in Callers : ClaimCommit(c)
    BY DEF ReservationsNext, reservationsVars, ReserveBegin, TransitionBegin, LockAccount,
           ClaimRollback
  <1> QED BY <1>1, <1>2, <1>3, <1>4

\* However reservations, captures, releases and corrections interleave, the
\* columns of an account and the reservation rows tell the same story since the
\* account was last set: every amount moved once (Reserve, transitionReservation).
THEOREM BooksAlwaysBalance == ReservationsSpec => []BooksBalance
  <1>1. ReservationsInit => BooksInv
    BY DEF ReservationsInit, BooksInv
  <1>2. ReservationsInv /\ BooksInv /\ [ReservationsNext]_reservationsVars => BooksInv'
    BY BooksKept
  <1>3. BooksInv => BooksBalance
    BY DEF BooksInv, BooksBalance, BooksAgree, TotalOf, Total
  <1> QED BY <1>1, <1>2, <1>3, LocksHold, PTL DEF ReservationsSpec

-----------------------------------------------------------------------------
(* Invoicing: the inductive invariant. *)

\* The rows are ledger rows of the period: its tenant's, stamped in its window.
Billed(rows, p) ==
    \A k \in rows : /\ k \in UsageKeys /\ usage[k] # None
                    /\ usage[k].tenant = p[1]
                    /\ p[2] <= usage[k].at /\ usage[k].at < period[p].ends

\* Rows of the ledger and of periods; InvoicesAddUp says what an invoice totals.
LedgerOK ==
    /\ usage \in [UsageKeys -> UsageRows \cup {None}]
    /\ period \in [Periods -> PeriodRows \cup {None}]
    /\ invoice = [p \in Periods |-> invoice[p]]
    /\ issuing = [c \in Callers |-> issuing[c]]

\* An open IssueInvoice works on a period there is, and what it has summed
\* are rows of that period.
IssuingOK ==
    \A c \in Callers : issuing[c] # None =>
        /\ issuing[c] = [period |-> issuing[c].period, totals |-> issuing[c].totals]
        /\ issuing[c].period \in Periods /\ period[issuing[c].period] # None
        /\ issuing[c].totals # None => Billed(issuing[c].totals.rows, issuing[c].period)

\* An invoice bills rows of its period.
InvoicesBilled ==
    \A p \in Periods : invoice[p] # None => Billed(invoice[p].rows, p)

\* A period is closed exactly when it has an invoice.
ClosedIsInvoiced ==
    \A p \in Periods :
        /\ invoice[p] # None => period[p] # None
        /\ period[p] # None => (period[p].status = "closed" <=> invoice[p] # None)

InvoicingInv ==
    /\ LedgerOK
    /\ IssuingOK
    /\ InvoicesBilled
    /\ ClosedIsInvoiced

-----------------------------------------------------------------------------
(* Invoicing: one lemma per operation. *)

\* What keeps the ledger rows of a list and the end of its period keeps the
\* list.
LEMMA StaysBilled ==
    ASSUME NEW rows, NEW p, Billed(rows, p),
           \A k \in UsageKeys : usage[k] # None => usage'[k] = usage[k],
           period'[p].ends = period[p].ends
    PROVE  Billed(rows, p)'
  BY DEF Billed

\* RecordUsage adds a row and touches none: whatever has been billed stays so,
\* also when the row is stamped inside a period that is closed.
LEMMA RecordUsageKeeps ==
    ASSUME InvoicingInv, NEW k \in UsageKeys, NEW t \in Tenants, NEW at \in Times,
           NEW ownership \in Ownerships, NEW charge \in Charges,
           RecordUsage(k, t, at, ownership, charge)
    PROVE  InvoicingInv'
  <1>1. /\ \A j \in UsageKeys : usage[j] # None => usage'[j] = usage[j]
        /\ UNCHANGED <<period, invoice, issuing>>
    BY DEF RecordUsage, InvoicingInv, LedgerOK
  <1>2. LedgerOK'
    <2>1. charge.cost \in Nat /\ Amount(ownership, charge) \in Nat
      BY InvoicingConstants DEF Amount
    <2>2. usage' \in [UsageKeys -> UsageRows \cup {None}]
      BY <2>1 DEF RecordUsage, UsageRows, InvoicingInv, LedgerOK
    <2> QED BY <2>2, <1>1 DEF InvoicingInv, LedgerOK
  <1>3. \A rows, p : Billed(rows, p) => Billed(rows, p)'
    BY <1>1, StaysBilled
  <1> QED BY <1>1, <1>2, <1>3 DEF InvoicingInv, IssuingOK, InvoicesBilled, ClosedIsInvoiced

\* EnsurePeriod opens a period where there was none.
LEMMA EnsurePeriodKeeps ==
    ASSUME InvoicingInv, NEW t \in Tenants, NEW starts \in Times, NEW ends \in Times,
           EnsurePeriod(t, starts, ends)
    PROVE  InvoicingInv'
  <1>1. /\ \A p \in Periods : period[p] # None => period'[p] = period[p]
        /\ \A p \in Periods : \/ period'[p] = period[p]
                              \/ /\ period[p] = None
                                 /\ period'[p] = [ends |-> ends, status |-> "open"]
        /\ period' \in [Periods -> PeriodRows \cup {None}]
        /\ UNCHANGED <<usage, invoice, issuing>>
    BY DEF EnsurePeriod, InvoicingInv, LedgerOK, PeriodRows, Periods
  <1>2. LedgerOK'
    BY <1>1 DEF InvoicingInv, LedgerOK
  <1>3. \A rows : \A p \in Periods : period[p] # None /\ Billed(rows, p) => Billed(rows, p)'
    BY <1>1, StaysBilled
  <1>4. IssuingOK' /\ InvoicesBilled'
    BY <1>1, <1>3 DEF InvoicingInv, IssuingOK, InvoicesBilled, ClosedIsInvoiced
  <1>5. ClosedIsInvoiced'
    BY <1>1, NoneIsNoPeriod DEF InvoicingInv, ClosedIsInvoiced
  <1> QED BY <1>2, <1>4, <1>5 DEF InvoicingInv

\* The transaction begins with nothing summed.
LEMMA IssueBeginKeeps ==
    ASSUME InvoicingInv, NEW c \in Callers, NEW p \in Periods, IssueBegin(c, p)
    PROVE  InvoicingInv'
  <1>1. /\ issuing' = [issuing EXCEPT ![c] = [period |-> p, totals |-> None]]
        /\ period[p] # None
        /\ UNCHANGED <<usage, period, invoice>>
    BY DEF IssueBegin
  <1>2. \A rows, q : Billed(rows, q)' <=> Billed(rows, q)
    BY <1>1 DEF Billed
  <1> QED BY <1>1, <1>2 DEF InvoicingInv, LedgerOK, IssuingOK, InvoicesBilled, ClosedIsInvoiced

\* The sum is over the rows of the window.
LEMMA IssueSumKeeps ==
    ASSUME InvoicingInv, NEW c \in Callers, IssueSum(c)
    PROVE  InvoicingInv'
  <1> DEFINE p == issuing[c].period
  <1>1. /\ issuing[c] # None
        /\ UNCHANGED <<usage, period, invoice>>
        /\ \E s, q : issuing' = [issuing EXCEPT ![c].totals =
              [subtotal |-> s, platformCost |-> q, rows |-> Window(p)]]
    BY Zenon DEF IssueSum
  <1>2. PICK s, q : issuing' = [issuing EXCEPT ![c].totals =
              [subtotal |-> s, platformCost |-> q, rows |-> Window(p)]]
    BY <1>1
  <1>3. \A r, j : Billed(r, j)' <=> Billed(r, j)
    BY <1>1 DEF Billed
  <1>4. Billed(Window(p), p)
    BY DEF Billed, Window
  <1>5. /\ issuing' = [d \in Callers |-> issuing'[d]]
        /\ issuing'[c] = [period |-> p, totals |->
              [subtotal |-> s, platformCost |-> q, rows |-> Window(p)]]
        /\ \A d \in Callers \ {c} : issuing'[d] = issuing[d]
    BY <1>1, <1>2 DEF InvoicingInv, LedgerOK, IssuingOK
  <1> HIDE DEF p
  <1>6. IssuingOK'
    <2>1. p \in Periods /\ period[p] # None
      BY <1>1 DEF InvoicingInv, IssuingOK, p
    <2> QED BY <1>1, <1>3, <1>4, <1>5, <2>1 DEF InvoicingInv, IssuingOK
  <1> QED BY <1>1, <1>3, <1>5, <1>6 DEF InvoicingInv, LedgerOK, InvoicesBilled, ClosedIsInvoiced

\* The invoice and the closing of its period come together.
LEMMA IssueCommitKeeps ==
    ASSUME InvoicingInv, NEW c \in Callers, IssueCommit(c)
    PROVE  InvoicingInv'
  <1> DEFINE p == issuing[c].period
  <1>1. /\ issuing[c] # None /\ issuing[c].totals # None
        /\ p \in Periods /\ period[p] # None
        /\ Billed(issuing[c].totals.rows, p)
        /\ period[p] \in PeriodRows
    BY DEF IssueCommit, InvoicingInv, IssuingOK, LedgerOK
  <1>2. /\ invoice[p] = None
        /\ invoice' = [invoice EXCEPT ![p] = issuing[c].totals]
        /\ period' = [period EXCEPT ![p].status = "closed"]
        /\ issuing' = [issuing EXCEPT ![c] = None]
        /\ usage' = usage
    BY DEF IssueCommit
  <1> HIDE DEF p
  <1>3. /\ \A q \in Periods \ {p} : period'[q] = period[q] /\ invoice'[q] = invoice[q]
        /\ period'[p].ends = period[p].ends /\ period'[p].status = "closed"
        /\ period'[p] \in PeriodRows
        /\ invoice'[p] = issuing[c].totals
    BY <1>1, <1>2 DEF InvoicingInv, LedgerOK, PeriodRows
  <1>4. LedgerOK'
    BY <1>1, <1>2, <1>3 DEF InvoicingInv, LedgerOK
  <1>5. \A rows : \A q \in Periods : Billed(rows, q) => Billed(rows, q)'
    BY <1>2, <1>3, StaysBilled
  <1>6. \A q \in Periods : period'[q] = None <=> period[q] = None
    BY <1>1, <1>3, NoneIsNoPeriod
  <1>7. IssuingOK'
    BY <1>2, <1>5, <1>6 DEF InvoicingInv, LedgerOK, IssuingOK
  <1>8. InvoicesBilled'
    BY <1>1, <1>3, <1>5 DEF InvoicingInv, InvoicesBilled
  <1>9. ClosedIsInvoiced'
    BY <1>1, <1>3, <1>6 DEF InvoicingInv, ClosedIsInvoiced
  <1> QED BY <1>4, <1>7, <1>8, <1>9 DEF InvoicingInv

\* A transaction that fails leaves the tables alone.
LEMMA IssueRollbackKeeps ==
    ASSUME InvoicingInv, NEW c \in Callers, IssueRollback(c)
    PROVE  InvoicingInv'
  <1>1. /\ issuing' = [issuing EXCEPT ![c] = None]
        /\ UNCHANGED <<usage, period, invoice>>
    BY DEF IssueRollback
  <1>2. \A rows, q : Billed(rows, q)' <=> Billed(rows, q)
    BY <1>1 DEF Billed
  <1> QED BY <1>1, <1>2 DEF InvoicingInv, LedgerOK, IssuingOK, InvoicesBilled, ClosedIsInvoiced

\* Asking again for an invoice changes nothing.
LEMMA LedgerUnchangedKeeps ==
    ASSUME InvoicingInv, UNCHANGED invoicingVars
    PROVE  InvoicingInv'
  BY DEF invoicingVars, InvoicingInv, LedgerOK, IssuingOK, InvoicesBilled, ClosedIsInvoiced, Billed

-----------------------------------------------------------------------------
(* Invoicing: the theorems. *)

\* IssueInvoice, several statements without a lock, keeps the invariant however
\* many callers run it and whatever usage arrives meanwhile.
THEOREM InvoicingInvariant == InvoicingSpec => []InvoicingInv
  <1>1. InvoicingInit => InvoicingInv
    BY DEF InvoicingInit, InvoicingInv, LedgerOK, IssuingOK, InvoicesBilled, ClosedIsInvoiced
  <1>2. InvoicingInv /\ [InvoicingNext]_invoicingVars => InvoicingInv'
    BY RecordUsageKeeps, EnsurePeriodKeeps, IssueBeginKeeps, IssueSumKeeps, IssueCommitKeeps,
       IssueRollbackKeeps, LedgerUnchangedKeeps DEF InvoicingNext, IssueAgain
  <1> QED BY <1>1, <1>2, PTL DEF InvoicingSpec

\* No usage row is on two invoices of periods that do not overlap, and none is
\* on the invoice of another tenant (IssueInvoice and its half-open window).
THEOREM RequestsInvoicedOnce == InvoicingSpec => []InvoicedOnce
  <1>1. InvoicingInv => InvoicedOnce
    <2> SUFFICES ASSUME InvoicingInv, NEW k \in UsageKeys, NEW p \in Periods,
                        invoice[p] # None, k \in invoice[p].rows
                 PROVE  /\ usage[k].tenant = p[1]
                        /\ \A q \in Periods \ {p} :
                              /\ q[1] = p[1] /\ invoice[q] # None
                              /\ Disjoint(p, q)
                              => k \notin invoice[q].rows
      BY DEF InvoicedOnce
    <2>1. usage[k] # None /\ usage[k].tenant = p[1]
          /\ p[2] <= usage[k].at /\ usage[k].at < period[p].ends
      BY DEF InvoicingInv, InvoicesBilled, Billed
    <2>2. ASSUME NEW q \in Periods, invoice[q] # None, k \in invoice[q].rows, Disjoint(p, q)
          PROVE  FALSE
      <3>1. q[2] <= usage[k].at /\ usage[k].at < period[q].ends
        BY <2>2 DEF InvoicingInv, InvoicesBilled, Billed
      <3>2. p[2] \in Nat /\ q[2] \in Nat /\ usage[k].at \in Nat
        BY <2>1, InvoicingConstants DEF InvoicingInv, LedgerOK, UsageRows, Periods, Times
      <3>3. period[p].ends \in Nat /\ period[q].ends \in Nat
        BY <2>2, InvoicingConstants
           DEF InvoicingInv, ClosedIsInvoiced, LedgerOK, PeriodRows, Times
      <3> QED BY <2>1, <2>2, <3>1, <3>2, <3>3 DEF Disjoint
    <2> QED BY <2>1, <2>2
  <1> QED BY InvoicingInvariant, <1>1, PTL

\* The unique index on the period makes an invoice final, and a period is
\* closed with it (IssueInvoice).
THEOREM InvoicesAreFinal == InvoicingSpec => InvoiceIsFinal
  <1> DEFINE Step ==
        \A p \in Periods :
        /\ invoice[p] # None => invoice'[p] = invoice[p]
        /\ period'[p] # None => (period'[p].status = "closed" <=> invoice'[p] # None)
  <1>1. ASSUME InvoicingInv, InvoicingInv', InvoicingNext
        PROVE  Step
    <2>1. \A p \in Periods :
             period'[p] # None => (period'[p].status = "closed" <=> invoice'[p] # None)
      BY <1>1 DEF InvoicingInv, ClosedIsInvoiced
    <2>2. CASE invoice' = invoice
      BY <2>1, <2>2
    <2>3. ASSUME NEW c \in Callers, IssueCommit(c)
          PROVE  Step
      <3>1. /\ invoice[issuing[c].period] = None
            /\ invoice' = [invoice EXCEPT ![issuing[c].period] = issuing[c].totals]
        BY <2>3 DEF IssueCommit
      <3> QED BY <2>1, <3>1, <1>1 DEF InvoicingInv, LedgerOK
    <2> HIDE DEF Step
    <2> QED BY <1>1, <2>2, <2>3 DEF InvoicingNext, RecordUsage, EnsurePeriod, IssueAgain,
               IssueBegin, IssueSum, IssueRollback, invoicingVars
  <1>2. InvoicingInv /\ InvoicingInv' /\ [InvoicingNext]_invoicingVars => [Step]_invoicingVars
    BY <1>1
  <1> QED BY InvoicingInvariant, <1>2, PTL DEF InvoicingSpec, InvoiceIsFinal

-----------------------------------------------------------------------------
(* Invoicing: the totals. *)

\* The totals are natural numbers, and the sums of the rows they were made of.
AddUp(x) ==
    LET pool == PlatformPool(x.rows)
    IN  /\ x \in Totals
        /\ x.subtotal = SumOver([k \in x.rows |-> usage[k].amount], x.rows)
        /\ x.platformCost = SumOver([k \in pool |-> usage[k].cost], pool)

\* So is every invoice, and what an open IssueInvoice has summed.
InvoicesAddUp ==
    /\ \A p \in Periods : invoice[p] # None => AddUp(invoice[p])
    /\ \A c \in Callers : issuing[c] # None /\ issuing[c].totals # None =>
          AddUp(issuing[c].totals)

\* The ledger rows of a list keep its totals.
LEMMA StaysAddedUp ==
    ASSUME NEW x, AddUp(x), \A k \in x.rows : k \in UsageKeys /\ usage'[k] = usage[k]
    PROVE  AddUp(x)'
  <1> DEFINE pool == PlatformPool(x.rows)
             f == [k \in x.rows |-> usage[k].amount]
             g == [k \in pool |-> usage[k].cost]
  <1>1. PlatformPool(x.rows)' = pool /\ pool \subseteq x.rows
    BY DEF PlatformPool
  <1>2. /\ f = [k \in x.rows |-> usage'[k].amount]
        /\ g = [k \in pool |-> usage'[k].cost]
    BY <1>1
  <1>3. /\ x \in Totals /\ x.subtotal = SumOver(f, x.rows)
        /\ x.platformCost = SumOver(g, pool)
    BY DEF AddUp
  <1>4. SumOver(f, x.rows) = SumOver([k \in x.rows |-> usage'[k].amount], x.rows)
    <2> HIDE DEF f
    <2> QED BY <1>2, Zenon
  <1>5. SumOver(g, pool) = SumOver([k \in pool |-> usage'[k].cost], pool)
    <2> HIDE DEF g, pool
    <2> QED BY <1>2, Zenon
  <1> HIDE DEF f, g, pool
  <1> QED BY <1>1, <1>3, <1>4, <1>5 DEF AddUp

\* Totals are summed from rows of the ledger.
LEMMA WindowAddsUp ==
    ASSUME InvoicingInv, NEW p,
           NEW x, x = [subtotal |-> SumOver([k \in Window(p) |-> usage[k].amount], Window(p)),
                       platformCost |-> SumOver([k \in PlatformPool(Window(p)) |-> usage[k].cost],
                                                PlatformPool(Window(p))),
                       rows |-> Window(p)]
    PROVE  AddUp(x)
  <1> DEFINE rows == Window(p)
             pool == PlatformPool(rows)
             f == [k \in rows |-> usage[k].amount]
             g == [k \in pool |-> usage[k].cost]
  <1>1. rows \in SUBSET UsageKeys /\ \A k \in rows : usage[k] \in UsageRows
    BY DEF Window, InvoicingInv, LedgerOK
  <1>2. pool \in SUBSET rows
    BY DEF PlatformPool
  <1>3. IsFiniteSet(rows) /\ IsFiniteSet(pool)
    <2> HIDE DEF rows, pool
    <2> QED BY <1>1, <1>2, FiniteLedger, FS_Subset
  <1>4. (\A k \in rows : f[k] \in Nat) /\ (\A k \in pool : g[k] \in Nat)
    <2> HIDE DEF rows, pool
    <2> QED BY <1>1, <1>2 DEF UsageRows
  <1>5. SumOver(f, rows) \in Nat /\ SumOver(g, pool) \in Nat
    <2> HIDE DEF f, g, rows, pool
    <2> QED BY <1>3, <1>4, SumType
  <1>6. x.subtotal = SumOver(f, rows) /\ x.platformCost = SumOver(g, pool) /\ x.rows = rows
    OBVIOUS
  <1>7. x = [subtotal |-> SumOver(f, rows), platformCost |-> SumOver(g, pool), rows |-> rows]
    OBVIOUS
  <1>8. x \in Totals
    <2> HIDE DEF f, g, rows, pool
    <2> QED BY <1>1, <1>5, <1>7 DEF Totals
  <1>9. /\ x.subtotal = SumOver([k \in x.rows |-> usage[k].amount], x.rows)
        /\ PlatformPool(x.rows) = pool
    BY <1>6, Zenon
  <1>10. x.platformCost = SumOver([k \in PlatformPool(x.rows) |-> usage[k].cost],
                                  PlatformPool(x.rows))
    BY <1>6, <1>9, Zenon
  <1> HIDE DEF f, g, rows, pool
  <1> QED BY <1>8, <1>9, <1>10 DEF AddUp

LEMMA AddedUpKeeps ==
    ASSUME InvoicingInv, InvoicesAddUp, [InvoicingNext]_invoicingVars
    PROVE  InvoicesAddUp'
  <1>1. \A k \in UsageKeys : usage[k] # None => usage'[k] = usage[k]
    BY DEF InvoicingInv, LedgerOK, InvoicingNext, invoicingVars, RecordUsage, EnsurePeriod,
           IssueAgain, IssueBegin, IssueSum, IssueCommit, IssueRollback
  <1>2. ASSUME NEW x, AddUp(x), NEW p, Billed(x.rows, p)
        PROVE  AddUp(x)'
    <2>1. \A k \in x.rows : k \in UsageKeys /\ usage'[k] = usage[k]
      BY <1>1, <1>2 DEF Billed
    <2> QED BY <1>2, <2>1, StaysAddedUp
  <1>3. \A p \in Periods : invoice[p] # None => AddUp(invoice[p]) /\ Billed(invoice[p].rows, p)
    BY DEF InvoicesAddUp, InvoicingInv, InvoicesBilled
  <1>4. \A c \in Callers : issuing[c] # None /\ issuing[c].totals # None =>
           /\ AddUp(issuing[c].totals) /\ issuing[c].period \in Periods
           /\ Billed(issuing[c].totals.rows, issuing[c].period)
    BY DEF InvoicesAddUp, InvoicingInv, IssuingOK
  <1>5. ASSUME NEW x, \/ \E p \in Periods : invoice[p] # None /\ x = invoice[p]
                      \/ \E c \in Callers : /\ issuing[c] # None /\ issuing[c].totals # None
                                            /\ x = issuing[c].totals
        PROVE  AddUp(x)'
    BY <1>2, <1>3, <1>4, <1>5
  <1>6. CASE invoice' = invoice /\ issuing' = issuing
    BY <1>5, <1>6 DEF InvoicesAddUp
  <1>7. ASSUME NEW c \in Callers, NEW p \in Periods, IssueBegin(c, p)
        PROVE  InvoicesAddUp'
    <2>1. /\ invoice' = invoice /\ issuing'[c].totals = None
          /\ \A d \in Callers \ {c} : issuing'[d] = issuing[d]
      BY <1>7 DEF IssueBegin, InvoicingInv, LedgerOK
    <2> QED BY <1>5, <2>1 DEF InvoicesAddUp
  <1>8. ASSUME NEW c \in Callers, IssueSum(c)
        PROVE  InvoicesAddUp'
    <2> DEFINE rows == Window(issuing[c].period)
               pool == PlatformPool(rows)
    <2>1. PICK x : /\ x = [subtotal |-> SumOver([k \in rows |-> usage[k].amount], rows),
                           platformCost |-> SumOver([k \in pool |-> usage[k].cost], pool),
                           rows |-> rows]
                   /\ issuing[c] # None /\ issuing' = [issuing EXCEPT ![c].totals = x]
                   /\ UNCHANGED <<usage, invoice>>
      BY <1>8, Zenon DEF IssueSum
    <2>2. AddUp(x)
      BY <2>1, WindowAddsUp
    <2>3. AddUp(x)'
      BY <2>1, <2>2 DEF AddUp, PlatformPool
    <2> HIDE DEF rows, pool
    <2>4. issuing'[c].totals = x /\ \A d \in Callers \ {c} : issuing'[d] = issuing[d]
      BY <2>1 DEF InvoicingInv, LedgerOK, IssuingOK
    <2> QED BY <1>5, <2>1, <2>3, <2>4 DEF InvoicesAddUp
  <1>9. ASSUME NEW c \in Callers, IssueCommit(c) \/ IssueRollback(c)
        PROVE  InvoicesAddUp'
    <2>1. /\ issuing[c] # None /\ issuing'[c] = None
          /\ \A d \in Callers \ {c} : issuing'[d] = issuing[d]
          /\ \A p \in Periods : \/ invoice'[p] = invoice[p]
                                \/ issuing[c].totals # None /\ invoice'[p] = issuing[c].totals
      BY <1>9 DEF IssueCommit, IssueRollback, InvoicingInv, LedgerOK
    <2> QED BY <1>5, <2>1 DEF InvoicesAddUp
  <1>10. \/ invoice' = invoice /\ issuing' = issuing
         \/ \E c \in Callers : \/ \E p \in Periods : IssueBegin(c, p)
                               \/ IssueSum(c) \/ IssueCommit(c) \/ IssueRollback(c)
    BY Zenon DEF InvoicingNext, invoicingVars, RecordUsage, EnsurePeriod, IssueAgain
  <1> QED BY <1>6, <1>7, <1>8, <1>9, <1>10

\* The totals of an invoice are the sums of the rows it bills and stay so,
\* whatever usage arrives later (IssueInvoice's SELECT of both sums).
THEOREM InvoicesTotalTheirRows == InvoicingSpec => []InvoicesAddUp
  <1>1. InvoicingInit => InvoicesAddUp
    BY DEF InvoicingInit, InvoicesAddUp
  <1>2. InvoicingInv /\ InvoicesAddUp /\ [InvoicingNext]_invoicingVars => InvoicesAddUp'
    BY AddedUpKeeps
  <1> QED BY <1>1, <1>2, InvoicingInvariant, PTL DEF InvoicingSpec

\* Ledger rows, periods, invoices and open transactions are well formed.
THEOREM LedgerWellFormed == InvoicingSpec => []InvoicingTypeOK
  <1>1. InvoicingInv /\ InvoicesAddUp => InvoicingTypeOK
    <2> SUFFICES ASSUME InvoicingInv, InvoicesAddUp PROVE InvoicingTypeOK
      OBVIOUS
    <2>1. invoice \in [Periods -> Totals \cup {None}]
      BY DEF InvoicingInv, LedgerOK, InvoicesAddUp, AddUp
    <2>2. ASSUME NEW c \in Callers, issuing[c] # None
          PROVE  issuing[c] \in [period : Periods, totals : Totals \cup {None}]
      <3>1. issuing[c].totals \in Totals \cup {None}
        BY <2>2 DEF InvoicesAddUp, AddUp
      <3>2. /\ issuing[c].period \in Periods
            /\ issuing[c] = [period |-> issuing[c].period, totals |-> issuing[c].totals]
        BY <2>2 DEF InvoicingInv, IssuingOK
      <3> QED BY <3>1, <3>2
    <2>3. issuing \in [Callers -> {None} \cup [period : Periods, totals : Totals \cup {None}]]
      BY <2>2 DEF InvoicingInv, LedgerOK
    <2> QED BY <2>1, <2>3 DEF InvoicingInv, LedgerOK, InvoicingTypeOK
  <1> QED BY <1>1, InvoicingInvariant, InvoicesTotalTheirRows, PTL

-----------------------------------------------------------------------------
(* Metering: rows and attempts are well formed.                             *)

\* The attempts between the two hooks.
Flying == {b \in Attempts : stage[b] \in InFlight}

\* The ledger is finite, and the peak is one.
MeteringType == TypeOK /\ IsFiniteSet(ledger) /\ Cardinality(Flying) <= peak

\* Subsets of the attempts and of the ledger can be counted and summed.
LEMMA FiniteParts ==
  ASSUME NEW S \in SUBSET Attempts
  PROVE  /\ IsFiniteSet(S) /\ Cardinality(S) \in Nat
         /\ Cardinality(S) <= Cardinality(Attempts)
  BY FiniteAttempts, FS_Subset, FS_CardinalityType

LEMMA SpentType ==
  ASSUME TypeOK, NEW m
  PROVE  Spent(m) \in Nat
<1> DEFINE S == {a \in Attempts : stage[a] = "done" /\ to[a] = m}
<1>1. IsFiniteSet(S)
  BY FiniteParts
<1>2. \A x \in S : cost[x] \in Nat
  BY MeteringAssumption DEF TypeOK
<1>3. SumOver(cost, S) \in Nat
  <2> HIDE DEF S
  <2> QED BY <1>1, <1>2, SumType
<1> QED BY <1>3 DEF Spent

LEMMA LedgerUseType ==
  ASSUME TypeOK, IsFiniteSet(ledger), NEW m
  PROVE  LedgerUse(m) \in Nat
<1> DEFINE rows == {row \in ledger : row.month = m}
           f == [row \in rows |-> row.amount]
<1>1. IsFiniteSet(rows)
  BY FS_Subset
<1>2. \A x \in rows : f[x] \in Nat
  BY MeteringAssumption DEF TypeOK
<1>3. SumOver(f, rows) \in Nat
  <2> HIDE DEF rows, f
  <2> QED BY <1>1, <1>2, SumType
<1> QED BY <1>3 DEF LedgerUse

\* A step of an attempt leaves the others in flight.
LEMMA FlyingFalls ==
  ASSUME MeteringType, Flying' \subseteq Flying, peak' = peak
  PROVE  Cardinality(Flying') <= peak'
  BY FiniteParts, FS_Subset DEF Flying, MeteringType, TypeOK

LEMMA ChargedType ==
  ASSUME TypeOK, NEW a \in Attempts, Charged(a)
  PROVE  counter' \in [Months -> Nat] /\ claims' \subseteq Months \X Attempts
<1>1. from[a] \in Months /\ cost[a] \in Nat /\ counter \in [Months -> Nat]
      /\ claims \subseteq Months \X Attempts
  BY MeteringAssumption DEF TypeOK
<1>2. counter' \in [Months -> Nat]
  BY <1>1 DEF Charged
<1>3. claims' \subseteq Months \X Attempts
  BY <1>1 DEF Charged
<1> QED BY <1>2, <1>3

LEMMA MeteringTypeKept ==
  ASSUME MeteringType, [Next]_vars
  PROVE  MeteringType'
<1> USE DEF MeteringType
<1>1. ASSUME NEW a \in Attempts, CheckAllowance(a)
      PROVE  MeteringType'
  <2>1. month \in Months /\ LedgerUse(month) \in Nat
    BY LedgerUseType DEF TypeOK
  <2>2. Flying' = Flying \union {a} /\ a \notin Flying
    BY <1>1 DEF CheckAllowance, Flying, TypeOK, InFlight
  <2>3. Cardinality(Flying') = 1 + Cardinality(Flying)
    BY <2>2, FiniteParts, FS_AddElement DEF Flying
  <2>4. Cardinality(Flying') \in 0 .. Cardinality(Attempts)
    BY FiniteParts, FiniteAttempts, FS_CardinalityType DEF Flying
  <2>5. peak' = IF 1 + Cardinality(Flying) > peak THEN 1 + Cardinality(Flying) ELSE peak
    BY <1>1 DEF CheckAllowance, Flying
  <2>6. peak' \in 0 .. Cardinality(Attempts) /\ Cardinality(Flying') <= peak'
    BY <2>3, <2>4, <2>5 DEF TypeOK
  <2>7. TypeOK'
    <3>1. used' \in [Attempts -> Nat] /\ from' \in [Attempts -> Months]
          /\ exhausted' \in [Attempts -> BOOLEAN]
          /\ stage' \in [Attempts -> {"new"} \union InFlight \union Ended]
      BY <1>1, <2>1 DEF CheckAllowance, TypeOK, InFlight
    <3> QED BY <1>1, <2>6, <3>1 DEF CheckAllowance, TypeOK, redis
  <2> QED BY <1>1, <2>6, <2>7 DEF CheckAllowance
<1>2. ASSUME NEW a \in Attempts, ReadCounter(a) \/ Refused(a) \/ Dies(a)
      PROVE  MeteringType'
  <2>1. TypeOK' /\ ledger' = ledger /\ peak' = peak /\ Flying' \subseteq Flying
    BY <1>2 DEF ReadCounter, Refused, Dies, TypeOK, redis, InFlight, Ended, Flying
  <2> QED BY <2>1, FlyingFalls
<1>3. ASSUME NEW a \in Attempts, Acquire(a) \/ AdmissionFails(a) \/ LeaseExpires(a)
      PROVE  MeteringType'
  <2>1. TypeOK' /\ ledger' = ledger /\ peak' = peak /\ Flying' \subseteq Flying
    BY <1>3, MeteringAssumption
    DEF Acquire, AdmissionFails, LeaseExpires, RedisFault, TypeOK, redis, attempt, InFlight,
        Ended, Flying
  <2> QED BY <2>1, FlyingFalls
<1>4. ASSUME NEW a \in Attempts, NEW c \in 0 .. MaxCost, Settle(a, c)
      PROVE  MeteringType'
  <2>1. TypeOK' /\ ledger' = ledger /\ peak' = peak /\ Flying' \subseteq Flying
    BY <1>4, MeteringAssumption
    DEF Settle, RedisFault, TypeOK, redis, InFlight, Ended, Flying
  <2> QED BY <2>1, FlyingFalls
<1>5. ASSUME NEW a \in Attempts, ChargeOnce(a) \/ ChargeResent(a)
      PROVE  MeteringType'
  <2>1. counter' \in [Months -> Nat] /\ claims' \subseteq Months \X Attempts
    BY <1>5, ChargedType DEF ChargeOnce, ChargeResent, redis, TypeOK
  <2>2. redisFaults' \in 0 .. MaxRedisFaults
    BY <1>5, MeteringAssumption DEF ChargeOnce, ChargeResent, RedisFault, TypeOK
  <2>3. TypeOK' /\ ledger' = ledger /\ peak' = peak /\ Flying' \subseteq Flying
    BY <1>5, <2>1, <2>2
    DEF ChargeOnce, ChargeResent, TypeOK, attempt, InFlight, Ended, Flying
  <2> QED BY <2>3, FlyingFalls
<1>6. ASSUME NEW a \in Attempts, RecordAttempt(a)
      PROVE  MeteringType'
  <2>1. \/ ledger' = ledger
        \/ ledger' = ledger \union {[id |-> a, month |-> month, amount |-> cost[a]]}
    BY <1>6 DEF RecordAttempt
  <2>2. IsFiniteSet(ledger')
    BY <2>1, FS_AddElement
  <2>3. /\ ledger' \subseteq [id : Attempts, month : Months, amount : 0 .. MaxCost]
        /\ ledgerFaults' \in 0 .. MaxLedgerFaults
    BY <1>6, <2>1, MeteringAssumption DEF RecordAttempt, LedgerFault, TypeOK
  <2>4. TypeOK' /\ peak' = peak /\ Flying' \subseteq Flying
    BY <1>6, <2>3 DEF RecordAttempt, TypeOK, redis, InFlight, Ended, Flying
  <2> QED BY <2>2, <2>4, FlyingFalls
<1>7. CASE RedisLoses
  <2>1. redisFaults' \in 0 .. MaxRedisFaults /\ counter' \in [Months -> Nat]
    BY <1>7, MeteringAssumption DEF RedisLoses, RedisFault, TypeOK
  <2>2. TypeOK' /\ ledger' = ledger /\ peak' = peak /\ Flying' \subseteq Flying
    BY <1>7, <2>1 DEF RedisLoses, TypeOK, attempt, Flying
  <2> QED BY <2>2, FlyingFalls
<1>8. CASE NextMonth
  <2>1. month' \in Months
    BY <1>8, MeteringAssumption DEF NextMonth, TypeOK, Months
  <2>2. TypeOK' /\ ledger' = ledger /\ peak' = peak /\ Flying' \subseteq Flying
    BY <1>8, <2>1 DEF NextMonth, TypeOK, redis, attempt, Flying
  <2> QED BY <2>2, FlyingFalls
<1>9. CASE UNCHANGED vars
  <2>1. TypeOK' /\ ledger' = ledger /\ peak' = peak /\ Flying' \subseteq Flying
    BY <1>9 DEF vars, TypeOK, Flying
  <2> QED BY <2>1, FlyingFalls
<1> QED BY <1>1, <1>2, <1>3, <1>4, <1>5, <1>6, <1>7, <1>8, <1>9 DEF Next, Hook, SettleSome

\* Counters, claims, ledger rows and attempts are well formed.
THEOREM MeteringWellFormed == Spec => []MeteringType
<1>1. Init => MeteringType
  <2> SUFFICES ASSUME Init PROVE MeteringType
    OBVIOUS
  <2>1. Flying = {}
    BY DEF Init, Flying, InFlight
  <2>2. TypeOK
    BY MeteringAssumption, FiniteAttempts, FS_CardinalityType DEF Init, TypeOK, Months
  <2>3. IsFiniteSet(ledger) /\ Cardinality(Flying) = 0
    BY <2>1, FS_EmptySet DEF Init
  <2> QED BY <2>2, <2>3 DEF MeteringType, Init
<1> QED BY <1>1, MeteringTypeKept, PTL DEF Spec

-----------------------------------------------------------------------------
(* Metering: the counter.                                                   *)

\* Attempts whose charge is known and will not change.
Late == {"charging", "recording", "done", "dead"}

\* What no step takes back: an admission and its window, a charge, a settlement.
LEMMA AttemptsKept ==
  ASSUME MeteringType, [Next]_vars, NEW a \in Attempts
  PROVE  /\ stage[a] # "new" => /\ stage'[a] # "new" /\ from'[a] = from[a]
                                /\ used'[a] = used[a] /\ exhausted'[a] = exhausted[a]
         /\ stage[a] \in Late => stage'[a] \in Late /\ cost'[a] = cost[a]
         /\ stage[a] = "done" => stage'[a] = "done" /\ to'[a] = to[a]
<1> USE DEF MeteringType, TypeOK, Late
<1>1. ASSUME NEW b \in Attempts, CheckAllowance(b) \/ ReadCounter(b) \/ Refused(b)
      PROVE  /\ stage[a] # "new" => /\ stage'[a] # "new" /\ from'[a] = from[a]
                                    /\ used'[a] = used[a] /\ exhausted'[a] = exhausted[a]
             /\ stage[a] \in Late => stage'[a] \in Late /\ cost'[a] = cost[a]
             /\ stage[a] = "done" => stage'[a] = "done" /\ to'[a] = to[a]
  BY <1>1 DEF CheckAllowance, ReadCounter, Refused
<1>2. ASSUME NEW b \in Attempts, Acquire(b) \/ AdmissionFails(b) \/ Dies(b) \/ LeaseExpires(b)
      PROVE  /\ stage[a] # "new" => /\ stage'[a] # "new" /\ from'[a] = from[a]
                                    /\ used'[a] = used[a] /\ exhausted'[a] = exhausted[a]
             /\ stage[a] \in Late => stage'[a] \in Late /\ cost'[a] = cost[a]
             /\ stage[a] = "done" => stage'[a] = "done" /\ to'[a] = to[a]
  BY <1>2 DEF Acquire, AdmissionFails, Dies, LeaseExpires, attempt, InFlight
<1>3. ASSUME NEW b \in Attempts, (\E c \in 0 .. MaxCost : Settle(b, c)) \/ ChargeOnce(b)
                                 \/ ChargeResent(b) \/ RecordAttempt(b)
      PROVE  /\ stage[a] # "new" => /\ stage'[a] # "new" /\ from'[a] = from[a]
                                    /\ used'[a] = used[a] /\ exhausted'[a] = exhausted[a]
             /\ stage[a] \in Late => stage'[a] \in Late /\ cost'[a] = cost[a]
             /\ stage[a] = "done" => stage'[a] = "done" /\ to'[a] = to[a]
  BY <1>3 DEF Settle, ChargeOnce, ChargeResent, RecordAttempt, attempt
<1>4. CASE RedisLoses \/ NextMonth \/ UNCHANGED vars
  BY <1>4 DEF RedisLoses, NextMonth, vars, attempt
<1> QED BY <1>1, <1>2, <1>3, <1>4 DEF Next, Hook, SettleSome

\* The attempts that the counter of month m has charged.
Counted(m) == {a \in Attempts : <<m, a>> \in claims}

\* A claim is of an attempt that month m admitted, and whose charge is fixed.
ClaimsOK == \A m \in Months : \A a \in Counted(m) : from[a] = m /\ stage[a] \in Late

\* The counter of a month is the sum of what was claimed.
CounterOK == \A m \in Months : counter[m] = SumOver(cost, Counted(m))

CounterInv == ClaimsOK /\ CounterOK

\* The script adds the charge once and claims it.
LEMMA ChargedCounts ==
  ASSUME MeteringType, CounterInv, NEW a \in Attempts, stage[a] = "charging", Charged(a),
         stage'[a] \in Late, UNCHANGED <<from, cost>>,
         \A b \in Attempts \ {a} : stage'[b] = stage[b]
  PROVE  CounterInv'
<1>1. from[a] \in Months /\ claims \subseteq Months \X Attempts /\ counter \in [Months -> Nat]
  BY DEF MeteringType, TypeOK
<1>2. \A m \in Months : Counted(m)' = IF m = from[a] THEN Counted(m) \union {a} ELSE Counted(m)
  BY <1>1 DEF Charged, Counted
<1>3. ClaimsOK'
  BY <1>2 DEF CounterInv, ClaimsOK, Counted
<1>4. ASSUME NEW m \in Months PROVE counter'[m] = SumOver(cost, Counted(m)')
  <2>1. counter[m] = SumOver(cost, Counted(m))
    BY DEF CounterInv, CounterOK
  <2>2. CASE m # from[a] \/ a \in Counted(m)
    <3>1. Counted(m)' = Counted(m) /\ counter'[m] = counter[m]
      BY <1>1, <1>2, <2>2 DEF Charged, Counted
    <3> QED BY <2>1, <3>1
  <2>3. CASE m = from[a] /\ a \notin Counted(m)
    <3>1. Counted(m)' = Counted(m) \union {a} /\ counter'[m] = counter[m] + cost[a]
      BY <1>1, <1>2, <2>3 DEF Charged, Counted
    <3>2. \A x \in Counted(m) \union {a} : cost[x] \in Nat
      BY MeteringAssumption DEF Counted, MeteringType, TypeOK
    <3>3. IsFiniteSet(Counted(m))
      BY FiniteParts DEF Counted
    <3>4. SumOver(cost, Counted(m) \union {a}) = cost[a] + SumOver(cost, Counted(m))
      BY <2>3, <3>2, <3>3, SumAdd
    <3>5. SumOver(cost, Counted(m)) \in Nat
      BY <3>2, <3>3, SumType
    <3> QED BY <2>1, <3>1, <3>2, <3>4, <3>5
  <2> QED BY <2>2, <2>3
<1> QED BY <1>3, <1>4 DEF CounterInv, CounterOK

LEMMA CounterKept ==
  ASSUME MeteringType, CounterInv, [Next]_vars
  PROVE  CounterInv'
<1>1. CASE UNCHANGED redis
  <2>1. \A m : Counted(m)' = Counted(m)
    BY <1>1 DEF redis, Counted
  <2>2. \A m \in Months : \A a \in Counted(m) :
           from'[a] = m /\ stage'[a] \in Late /\ cost'[a] = cost[a]
    BY AttemptsKept DEF CounterInv, ClaimsOK, Counted, Late
  <2>3. ASSUME NEW m \in Months PROVE SumOver(cost', Counted(m)) = SumOver(cost, Counted(m))
    <3>1. IsFiniteSet(Counted(m))
      BY FiniteParts DEF Counted
    <3> QED BY <2>2, <3>1, SumEqual
  <2>4. ClaimsOK'
    BY <2>1, <2>2 DEF ClaimsOK
  <2>5. CounterOK'
    BY <1>1, <2>1, <2>3 DEF CounterOK, CounterInv, redis
  <2> QED BY <2>4, <2>5 DEF CounterInv
<1>2. ASSUME NEW a \in Attempts, ChargeOnce(a) \/ ChargeResent(a), ~UNCHANGED redis
      PROVE  CounterInv'
  <2>1. /\ stage[a] = "charging" /\ Charged(a) /\ stage'[a] \in Late /\ UNCHANGED <<from, cost>>
        /\ \A b \in Attempts \ {a} : stage'[b] = stage[b]
    BY <1>2 DEF ChargeOnce, ChargeResent, attempt, Late, MeteringType, TypeOK
  <2> QED BY <2>1, ChargedCounts
<1>3. CASE RedisLoses
  <2>1. /\ \A m : Counted(m)' = {}
        /\ \A m \in Months : counter'[m] = 0
    BY <1>3 DEF RedisLoses, Counted
  <2>2. \A m \in Months : counter'[m] = SumOver(cost', Counted(m)')
    BY <2>1, SumEmpty
  <2> QED BY <2>1, <2>2 DEF CounterInv, ClaimsOK, CounterOK
<1>4. \/ UNCHANGED redis \/ RedisLoses
      \/ \E a \in Attempts : ChargeOnce(a) \/ ChargeResent(a)
  BY DEF Next, Hook, SettleSome, vars, redis, CheckAllowance, ReadCounter, Acquire, Settle,
         RecordAttempt, Refused, AdmissionFails, Dies, LeaseExpires, NextMonth
<1> QED BY <1>1, <1>2, <1>3, <1>4

LEMMA CounterInvariant == Spec => [](MeteringType /\ CounterInv)
<1>1. Init => CounterInv
  <2> SUFFICES ASSUME Init PROVE CounterInv
    OBVIOUS
  <2>1. \A m : Counted(m) = {}
    BY DEF Init, Counted
  <2>2. \A m \in Months : counter[m] = 0
    BY DEF Init
  <2> QED BY <2>1, <2>2, SumEmpty DEF CounterInv, ClaimsOK, CounterOK
<1>2. MeteringType /\ CounterInv /\ [Next]_vars => CounterInv'
  BY CounterKept
<1> QED BY <1>1, <1>2, MeteringWellFormed, PTL DEF Spec

\* No charge is counted twice, for any number of attempts, months, resent
\* scripts and losses of Redis (ChargeOnce, counter.go:122-125).
THEOREM CountedAtMostOnce == Spec => []ChargedAtMostOnce
<1>1. ASSUME MeteringType, CounterInv
      PROVE  ChargedAtMostOnce
  <2>1. ASSUME NEW m \in Months
        PROVE  counter[m] <= SumOver(cost, {a \in Attempts : from[a] = m})
    <3> DEFINE T == {a \in Attempts : from[a] = m}
    <3>1. Counted(m) \subseteq T /\ counter[m] = SumOver(cost, Counted(m))
      BY <1>1 DEF CounterInv, ClaimsOK, CounterOK, Counted
    <3>2. IsFiniteSet(Counted(m)) /\ IsFiniteSet(T)
      BY FiniteParts DEF Counted
    <3>3. \A x \in Counted(m) \union T : cost[x] \in Nat
      BY <1>1, MeteringAssumption DEF Counted, MeteringType, TypeOK
    <3>4. SumOver(cost, Counted(m)) <= SumOver(cost, T)
      <4> HIDE DEF T
      <4> QED BY <3>1, <3>2, <3>3, SumCovered
    <3> QED BY <3>1, <3>4
  <2> QED BY <1>1, <2>1 DEF ChargedAtMostOnce, MeteringType
<1> QED BY <1>1, CounterInvariant, PTL

-----------------------------------------------------------------------------
(* Metering: exhausted credit.                                              *)

\* The settled attempts of month m: done stays done, at the same charge.
Done(m) == {b \in Attempts : stage[b] = "done" /\ to[b] = m}

LEMMA DoneKept ==
  ASSUME MeteringType, NEW m
  PROVE  /\ Spent(m) = SumOver(cost, Done(m))
         /\ IsFiniteSet(Done(m)) /\ \A b \in Done(m) : cost[b] \in Nat
         /\ [Next]_vars => \A b \in Done(m) : b \in Done(m)' /\ cost'[b] = cost[b]
<1>1. Spent(m) = SumOver(cost, Done(m))
  BY DEF Spent, Done
<1>2. IsFiniteSet(Done(m))
  BY FiniteParts DEF Done
<1>3. \A b \in Done(m) : cost[b] \in Nat
  BY MeteringAssumption DEF Done, MeteringType, TypeOK
<1>4. [Next]_vars => \A b \in Done(m) : b \in Done(m)' /\ cost'[b] = cost[b]
  BY AttemptsKept DEF Done, Late
<1> QED BY <1>1, <1>2, <1>3, <1>4

\* RecordAttempt adds its charge to the month of settlement.
LEMMA SpentOnRecord ==
  ASSUME MeteringType, NEW a \in Attempts, RecordAttempt(a), NEW m
  PROVE  Spent(m)' = IF m = month THEN cost[a] + Spent(m) ELSE Spent(m)
<1>1. /\ Done(m)' = IF m = month THEN Done(m) \union {a} ELSE Done(m)
      /\ a \notin Done(m) /\ cost' = cost /\ cost[a] \in Nat
  BY MeteringAssumption DEF RecordAttempt, Done, MeteringType, TypeOK
<1>2. SumOver(cost, Done(m) \union {a}) = cost[a] + SumOver(cost, Done(m))
  BY <1>1, DoneKept, SumAdd
<1>3. Spent(m)' = SumOver(cost', Done(m)')
  BY DEF Spent, Done
<1> QED BY <1>1, <1>2, <1>3, DoneKept

\* What an attempt has spent it has spent: only RecordAttempt adds to a month.
LEMMA SpentSteps ==
  ASSUME MeteringType, [Next]_vars
  PROVE  \/ /\ \A m : Spent(m)' = Spent(m)
            /\ UNCHANGED <<ledger, ledgerFaults>>
         \/ \E a \in Attempts : RecordAttempt(a)
<1>1. ASSUME NEW m, \A b \in Attempts : stage'[b] = "done" => stage[b] = "done"
      PROVE  Spent(m)' = Spent(m)
  <2>1. Done(m)' = Done(m)
    BY <1>1, DoneKept, AttemptsKept DEF Done
  <2>2. SumOver(cost', Done(m)) = SumOver(cost, Done(m))
    BY DoneKept, SumEqual
  <2>3. Spent(m)' = SumOver(cost', Done(m)')
    BY DEF Spent, Done
  <2> QED BY <2>1, <2>2, <2>3, DoneKept
<1> USE DEF MeteringType, TypeOK
<1>2. ASSUME NEW a \in Attempts,
             CheckAllowance(a) \/ ReadCounter(a) \/ Refused(a) \/ Acquire(a)
             \/ AdmissionFails(a) \/ Dies(a) \/ LeaseExpires(a)
      PROVE  /\ \A b \in Attempts : stage'[b] = "done" => stage[b] = "done"
             /\ UNCHANGED <<ledger, ledgerFaults>>
  BY <1>2 DEF CheckAllowance, ReadCounter, Refused, Acquire, AdmissionFails, Dies,
              LeaseExpires, attempt
<1>3. ASSUME NEW a \in Attempts,
             (\E c \in 0 .. MaxCost : Settle(a, c)) \/ ChargeOnce(a) \/ ChargeResent(a)
      PROVE  /\ \A b \in Attempts : stage'[b] = "done" => stage[b] = "done"
             /\ UNCHANGED <<ledger, ledgerFaults>>
  BY <1>3 DEF Settle, ChargeOnce, ChargeResent, attempt
<1>4. CASE RedisLoses \/ NextMonth \/ UNCHANGED vars
  BY <1>1, <1>4 DEF RedisLoses, NextMonth, vars, attempt
<1> QED BY <1>1, <1>2, <1>3, <1>4 DEF Next, Hook, SettleSome

\* A month's spending never falls.
LEMMA SpentGrows ==
  ASSUME MeteringType, [Next]_vars, NEW m
  PROVE  Spent(m) \in Nat /\ Spent(m)' \in Nat /\ Spent(m) <= Spent(m)'
<1>1. Spent(m) \in Nat /\ \A a \in Attempts : cost[a] \in Nat
  BY SpentType, MeteringAssumption DEF MeteringType, TypeOK
<1> QED BY <1>1, SpentSteps, SpentOnRecord

\* Faults are counted, not forgotten.
LEMMA FaultsGrow ==
  ASSUME MeteringType, [Next]_vars
  PROVE  ledgerFaults <= ledgerFaults' /\ redisFaults <= redisFaults'
<1>1. ledgerFaults \in Nat /\ redisFaults \in Nat
  BY MeteringAssumption DEF MeteringType, TypeOK
<1>2. ledgerFaults' = ledgerFaults \/ LedgerFault
  BY Zenon
  DEF Next, Hook, SettleSome, vars, CheckAllowance, ReadCounter, Acquire, Settle, ChargeOnce,
      RecordAttempt, Refused, AdmissionFails, ChargeResent, Dies, LeaseExpires, RedisLoses,
      NextMonth
<1>3. redisFaults' = redisFaults \/ RedisFault
  BY Zenon
  DEF Next, Hook, SettleSome, vars, CheckAllowance, ReadCounter, Acquire, Settle, ChargeOnce,
      RecordAttempt, Refused, AdmissionFails, ChargeResent, Dies, LeaseExpires, RedisLoses,
      NextMonth
<1>4. ledgerFaults <= ledgerFaults'
  BY <1>1, <1>2 DEF LedgerFault
<1>5. redisFaults <= redisFaults'
  BY <1>1, <1>3 DEF RedisFault
<1> QED BY <1>4, <1>5

\* A row is of a settled attempt, and while no write has failed the ledger sums
\* to what was spent.
LedgerAgrees ==
  /\ \A row \in ledger : stage[row.id] = "done"
  /\ ledgerFaults = 0 => \A m \in Months : LedgerUse(m) = Spent(m)

LEMMA LedgerAgreesKept ==
  ASSUME MeteringType, LedgerAgrees, [Next]_vars
  PROVE  LedgerAgrees'
<1>1. CASE /\ \A m : Spent(m)' = Spent(m)
           /\ UNCHANGED <<ledger, ledgerFaults>>
  <2>1. \A m : LedgerUse(m)' = LedgerUse(m)
    BY <1>1 DEF LedgerUse
  <2>2. \A row \in ledger : stage'[row.id] = "done"
    BY AttemptsKept DEF LedgerAgrees, MeteringType, TypeOK
  <2> QED BY <1>1, <2>1, <2>2 DEF LedgerAgrees
<1>2. ASSUME NEW a \in Attempts, RecordAttempt(a)
      PROVE  LedgerAgrees'
  <2> DEFINE new == [id |-> a, month |-> month, amount |-> cost[a]]
  <2>1. \A row \in ledger' : row \in ledger \/ row = new
    BY <1>2 DEF RecordAttempt
  <2>2. \A row \in ledger : stage[row.id] = "done" /\ row.id \in Attempts
    BY DEF LedgerAgrees, MeteringType, TypeOK
  <2>3. \A row \in ledger' : stage'[row.id] = "done"
    <3>1. stage'[a] = "done" /\ new.id = a
      BY <1>2 DEF RecordAttempt, MeteringType, TypeOK
    <3> HIDE DEF new
    <3> QED BY <2>1, <2>2, <3>1, AttemptsKept
  <2>4. ASSUME ledgerFaults' = 0, NEW m \in Months
        PROVE  LedgerUse(m)' = Spent(m)'
    <3>1. ledgerFaults = 0 /\ ledger' = ledger \union {new}
      BY <1>2, <2>4, MeteringAssumption DEF RecordAttempt, LedgerFault, MeteringType, TypeOK
    <3>2. LedgerUse(m) = Spent(m)
      BY <3>1 DEF LedgerAgrees
    <3> DEFINE rows == {row \in ledger : row.month = m}
               more == {row \in ledger' : row.month = m}
               f == [row \in rows |-> row.amount]
               g == [row \in more |-> row.amount]
    <3>3. LedgerUse(m) = SumOver(f, rows) /\ LedgerUse(m)' = SumOver(g, more)
      BY DEF LedgerUse
    <3>4. IsFiniteSet(rows) /\ \A row \in rows : row.amount \in Nat /\ f[row] = row.amount
      BY MeteringAssumption, FS_Subset DEF MeteringType, TypeOK
    <3>5. new \notin ledger /\ new.month = month /\ new.amount = cost[a] /\ cost[a] \in Nat
      BY <1>2, <2>2, MeteringAssumption DEF RecordAttempt, MeteringType, TypeOK
    <3>6. CASE m # month
      <4>1. more = rows /\ g = f
        BY <3>1, <3>5, <3>6
      <4> QED BY <1>2, <3>2, <3>3, <3>6, <4>1, SpentOnRecord
    <3>7. CASE m = month
      <4>1. more = rows \union {new} /\ new \notin rows
        BY <3>1, <3>5, <3>7
      <4>2. \A row \in rows \union {new} : g[row] = row.amount /\ g[row] \in Nat
        BY <3>4, <3>5, <4>1
      <4>3. g[new] = cost[a] /\ \A row \in rows : g[row] = f[row]
        BY <3>4, <3>5, <4>2
      <4>4. SumOver(g, rows \union {new}) = g[new] + SumOver(g, rows)
        <5> HIDE DEF rows, new, g
        <5> QED BY <3>4, <4>1, <4>2, SumAdd
      <4>5. SumOver(g, rows) = SumOver(f, rows)
        <5> HIDE DEF rows, f, g
        <5> QED BY <3>4, <4>3, SumEqual
      <4> HIDE DEF rows, more, new, f, g
      <4> QED BY <1>2, <3>2, <3>3, <3>7, <4>1, <4>3, <4>4, <4>5, SpentOnRecord
    <3> QED BY <3>6, <3>7
  <2> QED BY <2>3, <2>4 DEF LedgerAgrees
<1> QED BY <1>1, <1>2, SpentSteps

\* While Redis has not failed, every settled charge has been claimed.
ClaimsComplete ==
  redisFaults = 0 =>
    \A a \in Attempts : stage[a] \in {"recording", "done"} =>
        cost[a] = 0 \/ <<from[a], a>> \in claims

LEMMA ClaimsCompleteKept ==
  ASSUME MeteringType, ClaimsComplete, [Next]_vars
  PROVE  ClaimsComplete'
<1> SUFFICES ASSUME redisFaults' = 0, NEW a \in Attempts, stage'[a] \in {"recording", "done"}
             PROVE  cost'[a] = 0 \/ <<from'[a], a>> \in claims'
  BY DEF ClaimsComplete
<1>1. redisFaults = 0 /\ ~RedisFault
  BY FaultsGrow, MeteringAssumption DEF MeteringType, TypeOK, RedisFault
<1>2. claims \subseteq claims'
  BY <1>1 DEF Next, Hook, SettleSome, vars, redis, CheckAllowance, ReadCounter, Acquire, Settle,
      ChargeOnce, Charged, RecordAttempt, Refused, AdmissionFails, ChargeResent, Dies,
      LeaseExpires, RedisLoses, NextMonth
<1>3. CASE stage[a] \in {"recording", "done"}
  <2>1. cost'[a] = cost[a] /\ from'[a] = from[a]
    BY <1>3, AttemptsKept DEF Late
  <2> QED BY <1>1, <1>2, <1>3, <2>1 DEF ClaimsComplete
<1>4. CASE stage[a] \notin {"recording", "done"}
  <2> USE DEF MeteringType, TypeOK
  <2>1. ASSUME NEW b \in Attempts,
               CheckAllowance(b) \/ ReadCounter(b) \/ Refused(b) \/ Acquire(b)
               \/ AdmissionFails(b) \/ Dies(b) \/ LeaseExpires(b)
        PROVE  FALSE
    BY <1>4, <2>1 DEF CheckAllowance, ReadCounter, Refused, Acquire, AdmissionFails, Dies,
                      LeaseExpires, attempt
  <2>2. ASSUME NEW b \in Attempts, NEW c \in 0 .. MaxCost, Settle(b, c)
        PROVE  cost'[a] = 0
    BY <1>4, <2>2 DEF Settle
  <2>3. ASSUME NEW b \in Attempts, ChargeOnce(b)
        PROVE  <<from'[a], a>> \in claims'
    BY <1>1, <1>4, <2>3 DEF ChargeOnce, Charged
  <2>4. ASSUME NEW b \in Attempts, RecordAttempt(b) \/ ChargeResent(b)
        PROVE  FALSE
    BY <1>1, <1>4, <2>4 DEF RecordAttempt, ChargeResent
  <2>5. CASE RedisLoses \/ NextMonth \/ UNCHANGED vars
    BY <1>4, <2>5 DEF RedisLoses, NextMonth, vars, attempt
  <2> QED BY <2>1, <2>2, <2>3, <2>4, <2>5 DEF Next, Hook, SettleSome
<1> QED BY <1>3, <1>4

\* An admission that began on spent credit: the credit is still spent, and
\* CheckAllowance has said so if the ledger is complete.
AdmissionsOK ==
  \A a \in Attempts : exhausted[a] =>
    /\ stage[a] # "new"
    /\ Spent(from[a]) >= Included
    /\ ledgerFaults = 0 => used[a] >= Included

LEMMA AdmissionsKept ==
  ASSUME MeteringType, LedgerAgrees, AdmissionsOK, [Next]_vars
  PROVE  AdmissionsOK'
<1> SUFFICES ASSUME NEW a \in Attempts, exhausted'[a]
             PROVE  /\ stage'[a] # "new"
                    /\ Spent(from[a])' >= Included
                    /\ ledgerFaults' = 0 => used'[a] >= Included
  BY DEF AdmissionsOK
<1>1. Included \in Nat /\ from[a] \in Months /\ from'[a] \in Months
  BY MeteringTypeKept, MeteringAssumption DEF MeteringType, TypeOK
<1>2. ledgerFaults' = 0 => ledgerFaults = 0
  BY FaultsGrow, MeteringAssumption DEF MeteringType, TypeOK
<1>3. CASE stage[a] # "new"
  <2>1. /\ stage'[a] # "new" /\ from'[a] = from[a] /\ used'[a] = used[a]
        /\ exhausted'[a] = exhausted[a]
    BY <1>3, AttemptsKept
  <2>2. Spent(from[a]) >= Included /\ (ledgerFaults = 0 => used[a] >= Included)
    BY <2>1 DEF AdmissionsOK
  <2>3. PICK m : m = from[a]
    OBVIOUS
  <2>4. Spent(m) \in Nat /\ Spent(m)' \in Nat /\ Spent(m) <= Spent(m)'
    BY SpentGrows
  <2>5. Spent(from[a])' = Spent(m)'
    BY <2>1, <2>3 DEF Spent
  <2> QED BY <1>1, <1>2, <2>1, <2>2, <2>3, <2>4, <2>5
<1>4. CASE stage[a] = "new"
  <2>1. ~exhausted[a]
    BY <1>4 DEF AdmissionsOK
  <2>2. CheckAllowance(a)
    <3> USE DEF MeteringType, TypeOK
    <3>1. ASSUME exhausted' = exhausted PROVE FALSE
      BY <2>1, <3>1
    <3>2. ASSUME NEW b \in Attempts, CheckAllowance(b) PROVE b = a
      BY <2>1, <3>2 DEF CheckAllowance
    <3> QED BY <3>1, <3>2, Zenon
        DEF Next, Hook, SettleSome, vars, attempt, ReadCounter, Acquire, Settle, ChargeOnce,
            RecordAttempt, Refused, AdmissionFails, ChargeResent, Dies, LeaseExpires, RedisLoses,
            NextMonth
  <2>3. PICK m : m = month
    OBVIOUS
  <2>4. /\ stage'[a] = "checked" /\ from'[a] = m /\ used'[a] = LedgerUse(m)
        /\ exhausted'[a] <=> Spent(m) >= Included
    BY <2>2, <2>3 DEF CheckAllowance, MeteringType, TypeOK
  <2>5. Spent(m) \in Nat /\ Spent(m)' \in Nat /\ Spent(m) <= Spent(m)'
    BY SpentGrows
  <2>6. Spent(from[a])' = Spent(m)'
    BY <2>4 DEF Spent
  <2>7. ledgerFaults = 0 => LedgerUse(m) = Spent(m)
    BY <1>1, <2>4 DEF LedgerAgrees
  <2> QED BY <1>1, <1>2, <2>4, <2>5, <2>6, <2>7
<1> QED BY <1>3, <1>4

\* An account that is complete has always been.
LEMMA WasComplete ==
  ASSUME MeteringType, [Next]_vars, OneAccountComplete'
  PROVE  OneAccountComplete
<1>1. ledgerFaults' = 0 => ledgerFaults = 0
  BY FaultsGrow, MeteringAssumption DEF MeteringType, TypeOK
<1>2. redisFaults' = 0 => redisFaults = 0
  BY FaultsGrow, MeteringAssumption DEF MeteringType, TypeOK
<1>3. ASSUME NEW a \in Attempts, stage[a] = "done", stage'[a] = "done" => from'[a] = to'[a]
      PROVE  from[a] = to[a]
  BY <1>3, AttemptsKept
<1> QED BY <1>1, <1>2, <1>3 DEF OneAccountComplete

\* Of an exhausted month one of the two accounts says so.
LEMMA SeenIsExhausted ==
  ASSUME MeteringType, CounterInv, ClaimsComplete, AdmissionsOK, OneAccountComplete,
         NEW a \in Attempts, exhausted[a]
  PROVE  ~(Seen(a) < Included)
<1>1. Included \in Nat /\ used[a] \in Nat /\ from[a] \in Months /\ counter[from[a]] \in Nat
  BY MeteringAssumption DEF MeteringType, TypeOK
<1>2. Spent(from[a]) >= Included /\ (ledgerFaults = 0 => used[a] >= Included)
  BY DEF AdmissionsOK
<1>3. CASE ledgerFaults = 0
  BY <1>1, <1>2, <1>3 DEF Seen
<1>4. CASE ledgerFaults # 0
  <2> DEFINE m == from[a]
             S == {b \in Attempts : stage[b] = "done" /\ to[b] = m}
  <2>1. redisFaults = 0 /\ \A b \in Attempts : stage[b] = "done" => from[b] = to[b]
    BY <1>4 DEF OneAccountComplete
  <2>2. \A b \in S : b \notin Counted(m) => cost[b] = 0
    BY <2>1 DEF ClaimsComplete, Counted
  <2>3. IsFiniteSet(S) /\ IsFiniteSet(Counted(m))
    BY FiniteParts DEF Counted
  <2>4. \A b \in S \union Counted(m) : cost[b] \in Nat
    BY MeteringAssumption DEF Counted, MeteringType, TypeOK
  <2>5. SumOver(cost, S) <= SumOver(cost, Counted(m))
    <3> HIDE DEF S, m
    <3> QED BY <2>2, <2>3, <2>4, SumCovered
  <2>6. Spent(m) = SumOver(cost, S) /\ counter[m] = SumOver(cost, Counted(m))
    BY <1>1 DEF Spent, CounterInv, CounterOK
  <2>7. Spent(m) \in Nat
    BY SpentType DEF MeteringType
  <2> HIDE DEF S
  <2> QED BY <1>1, <1>2, <2>5, <2>6, <2>7 DEF Seen
<1> QED BY <1>3, <1>4

\* What the two accounts say of an admission.
CreditInv == CounterInv /\ LedgerAgrees /\ ClaimsComplete /\ AdmissionsOK

LEMMA RejectedKept ==
  ASSUME MeteringType, CreditInv, ExhaustedIsRejected, [Next]_vars
  PROVE  ExhaustedIsRejected'
<1> SUFFICES ASSUME OneAccountComplete', NEW a \in Attempts, exhausted'[a]
             PROVE  stage'[a] \in {"checked", "rejected", "dead"}
  BY DEF ExhaustedIsRejected
<1>1. OneAccountComplete
  BY WasComplete
<1> USE DEF MeteringType, TypeOK
<1>2. ASSUME exhausted' = exhausted
      PROVE  /\ exhausted[a] /\ stage[a] \in {"checked", "rejected", "dead"}
             /\ ~(Seen(a) < Included)
  BY <1>1, <1>2, SeenIsExhausted DEF ExhaustedIsRejected, CreditInv
<1>3. ASSUME NEW b \in Attempts, CheckAllowance(b)
      PROVE  stage'[a] \in {"checked", "rejected", "dead"}
  BY <1>1, <1>3 DEF CheckAllowance, ExhaustedIsRejected
<1>4. ASSUME NEW b \in Attempts, ReadCounter(b)
      PROVE  stage'[a] \in {"checked", "rejected", "dead"}
  BY <1>2, <1>4 DEF ReadCounter
<1>5. ASSUME NEW b \in Attempts, Refused(b) \/ Acquire(b) \/ AdmissionFails(b) \/ Dies(b)
                                 \/ LeaseExpires(b)
      PROVE  stage'[a] \in {"checked", "rejected", "dead"}
  BY <1>2, <1>5 DEF Refused, Acquire, AdmissionFails, Dies, LeaseExpires, attempt
<1>6. ASSUME NEW b \in Attempts, (\E c \in 0 .. MaxCost : Settle(b, c)) \/ ChargeOnce(b)
                                 \/ ChargeResent(b) \/ RecordAttempt(b)
      PROVE  stage'[a] \in {"checked", "rejected", "dead"}
  BY <1>2, <1>6 DEF Settle, ChargeOnce, ChargeResent, RecordAttempt, attempt
<1>7. CASE RedisLoses \/ NextMonth \/ UNCHANGED vars
  BY <1>2, <1>7 DEF RedisLoses, NextMonth, vars, attempt
<1> QED BY <1>3, <1>4, <1>5, <1>6, <1>7 DEF Next, Hook, SettleSome

LEMMA CreditInvariant == Spec => [](MeteringType /\ CreditInv /\ ExhaustedIsRejected)
<1>1. Init => LedgerAgrees /\ ClaimsComplete /\ AdmissionsOK /\ ExhaustedIsRejected
  <2> SUFFICES ASSUME Init
               PROVE  LedgerAgrees /\ ClaimsComplete /\ AdmissionsOK /\ ExhaustedIsRejected
    OBVIOUS
  <2>1. ASSUME NEW m PROVE LedgerUse(m) = 0
    <3>1. {row \in ledger : row.month = m} = {}
      BY DEF Init
    <3> QED BY <3>1, SumEmpty DEF LedgerUse
  <2>2. ASSUME NEW m PROVE Spent(m) = 0
    <3>1. {a \in Attempts : stage[a] = "done" /\ to[a] = m} = {}
      BY DEF Init
    <3> QED BY <3>1, SumEmpty DEF Spent
  <2> QED BY <2>1, <2>2 DEF Init, LedgerAgrees, ClaimsComplete, AdmissionsOK, ExhaustedIsRejected
<1>2. MeteringType /\ CreditInv /\ ExhaustedIsRejected /\ [Next]_vars =>
        CreditInv' /\ ExhaustedIsRejected'
  BY CounterKept, LedgerAgreesKept, ClaimsCompleteKept, AdmissionsKept, RejectedKept
  DEF CreditInv
<1>3. LedgerAgrees /\ ClaimsComplete /\ AdmissionsOK /\ CounterInv => CreditInv
  BY DEF CreditInv
<1> QED BY <1>1, <1>2, <1>3, MeteringWellFormed, CounterInvariant, PTL DEF Spec

\* Once the month's credit is spent, a request whose admission starts later does
\* not reach the provider as long as one of the accounts is complete, for any
\* attempts, plan and failures of the other (plugin.go:129-144).
THEOREM ExhaustedStaysRejected == Spec => []ExhaustedIsRejected
  BY CreditInvariant, PTL

-----------------------------------------------------------------------------
(* Metering: the overshoot.                                                 *)

\* The attempts in flight that credit admitted.
Spending == {a \in Flying : ~exhausted[a]}

\* The current month can still pay for what is in flight within the bound; a
\* month that is over stays within it; nothing is spent in advance.
OvershootInv ==
  /\ Spending # {} => Included > 0
  /\ \A m \in Months : m > month => Spent(m) = 0
  /\ OneAccountComplete =>
       /\ Spending # {} \/ Spent(month) > 0 =>
            Spent(month) + Cardinality(Spending) * MaxCost < Included + peak * MaxCost
       /\ \A m \in Months : m < month /\ Spent(m) > 0 => Spent(m) < Included + peak * MaxCost

LEMMA Products ==
  ASSUME NEW i \in Nat, NEW j \in Nat, NEW k \in Nat
  PROVE  /\ i * k \in Nat /\ j * k \in Nat
         /\ (i + 1) * k = i * k + k
         /\ i <= j => i * k <= j * k
  OBVIOUS

\* What the bound is about can be counted, and peak counts all of it.
SpendingOK ==
  /\ Spending \subseteq Attempts /\ IsFiniteSet(Spending)
  /\ Cardinality(Spending) \in Nat /\ peak \in Nat /\ Cardinality(Spending) <= peak
  /\ MaxCost \in Nat /\ Included \in Nat /\ month \in Nat

LEMMA SpendingType == MeteringType => SpendingOK
<1> SUFFICES ASSUME MeteringType PROVE SpendingOK
  OBVIOUS
<1>1. Spending \subseteq Flying /\ Flying \subseteq Attempts
  BY DEF Spending, Flying
<1>2. IsFiniteSet(Flying) /\ Cardinality(Flying) \in Nat
  BY <1>1, FiniteParts
<1>3. IsFiniteSet(Spending) /\ Cardinality(Spending) <= Cardinality(Flying)
      /\ Cardinality(Spending) \in Nat
  BY <1>1, <1>2, FS_Subset, FS_CardinalityType
<1>4. peak \in Nat /\ month \in Nat /\ Cardinality(Flying) <= peak
  BY FiniteParts, FiniteAttempts, FS_CardinalityType DEF MeteringType, TypeOK, Months
<1> QED BY <1>1, <1>2, <1>3, <1>4, MeteringAssumption DEF SpendingOK

\* So it is after a step.
LEMMA SpendingTypeNext == MeteringType' => SpendingOK'
  BY SpendingType, PTL

\* Fewer in flight, and the rest as it was.
LEMMA OvershootEases ==
  ASSUME MeteringType, OvershootInv, [Next]_vars, Spending' \subseteq Spending,
         month' = month, peak <= peak', \A m : Spent(m)' = Spent(m)
  PROVE  OvershootInv'
<1>1. MeteringType'
  BY MeteringTypeKept
<1>2. Spending' # {} => Spending # {}
  OBVIOUS
<1>3. Cardinality(Spending') <= Cardinality(Spending)
  BY SpendingType, FS_Subset DEF SpendingOK
<1>4. /\ Cardinality(Spending') \in Nat /\ Cardinality(Spending) \in Nat
      /\ peak \in Nat /\ peak' \in Nat /\ MaxCost \in Nat /\ Included \in Nat
  BY SpendingType, <1>1, SpendingTypeNext DEF SpendingOK
<1>5. Cardinality(Spending') * MaxCost <= Cardinality(Spending) * MaxCost
  BY <1>3, <1>4, Products
<1>6. peak * MaxCost <= peak' * MaxCost
  BY <1>4, Products
<1>7. /\ Cardinality(Spending') * MaxCost \in Nat /\ Cardinality(Spending) * MaxCost \in Nat
      /\ peak * MaxCost \in Nat /\ peak' * MaxCost \in Nat
  BY <1>4, Products
<1>8. \A m : Spent(m) \in Nat
  BY SpentType DEF MeteringType
<1>9. Spent(month)' = Spent(month)
  <2>1. PICK m : m = month
    OBVIOUS
  <2>2. Spent(m)' = Spent(m)
    OBVIOUS
  <2> QED BY <2>1, <2>2 DEF Spent
<1>10. OneAccountComplete' => OneAccountComplete
  BY WasComplete
<1> QED BY <1>2, <1>4, <1>5, <1>6, <1>7, <1>8, <1>9, <1>10 DEF OvershootInv

LEMMA OvershootOnAdmission ==
  ASSUME MeteringType, OvershootInv, [Next]_vars, NEW a \in Attempts, CheckAllowance(a)
  PROVE  OvershootInv'
<1>1. MeteringType'
  BY MeteringTypeKept
<1>2. month' = month /\ \A m : Spent(m)' = Spent(m)
  <2>1. ~\E b \in Attempts : RecordAttempt(b)
    BY DEF CheckAllowance, RecordAttempt, MeteringType, TypeOK, InFlight
  <2> QED BY <2>1, SpentSteps DEF CheckAllowance
<1>3. peak <= peak' /\ peak \in Nat /\ peak' \in Nat
  BY <1>1, SpendingType, SpendingTypeNext, FiniteParts DEF SpendingOK, CheckAllowance
<1>4. exhausted'[a] <=> Spent(month) >= Included
  BY DEF CheckAllowance, MeteringType, TypeOK
<1>5. \A m : Spent(m) \in Nat
  BY SpentType DEF MeteringType
<1>6. CASE exhausted'[a]
  <2>1. Spending' \subseteq Spending
    BY <1>6 DEF CheckAllowance, Spending, Flying, MeteringType, TypeOK
  <2> QED BY <1>2, <1>3, <2>1, OvershootEases
<1>7. CASE ~exhausted'[a]
  <2>1. Spent(month) < Included /\ Spent(month) \in Nat /\ Included \in Nat
    BY <1>4, <1>5, <1>7, MeteringAssumption
  <2>2. /\ Cardinality(Spending') \in Nat /\ Cardinality(Spending') <= peak' /\ MaxCost \in Nat
    BY <1>1, SpendingTypeNext DEF SpendingOK
  <2>3. /\ Cardinality(Spending') * MaxCost <= peak' * MaxCost
        /\ Cardinality(Spending') * MaxCost \in Nat /\ peak' * MaxCost \in Nat
    BY <1>3, <2>2, Products
  <2>4. Spent(month)' = Spent(month)
    <3>1. PICK m : m = month
      OBVIOUS
    <3> QED BY <1>2, <3>1 DEF Spent
  <2>5. Spent(month)' + Cardinality(Spending') * MaxCost < Included + peak' * MaxCost
    BY <2>1, <2>3, <2>4
  <2>6. peak * MaxCost <= peak' * MaxCost /\ peak * MaxCost \in Nat
    BY <1>3, <2>2, Products
  <2>7. OneAccountComplete' => OneAccountComplete
    BY WasComplete
  <2>8. ASSUME OneAccountComplete', NEW m \in Months, m < month, Spent(m) > 0
        PROVE  Spent(m) < Included + peak' * MaxCost
    <3>1. Spent(m) < Included + peak * MaxCost
      BY <2>7, <2>8 DEF OvershootInv
    <3> QED BY <1>5, <2>1, <2>3, <2>6, <3>1
  <2> QED BY <1>2, <2>1, <2>5, <2>8 DEF OvershootInv
<1> QED BY <1>6, <1>7

LEMMA OvershootOnRecord ==
  ASSUME MeteringType, ExhaustedIsRejected, OvershootInv, [Next]_vars,
         NEW a \in Attempts, RecordAttempt(a)
  PROVE  OvershootInv'
<1>0. \A m : Spent(m)' = IF m = month THEN cost[a] + Spent(m) ELSE Spent(m)
  BY SpentOnRecord
<1>1. month' = month /\ peak' = peak /\ exhausted' = exhausted /\ month \in Nat /\ month \in Months
  BY SpendingType DEF SpendingOK, RecordAttempt, MeteringType, TypeOK
<1>2. Spending' = Spending \ {a}
  BY <1>1 DEF RecordAttempt, Spending, Flying, InFlight, MeteringType, TypeOK
<1>3. Spending' # {} => Included > 0
  BY <1>2 DEF OvershootInv
<1>4. \A m \in Months : m > month => Spent(m)' = 0
  BY <1>0, <1>1 DEF OvershootInv, Months
<1>5. ASSUME OneAccountComplete' PROVE OneAccountComplete
  BY <1>5, WasComplete
<1>6. ASSUME OneAccountComplete
      PROVE  Spent(month)' + Cardinality(Spending') * MaxCost < Included + peak * MaxCost
  <2>1. a \in Spending
    BY <1>6 DEF ExhaustedIsRejected, Spending, Flying, InFlight, RecordAttempt
  <2>2. Spent(month) + Cardinality(Spending) * MaxCost < Included + peak * MaxCost
    BY <1>6, <2>1 DEF OvershootInv
  <2>3. Cardinality(Spending) = Cardinality(Spending') + 1 /\ Cardinality(Spending') \in Nat
    <3>1. IsFiniteSet(Spending) /\ Cardinality(Spending) \in Nat
      BY SpendingType DEF SpendingOK
    <3>2. Cardinality(Spending \ {a}) = Cardinality(Spending) - 1
      BY <2>1, <3>1, FS_RemoveElement
    <3>3. IsFiniteSet(Spending \ {a}) /\ Cardinality(Spending \ {a}) \in Nat
      BY <3>1, FS_Subset, FS_CardinalityType
    <3> QED BY <1>2, <3>1, <3>2, <3>3
  <2>4. cost[a] \in Nat /\ cost[a] <= MaxCost /\ MaxCost \in Nat /\ Included \in Nat /\ peak \in Nat
    BY SpendingType DEF SpendingOK, MeteringType, TypeOK
  <2>5. Cardinality(Spending) * MaxCost = Cardinality(Spending') * MaxCost + MaxCost
        /\ Cardinality(Spending') * MaxCost \in Nat /\ peak * MaxCost \in Nat
    BY <2>3, <2>4, Products
  <2>6. Spent(month)' = cost[a] + Spent(month) /\ Spent(month) \in Nat
    <3>1. PICK m : m = month
      OBVIOUS
    <3>2. Spent(month)' = Spent(m)'
      BY <1>1, <3>1 DEF Spent
    <3> QED BY <1>0, <3>1, <3>2, SpentType DEF MeteringType
  <2> QED BY <2>2, <2>4, <2>5, <2>6
<1>7. ASSUME OneAccountComplete, NEW m \in Months, m < month, Spent(m)' > 0
      PROVE  Spent(m)' < Included + peak * MaxCost
  BY <1>0, <1>1, <1>7 DEF OvershootInv, Months
<1> QED BY <1>1, <1>3, <1>4, <1>5, <1>6, <1>7 DEF OvershootInv

LEMMA OvershootOnNextMonth ==
  ASSUME MeteringType, OvershootInv, [Next]_vars, NextMonth
  PROVE  OvershootInv'
<1>1. /\ month' = month + 1 /\ peak' = peak /\ month \in Nat
      /\ Months \subseteq Nat /\ month' \in Months
  <2>1. month' \in Months
    BY MeteringTypeKept DEF MeteringType, TypeOK
  <2>2. month \in Nat
    BY SpendingType DEF SpendingOK
  <2>3. Months \subseteq Nat
    BY DEF Months
  <2> QED BY <2>1, <2>2, <2>3 DEF NextMonth
<1>2. Spending' = Spending /\ OneAccountComplete' = OneAccountComplete
  BY DEF NextMonth, attempt, Spending, Flying, OneAccountComplete
<1>3. \A m : Spent(m)' = Spent(m) /\ Spent(m) \in Nat
  BY SpentType DEF NextMonth, attempt, Spent, MeteringType
<1>4. Spent(month)' = 0
  <2>1. PICK m : m = month'
    OBVIOUS
  <2>2. Spent(m) = 0
    BY <1>1, <2>1 DEF OvershootInv
  <2>3. Spent(month)' = Spent(m)'
    BY <2>1 DEF Spent
  <2> QED BY <1>3, <2>2, <2>3
<1>5. /\ Cardinality(Spending) * MaxCost <= peak * MaxCost
      /\ Cardinality(Spending) * MaxCost \in Nat /\ peak * MaxCost \in Nat /\ Included \in Nat
  BY SpendingType, Products DEF SpendingOK
<1>6. Spending # {} => 0 + Cardinality(Spending) * MaxCost < Included + peak * MaxCost
  BY <1>5 DEF OvershootInv
<1>7. ASSUME OneAccountComplete, NEW m \in Months, m < month', Spent(m) > 0
      PROVE  Spent(m) < Included + peak * MaxCost
  <2>1. CASE m < month
    BY <1>7, <2>1 DEF OvershootInv
  <2>2. CASE m = month
    <3>1. Spent(m) + Cardinality(Spending) * MaxCost < Included + peak * MaxCost
      BY <1>7, <2>2 DEF OvershootInv
    <3> QED BY <1>3, <1>5, <3>1
  <2> QED BY <1>1, <1>7, <2>1, <2>2
<1>8. Spending' # {} => Included > 0
  BY <1>2 DEF OvershootInv
<1>9. \A m \in Months : m > month' => Spent(m)' = 0
  BY <1>1, <1>3 DEF OvershootInv
<1> QED BY <1>1, <1>2, <1>3, <1>4, <1>6, <1>7, <1>8, <1>9 DEF OvershootInv

LEMMA OvershootKept ==
  ASSUME MeteringType, ExhaustedIsRejected, OvershootInv, [Next]_vars
  PROVE  OvershootInv'
<1>1. CASE \E a \in Attempts : CheckAllowance(a)
  BY <1>1, OvershootOnAdmission
<1>2. CASE NextMonth
  BY <1>2, OvershootOnNextMonth
<1>3. CASE \E a \in Attempts : RecordAttempt(a)
  BY <1>3, OvershootOnRecord
<1>4. CASE ~(\E a \in Attempts : CheckAllowance(a) \/ RecordAttempt(a)) /\ ~NextMonth
  <2>1. \A m : Spent(m)' = Spent(m)
    BY <1>4, SpentSteps
  <2>2. Spending' \subseteq Spending /\ month' = month /\ peak' = peak
    <3> USE DEF MeteringType, TypeOK, Spending, Flying
    <3>1. ASSUME NEW a \in Attempts,
                 ReadCounter(a) \/ Refused(a) \/ Acquire(a) \/ AdmissionFails(a) \/ Dies(a)
                 \/ LeaseExpires(a)
          PROVE  Spending' \subseteq Spending /\ month' = month /\ peak' = peak
      BY <3>1 DEF ReadCounter, Refused, Acquire, AdmissionFails, Dies, LeaseExpires, attempt,
                  InFlight
    <3>2. ASSUME NEW a \in Attempts,
                 (\E c \in 0 .. MaxCost : Settle(a, c)) \/ ChargeOnce(a) \/ ChargeResent(a)
          PROVE  Spending' \subseteq Spending /\ month' = month /\ peak' = peak
      BY <3>2 DEF Settle, ChargeOnce, ChargeResent, attempt, InFlight
    <3>3. CASE RedisLoses \/ UNCHANGED vars
      BY <3>3 DEF RedisLoses, vars, attempt
    <3> QED BY <1>4, <3>1, <3>2, <3>3 DEF Next, Hook, SettleSome
  <2> QED BY <2>1, <2>2, OvershootEases, SpendingType DEF SpendingOK
<1> QED BY <1>1, <1>2, <1>3, <1>4

\* The overshoot of a reject policy is bounded by what is in flight, for any plan,
\* attempts and charges (billing.go:739-742).
THEOREM OvershootStaysBounded == Spec => []OvershootBounded
<1>1. Init => OvershootInv
  <2> SUFFICES ASSUME Init PROVE OvershootInv
    OBVIOUS
  <2>1. ASSUME NEW m PROVE Spent(m) = 0
    <3>1. {a \in Attempts : stage[a] = "done" /\ to[a] = m} = {}
      BY DEF Init
    <3> QED BY <3>1, SumEmpty DEF Spent
  <2>2. Spending = {}
    BY DEF Init, Spending, Flying, InFlight
  <2> QED BY <2>1, <2>2 DEF OvershootInv
<1>2. MeteringType /\ ExhaustedIsRejected /\ OvershootInv /\ [Next]_vars => OvershootInv'
  BY OvershootKept
<1>3. ASSUME MeteringType, OvershootInv
      PROVE  OvershootBounded
  <2> SUFFICES ASSUME OneAccountComplete, NEW m \in Months, Spent(m) > 0
               PROVE  Spent(m) < Included + peak * MaxCost
    BY DEF OvershootBounded
  <2>1. /\ Cardinality(Spending) * MaxCost \in Nat /\ peak * MaxCost \in Nat
        /\ Included \in Nat /\ month \in Nat /\ m \in Nat /\ Spent(m) \in Nat
    BY <1>3, SpendingType, Products, SpentType DEF SpendingOK, MeteringType, Months
  <2>2. CASE m < month
    BY <1>3, <2>2 DEF OvershootInv
  <2>3. CASE m = month
    <3>1. Spent(m) + Cardinality(Spending) * MaxCost < Included + peak * MaxCost
      BY <1>3, <2>3 DEF OvershootInv
    <3> QED BY <2>1, <3>1
  <2>4. CASE m > month
    BY <1>3, <2>1, <2>4 DEF OvershootInv
  <2> QED BY <2>1, <2>2, <2>3, <2>4
<1> QED BY <1>1, <1>2, <1>3, CreditInvariant, PTL DEF Spec

=============================================================================
