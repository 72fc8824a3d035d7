----------------------- MODULE TenantIsolation_proofs -----------------------
(***************************************************************************)
(* Tenants are kept apart for any number of tenants, tables, foreign keys, *)
(* migrating processes and pooled connections.                             *)
(*                                                                         *)
(* The argument has two halves.  Connections: whatever a pooled connection *)
(* served before, its settings say whom it works for now, and nobody works *)
(* for a tenant before the preflight saw every policy (Bindings,           *)
(* ServesChecked).  Schema: the committed rows satisfy the constraints of  *)
(* the migrations applied so far, in whatever order runs, crashes and      *)
(* rollbacks get there, because both sets are applied and rolled back in   *)
(* order (ConstraintsHold, KeysNeedOwners, CountedHolds).                  *)
(***************************************************************************)
EXTENDS TenantIsolation, FiniteSetTheorems, TLAPS

\* The settings of a connection say whom its transaction works for, and one
\* between transactions is bound to nobody.
BoundTo(c) ==
    /\ conn[c].intent \in Tenants => conn[c].set.tenant = conn[c].intent /\ Check
    /\ conn[c].intent \notin Tenants => conn[c].set.tenant \in {Null, ""}
    /\ conn[c].intent = "across" => conn[c].set.platform = "on"
    /\ conn[c].intent # "across" => conn[c].set.platform \in {Null, ""}

Bindings == \A c \in Conns : BoundTo(c)

\* A gateway that serves still has what its preflight saw.
ServesChecked == \A p \in Processes : proc[p].does = "serving" => Check

\* A composite key stands on a column that is NOT NULL.
KeysNeedOwners == \A e \in ToSet(TenantFKs) : HasFK(e) => IsNotNull(e.child)

\* From the count of a migration to its policy, an unowned row is a raced one.
CountedHolds ==
    \A p \in Processes : proc[p].counted =>
        /\ proc[p].at # None
        /\ \A t \in ToSet(BClassTables) :
              proc[p].at = Step("policy", t) /\ Unattributed(t) => t \in raced

IsolationInv ==
    /\ TypeOK
    /\ Bindings
    /\ ServesChecked
    /\ ConstraintsHold(rows)
    /\ KeysNeedOwners
    /\ CountedHolds
    /\ NothingHidden

-----------------------------------------------------------------------------
(* The tables and the two sets of migrations.                               *)

\* What a concatenation consists of.
LEMMA Concatenation ==
    ASSUME NEW S, NEW a \in Seq(S), NEW b \in Seq(S)
    PROVE  /\ a \o b \in Seq(S) /\ Len(a \o b) = Len(a) + Len(b)
           /\ DOMAIN (a \o b) = 1..(Len(a) + Len(b))
           /\ \A i \in 1..(Len(a) + Len(b)) :
                /\ i <= Len(a) => (a \o b)[i] = a[i]
                /\ ~(i <= Len(a)) => (a \o b)[i] = b[i - Len(a)] /\ i - Len(a) \in 1..Len(b)
  OBVIOUS

\* What is assumed of the tables and edges, in parts.
LEMMA Listed ==
    /\ BClassTables \in Seq(ToSet(BClassTables))
    /\ TenantFKs \in Seq(Edge)
    /\ IsInjective(TenantScopedTables)
<1> HIDE DEF Edge
<1> QED BY TablesAssumption, Zenon

\* The strict tables come first, then the key pool and the sessions, and no
\* table is listed twice.
LEMMA TablesShape ==
    /\ TenantScopedTables \in Seq(Tables)
    /\ ToSet(BClassTables) \subseteq Tables
    /\ CClassTable \in Tables /\ SessionsTable \in Tables
    /\ CClassTable # SessionsTable
    /\ \A t \in ToSet(BClassTables) : PolicyKindFor(t) = "strict"
<1> DEFINE n == Len(BClassTables)
           s == TenantScopedTables
<1>1. /\ BClassTables \in Seq(ToSet(BClassTables)) /\ n \in Nat
      /\ DOMAIN BClassTables = 1..n
  BY Listed
<1>2. /\ s \in Seq(ToSet(BClassTables) \cup {CClassTable, SessionsTable})
      /\ Len(s) = n + 2 /\ DOMAIN s = 1..(n + 2)
      /\ \A i \in 1..n : s[i] = BClassTables[i]
      /\ s[n + 1] = CClassTable /\ s[n + 2] = SessionsTable
  BY <1>1 DEF TenantScopedTables
<1> HIDE DEF n, s
<1>3. \A i \in DOMAIN s : s[i] \in Tables
  BY DEF s, Tables, ToSet
<1>4. s \in Seq(Tables)
  BY <1>2, <1>3
<1>5. \A t \in ToSet(BClassTables) : \E i \in 1..n : t = s[i]
  BY <1>1, <1>2 DEF ToSet
<1>6. ToSet(BClassTables) \subseteq Tables /\ CClassTable \in Tables /\ SessionsTable \in Tables
  BY <1>1, <1>2, <1>3, <1>5
<1>7. \A i, j \in 1..(n + 2) : s[i] = s[j] => i = j
  BY <1>2, Listed DEF IsInjective, s
<1>8. CClassTable # SessionsTable
  BY <1>1, <1>2, <1>7
<1>9. \A t \in ToSet(BClassTables) : t # CClassTable /\ t # SessionsTable
  BY <1>1, <1>2, <1>5, <1>7
<1> QED
  BY <1>4, <1>6, <1>8, <1>9 DEF PolicyKindFor, s

\* Every column is added before any policy is installed.
LEMMA MigrationsShape ==
    /\ \A i \in DOMAIN Migrations :
          \E t \in Tables : Migrations[i] \in {Step("column", t), Step("policy", t)}
    /\ \A i, j \in DOMAIN Migrations :
          Migrations[i].kind = "column" /\ Migrations[j].kind = "policy" => i < j
    /\ DOMAIN Migrations \subseteq Nat
<1> DEFINE s == TenantScopedTables
           n == Len(s)
           a == Steps("column", s)
           b == Steps("policy", s)
           R == [kind : {"column", "policy"}, on : Tables]
<1>1. s \in Seq(Tables) /\ n \in Nat /\ DOMAIN s = 1..n /\ \A i \in 1..n : s[i] \in Tables
  BY TablesShape
<1>2. /\ a \in Seq(R) /\ Len(a) = n /\ \A i \in 1..n : a[i] = Step("column", s[i])
      /\ b \in Seq(R) /\ Len(b) = n /\ \A i \in 1..n : b[i] = Step("policy", s[i])
  BY <1>1 DEF Steps, Step
<1> HIDE DEF s, n, a, b
<1>3. /\ DOMAIN (a \o b) = 1..(n + n)
      /\ \A i \in 1..(n + n) : i <= n => (a \o b)[i] = a[i]
      /\ \A i \in 1..(n + n) : ~(i <= n) => (a \o b)[i] = b[i - n] /\ i - n \in 1..n
  BY <1>1, <1>2
<1>4. Migrations = a \o b
  BY DEF Migrations, a, b, s
<1>5. ASSUME NEW i \in 1..(n + n)
      PROVE  /\ i <= n => \E t \in Tables : Migrations[i] = Step("column", t)
             /\ ~(i <= n) => \E t \in Tables : Migrations[i] = Step("policy", t)
  <2>1. CASE i <= n
    <3>1. i \in 1..n
      BY <1>1, <2>1
    <3> QED BY <1>1, <1>2, <1>3, <1>4, <2>1, <3>1
  <2>2. CASE ~(i <= n)
    <3>1. Migrations[i] = b[i - n] /\ i - n \in 1..n
      BY <1>3, <1>4, <2>2
    <3> QED BY <1>1, <1>2, <2>2, <3>1
  <2> QED BY <2>1, <2>2
<1>6. ASSUME NEW i \in 1..(n + n)
      PROVE  /\ Migrations[i].kind = "column" => i <= n
             /\ Migrations[i].kind = "policy" => ~(i <= n)
  <2>1. \A t : Step("column", t).kind = "column" /\ Step("policy", t).kind = "policy"
    BY DEF Step
  <2> QED BY <1>5, <2>1
<1>7. \A i, j \in DOMAIN Migrations :
          Migrations[i].kind = "column" /\ Migrations[j].kind = "policy" => i < j
  <2> SUFFICES ASSUME NEW i \in 1..(n + n), NEW j \in 1..(n + n),
                      Migrations[i].kind = "column", Migrations[j].kind = "policy"
               PROVE  i < j
    BY <1>3, <1>4
  <2>1. i <= n /\ ~(j <= n)
    BY <1>6
  <2> QED BY <1>1, <2>1
<1>8. DOMAIN Migrations \subseteq Nat
  BY <1>1, <1>3, <1>4
<1> QED
  BY <1>3, <1>4, <1>5, <1>7, <1>8

LEMMA ParentsListed ==
    /\ SetToSeq(ParentTables) \in Seq(ParentTables)
    /\ Len(SetToSeq(ParentTables)) \in Nat
<1> DEFINE n == Len(TenantFKs)
           f == [i \in 1..n |-> TenantFKs[i].parent]
<1>1. n \in Nat /\ DOMAIN TenantFKs = 1..n
  BY Listed
<1>2. f \in Surjection(1..n, ParentTables)
  BY <1>1 DEF Surjection, ParentTables, ToSet
<1>3. IsFiniteSet(1..n)
  BY <1>1, FS_Interval
<1>4. IsFiniteSet(ParentTables)
  <2> HIDE DEF f, n
  <2> QED BY <1>2, <1>3, FS_Surjection
<1>5. Cardinality(ParentTables) \in Nat /\ ExistsBijection(1..Cardinality(ParentTables), ParentTables)
  BY <1>4, FS_CardinalityType
<1>6. \E g \in [1..Cardinality(ParentTables) -> ParentTables] : IsInjective(g)
  BY <1>5 DEF ExistsBijection, Bijection, Injection
<1>7. SetToSeq(ParentTables) \in [1..Cardinality(ParentTables) -> ParentTables]
  BY <1>6 DEF SetToSeq
<1> QED
  BY <1>5, <1>7

\* Every column is NOT NULL before any composite key is added.
LEMMA TighteningShape ==
    /\ \A i \in DOMAIN TighteningMigrations :
          \E t : TighteningMigrations[i] \in {Step("notnull", t), Step("parentkey", t), Step("fk", t)}
    /\ \A i, j \in DOMAIN TighteningMigrations :
          TighteningMigrations[i].kind = "notnull" /\ TighteningMigrations[j].kind = "fk" => i < j
    /\ DOMAIN TighteningMigrations \subseteq Nat
<1> DEFINE u == BClassTables
           v == SetToSeq(ParentTables)
           w == TenantFKs
           k == Len(u)
           l == Len(v)
           m == Len(w)
           a == Steps("notnull", u)
           b == Steps("parentkey", v)
           c == Steps("fk", w)
           U == ToSet(BClassTables) \cup ParentTables \cup Edge
           R == [kind : {"notnull", "parentkey", "fk"}, on : U]
<1>1. u \in Seq(U) /\ k \in Nat /\ DOMAIN u = 1..k /\ \A i \in 1..k : u[i] \in U
  <2>1. u \in Seq(ToSet(BClassTables))
    BY Listed
  <2> QED BY <2>1
<1>2. v \in Seq(U) /\ l \in Nat /\ DOMAIN v = 1..l /\ \A i \in 1..l : v[i] \in U
  BY ParentsListed
<1>3. w \in Seq(U) /\ m \in Nat /\ DOMAIN w = 1..m /\ \A i \in 1..m : w[i] \in U
  <2>1. w \in Seq(Edge)
    BY Listed
  <2> HIDE DEF w
  <2> QED BY <2>1
<1>4. /\ a \in Seq(R) /\ Len(a) = k /\ \A i \in 1..k : a[i] = Step("notnull", u[i])
      /\ b \in Seq(R) /\ Len(b) = l /\ \A i \in 1..l : b[i] = Step("parentkey", v[i])
      /\ c \in Seq(R) /\ Len(c) = m /\ \A i \in 1..m : c[i] = Step("fk", w[i])
  <2> HIDE DEF u, v, w, k, l, m, U
  <2> QED BY <1>1, <1>2, <1>3 DEF Steps, Step
<1>5. TighteningMigrations = a \o b \o c
  BY DEF TighteningMigrations
<1> HIDE DEF u, v, w, k, l, m, a, b, c, U, R
<1>6. /\ a \o b \in Seq(R) /\ Len(a \o b) = k + l
      /\ \A i \in 1..(k + l) : i <= k => (a \o b)[i] = a[i]
      /\ \A i \in 1..(k + l) : ~(i <= k) => (a \o b)[i] = b[i - k] /\ i - k \in 1..l
  <2>1. a \in Seq(R) /\ b \in Seq(R)
    BY <1>4
  <2>2. Len(a) = k /\ Len(b) = l
    BY <1>4
  <2>3. /\ a \o b \in Seq(R) /\ Len(a \o b) = Len(a) + Len(b)
        /\ \A i \in 1..(Len(a) + Len(b)) :
                /\ i <= Len(a) => (a \o b)[i] = a[i]
                /\ ~(i <= Len(a)) => (a \o b)[i] = b[i - Len(a)] /\ i - Len(a) \in 1..Len(b)
    BY <2>1, Concatenation
  <2> QED BY <2>2, <2>3, Zenon
<1> DEFINE ab == a \o b
<1> HIDE DEF ab
<1>7. /\ DOMAIN (ab \o c) = 1..(k + l + m)
      /\ \A i \in 1..(k + l + m) : i <= k + l => (ab \o c)[i] = ab[i]
      /\ \A i \in 1..(k + l + m) :
            ~(i <= k + l) => (ab \o c)[i] = c[i - (k + l)] /\ i - (k + l) \in 1..m
  <2>1. ab \in Seq(R) /\ c \in Seq(R)
    BY <1>4, <1>6 DEF ab
  <2>2. Len(ab) = k + l /\ Len(c) = m
    BY <1>4, <1>6 DEF ab
  <2>3. /\ DOMAIN (ab \o c) = 1..(Len(ab) + Len(c))
        /\ \A i \in 1..(Len(ab) + Len(c)) :
                /\ i <= Len(ab) => (ab \o c)[i] = ab[i]
                /\ ~(i <= Len(ab)) => (ab \o c)[i] = c[i - Len(ab)] /\ i - Len(ab) \in 1..Len(c)
    BY <2>1, Concatenation
  <2> QED BY <2>2, <2>3, Zenon
<1>13. TighteningMigrations = ab \o c
  BY <1>5 DEF ab
<1>8. ASSUME NEW i \in 1..(k + l + m)
      PROVE  /\ i <= k => TighteningMigrations[i] = Step("notnull", u[i])
             /\ ~(i <= k) /\ i <= k + l => TighteningMigrations[i] = Step("parentkey", v[i - k])
             /\ ~(i <= k + l) => TighteningMigrations[i] = Step("fk", w[i - (k + l)])
  <2>1. CASE i <= k
    <3>1. i \in 1..k /\ i \in 1..(k + l) /\ i <= k + l
      BY <1>1, <1>2, <2>1
    <3>2. TighteningMigrations[i] = a[i]
      BY <1>6, <1>7, <1>13, <2>1, <3>1 DEF ab
    <3> QED BY <1>4, <2>1, <3>1, <3>2
  <2>2. CASE ~(i <= k) /\ i <= k + l
    <3>1. i \in 1..(k + l)
      BY <1>1, <1>2, <2>2
    <3>2. TighteningMigrations[i] = b[i - k] /\ i - k \in 1..l
      BY <1>6, <1>7, <1>13, <2>2, <3>1 DEF ab
    <3> QED BY <1>4, <2>2, <3>2
  <2>3. CASE ~(i <= k + l)
    <3>1. ~(i <= k)
      BY <1>1, <1>2, <1>3, <2>3
    <3>2. TighteningMigrations[i] = c[i - (k + l)] /\ i - (k + l) \in 1..m
      BY <1>7, <1>13, <2>3
    <3> QED BY <1>4, <2>3, <3>1, <3>2
  <2> QED BY <2>1, <2>2, <2>3
<1>9. ASSUME NEW i \in 1..(k + l + m)
      PROVE  /\ TighteningMigrations[i].kind = "notnull" => i <= k
             /\ TighteningMigrations[i].kind = "fk" => ~(i <= k + l)
  <2>1. \A t : /\ Step("notnull", t).kind = "notnull" /\ Step("fk", t).kind = "fk"
               /\ Step("parentkey", t).kind = "parentkey"
    BY DEF Step
  <2>2. i <= k => i <= k + l
    BY <1>1, <1>2
  <2>3. CASE i <= k
    BY <1>8, <2>1, <2>2, <2>3
  <2>4. CASE ~(i <= k) /\ i <= k + l
    BY <1>8, <2>1, <2>4
  <2>5. CASE ~(i <= k + l)
    BY <1>8, <2>1, <2>2, <2>5
  <2> QED BY <2>3, <2>4, <2>5
<1>10. \A i, j \in DOMAIN TighteningMigrations :
          TighteningMigrations[i].kind = "notnull" /\ TighteningMigrations[j].kind = "fk" => i < j
  <2> SUFFICES ASSUME NEW i \in 1..(k + l + m), NEW j \in 1..(k + l + m),
                      TighteningMigrations[i].kind = "notnull",
                      TighteningMigrations[j].kind = "fk"
               PROVE  i < j
    BY <1>7, <1>13
  <2>1. i <= k /\ ~(j <= k + l)
    BY <1>9
  <2> QED BY <1>1, <1>2, <1>3, <2>1
<1>11. ASSUME NEW i \in 1..(k + l + m)
       PROVE  \E t : TighteningMigrations[i] \in {Step("notnull", t), Step("parentkey", t), Step("fk", t)}
  BY <1>8
<1>12. DOMAIN TighteningMigrations \subseteq Nat
  BY <1>1, <1>2, <1>3, <1>7, <1>13
<1> QED
  BY <1>7, <1>13, <1>10, <1>11, <1>12

\* The kind of a migration says which set it is of.
LEMMA KindsOfSets ==
    /\ \A m \in ToSet(Migrations) : /\ m.kind \in {"column", "policy"} /\ m.on \in Tables
                                    /\ m = Step(m.kind, m.on)
    /\ \A m \in ToSet(TighteningMigrations) : /\ m.kind \in {"notnull", "parentkey", "fk"}
                                              /\ m = Step(m.kind, m.on)
<1>1. \A k, t : Step(k, t).kind = k /\ Step(k, t).on = t
  BY DEF Step
<1> QED
  BY <1>1, MigrationsShape, TighteningShape DEF ToSet

\* What a rollback takes away: the last migration applied.  A column goes only
\* when no policy and nothing of the second set is left, NOT NULL only when no
\* composite key is left.
RolledBack(m) ==
    /\ m \in applied /\ applied' = applied \ {m}
    /\ \A p \in Processes : proc[p].at = None
    /\ UNCHANGED <<conn, proc, exempt>>
    /\ \/ /\ m.kind = "column" /\ m.on \in Tables
          /\ \A t : ~HasPolicy(t) /\ ~IsNotNull(t) /\ ~HasFK(t)
          /\ rows' = [rows EXCEPT ![m.on] = DropTenantColumn(rows[m.on])]
          /\ raced' = raced
          /\ \A p \in Processes : proc[p].does = "down"
          /\ \A c \in Conns : conn[c].intent = None
       \/ /\ m.kind = "policy" /\ m.on \in Tables
          /\ \A t : ~IsNotNull(t) /\ ~HasFK(t)
          /\ rows' = rows /\ raced' = raced \ {m.on}
          /\ \A p \in Processes : proc[p].does = "down"
          /\ \A c \in Conns : conn[c].intent = None
       \/ /\ m.kind \in {"notnull", "parentkey", "fk"}
          /\ m.kind = "notnull" => \A t : ~HasFK(t)
          /\ rows' = rows /\ raced' = raced
    /\ m = Step(m.kind, m.on)

LEMMA RollbackIsLast ==
    ASSUME TypeOK, RollbackLast(Migrations) \/ RollbackLast(TighteningMigrations)
    PROVE  \E m : RolledBack(m)
<1>0. \A k, t : Step(k, t).kind = k /\ Step(k, t).on = t
  BY DEF Step
<1>1. CASE RollbackLast(Migrations)
  <2>1. PICK i \in DOMAIN Migrations :
          /\ Migrations[i] \in applied
          /\ \A j \in DOMAIN Migrations : Migrations[j] \in applied => j <= i
          /\ applied' = applied \ {Migrations[i]}
          /\ rows' = IF Migrations[i].kind = "column"
                     THEN [rows EXCEPT ![Migrations[i].on] = DropTenantColumn(@)]
                     ELSE rows
          /\ raced' = IF Migrations[i].kind = "policy" THEN raced \ {Migrations[i].on} ELSE raced
    BY <1>1 DEF RollbackLast
  <2> DEFINE m == Migrations[i]
  <2>2. m \in ToSet(Migrations)
    BY DEF ToSet
  <2>3. m.kind \in {"column", "policy"} /\ m.on \in Tables /\ m = Step(m.kind, m.on)
    BY <2>2, KindsOfSets
  <2>4. \A t : ~IsNotNull(t) /\ ~HasFK(t)
    BY <1>0, <1>1, KindsOfSets DEF RollbackLast, IsNotNull, HasFK
  <2>5. ASSUME m.kind = "column", NEW t, HasPolicy(t) PROVE FALSE
    <3>1. Step("policy", t) \in ToSet(Migrations)
      BY <1>1, <2>5 DEF RollbackLast, HasPolicy
    <3>2. PICK j \in DOMAIN Migrations : Migrations[j] = Step("policy", t)
      BY <3>1 DEF ToSet
    <3>3. j <= i
      BY <2>1, <2>5, <3>2 DEF HasPolicy
    <3>4. i < j
      BY <1>0, <2>5, <3>2, MigrationsShape
    <3> QED BY <3>3, <3>4, MigrationsShape
  <2>6. UNCHANGED <<conn, proc, exempt>> /\ (\A p \in Processes : proc[p].at = None)
        /\ (\A p \in Processes : proc[p].does = "down") /\ (\A c \in Conns : conn[c].intent = None)
    BY <1>1 DEF RollbackLast
  <2>7. RolledBack(m)
    BY <2>1, <2>3, <2>4, <2>5, <2>6 DEF RolledBack
  <2> QED BY <2>7
<1>2. CASE RollbackLast(TighteningMigrations)
  <2> DEFINE set == TighteningMigrations
  <2>1. PICK i \in DOMAIN set :
          /\ set[i] \in applied
          /\ \A j \in DOMAIN set : set[j] \in applied => j <= i
          /\ applied' = applied \ {set[i]}
          /\ rows' = IF set[i].kind = "column"
                     THEN [rows EXCEPT ![set[i].on] = DropTenantColumn(@)]
                     ELSE rows
          /\ raced' = IF set[i].kind = "policy" THEN raced \ {set[i].on} ELSE raced
    BY <1>2 DEF RollbackLast
  <2> DEFINE m == set[i]
  <2>2. m \in ToSet(set)
    BY DEF ToSet
  <2>3. m.kind \in {"notnull", "parentkey", "fk"} /\ m = Step(m.kind, m.on)
    BY <2>2, KindsOfSets
  <2>5. ASSUME m.kind = "notnull", NEW t, HasFK(t) PROVE FALSE
    <3>1. Step("fk", t) \in ToSet(set)
      BY <1>0, <2>5, KindsOfSets DEF HasFK, TypeOK, AllSteps
    <3>2. PICK j \in DOMAIN set : set[j] = Step("fk", t)
      BY <3>1 DEF ToSet
    <3>3. j <= i
      BY <2>1, <2>5, <3>2 DEF HasFK
    <3>4. i < j
      BY <1>0, <2>5, <3>2, TighteningShape
    <3> QED BY <3>3, <3>4, TighteningShape
  <2>6. UNCHANGED <<conn, proc, exempt>> /\ (\A p \in Processes : proc[p].at = None)
    BY <1>2 DEF RollbackLast
  <2>7. RolledBack(m)
    BY <2>1, <2>3, <2>5, <2>6 DEF RolledBack
  <2> QED BY <2>7
<1> QED
  BY <1>1, <1>2

-----------------------------------------------------------------------------
(* Types.                                                                   *)

LEMMA RowFacts ==
    /\ NoRow \notin Row
    /\ \A r \in Row : /\ DropTenantColumn(r) \in Row
                      /\ DropTenantColumn(r).tenant = Null
                      /\ DropTenantColumn(r).principal = Null
                      /\ DropTenantColumn(r).refs = r.refs
    /\ DropTenantColumn(NoRow) = NoRow
<1>1. NoRow \notin Row
  BY ValuesAssumption
<1> QED
  BY <1>1 DEF DropTenantColumn, Row

\* The rows upstream's actions leave are rows: a pointer may be nulled, an owner
\* and a principal stay.
LEMMA NulledFacts ==
    ASSUME NEW gone
    PROVE  /\ Nulled(NoRow, gone) = NoRow
           /\ \A r \in Row : /\ Nulled(r, gone) \in Row
                             /\ Nulled(r, gone).tenant = r.tenant
<1>1. NoRow \notin Row
  BY ValuesAssumption
<1>2. ASSUME NEW r \in Row
      PROVE  Nulled(r, gone) \in Row /\ Nulled(r, gone).tenant = r.tenant
  <2> DEFINE R == {e \in r.refs : ~(e.onDelete = "SET NULL" /\ e.parent \in gone)}
  <2>1. r.refs \in SUBSET ToSet(TenantFKs)
    BY DEF Row
  <2>2. R \in SUBSET ToSet(TenantFKs)
    BY <2>1
  <2>3. Nulled(r, gone) = [r EXCEPT !.refs = R]
    BY <1>1 DEF Nulled
  <2> HIDE DEF R
  <2> QED BY <2>2, <2>3 DEF Row
<1> QED
  BY <1>2 DEF Nulled

\* A pointer that may not be NULL is not nulled.
LEMMA NulledShape ==
    ASSUME NEW gone, NEW t, NEW r \in RowsOf(t), r \in Row
    PROVE  Nulled(r, gone) \in RowsOf(t)
<1> DEFINE P == {R \in SUBSET EdgesOf(t) : \A e \in EdgesOf(t) : e.nullable \/ e \in R}
           Q == {e \in r.refs : ~(e.onDelete = "SET NULL" /\ e.parent \in gone)}
<1>1. r \in [tenant : Tenants \cup {Null}, refs : P, principal : Principals(t)]
  BY DEF RowsOf
<1>2. r.refs \in P
  <2> HIDE DEF P
  <2> QED BY <1>1
<1>3. Q \in P
  <2>1. \A e \in EdgesOf(t) : e.onDelete = "SET NULL" => e.nullable
    BY TablesAssumption DEF EdgesOf
  <2> QED BY <1>2, <2>1
<1>4. Nulled(r, gone) = [r EXCEPT !.refs = Q]
  BY ValuesAssumption DEF Nulled
<1> HIDE DEF P, Q
<1>5. Nulled(r, gone) \in [tenant : Tenants \cup {Null}, refs : P, principal : Principals(t)]
  BY <1>1, <1>3, <1>4
<1> QED
  BY <1>5 DEF RowsOf, P

LEMMA DroppedShape ==
    ASSUME NEW t, NEW r \in RowsOf(t), r \in Row
    PROVE  DropTenantColumn(r) \in RowsOf(t)
<1> DEFINE P == {R \in SUBSET EdgesOf(t) : \A e \in EdgesOf(t) : e.nullable \/ e \in R}
<1>1. r \in [tenant : Tenants \cup {Null}, refs : P, principal : Principals(t)]
  BY DEF RowsOf
<1>2. DropTenantColumn(r) = [r EXCEPT !.tenant = Null, !.principal = Null]
  BY ValuesAssumption DEF DropTenantColumn
<1>3. Null \in Principals(t)
  BY DEF Principals
<1> HIDE DEF P
<1>4. DropTenantColumn(r) \in [tenant : Tenants \cup {Null}, refs : P, principal : Principals(t)]
  BY <1>1, <1>2, <1>3
<1> QED
  BY <1>4 DEF RowsOf, P

\* What a delete leaves: nothing of the table, and nothing of the owners changed
\* elsewhere.
LEMMA DeletedFacts ==
    ASSUME TypeOK, NEW t \in Tables
    PROVE  /\ Deleted(t) \in [Tables -> Row \cup {NoRow}]
           /\ Deleted(t)[t] = NoRow
           /\ \A u \in Tables : Deleted(t)[u] # NoRow =>
                 rows[u] # NoRow /\ Deleted(t)[u].tenant = rows[u].tenant
           /\ \A u \in Tables : \/ u \in Cascaded(t)
                                \/ Deleted(t)[u] = Nulled(rows[u], Cascaded(t))
           /\ \A u \in Tables : Deleted(t)[u] # NoRow => Deleted(t)[u] \in RowsOf(u)
<1> DEFINE gone == Cascaded(t)
<1>1. t \in gone
  BY DEF Cascaded
<1>2. \A u \in Tables : rows[u] \in Row \/ rows[u] = NoRow
  BY DEF TypeOK
<1>3. Deleted(t) = [u \in Tables |-> IF u \in gone THEN NoRow ELSE Nulled(rows[u], gone)]
  BY DEF Deleted
<1> HIDE DEF gone
<1>4. \A u \in Tables : /\ Nulled(rows[u], gone) \in Row \cup {NoRow}
                        /\ Nulled(rows[u], gone) # NoRow =>
                              rows[u] # NoRow /\ Nulled(rows[u], gone).tenant = rows[u].tenant
  BY <1>2, NulledFacts
<1>5. \A u \in Tables : Nulled(rows[u], gone) # NoRow => Nulled(rows[u], gone) \in RowsOf(u)
  <2> SUFFICES ASSUME NEW u \in Tables, Nulled(rows[u], gone) # NoRow
               PROVE  Nulled(rows[u], gone) \in RowsOf(u)
    OBVIOUS
  <2>1. rows[u] # NoRow
    BY <1>4
  <2>2. rows[u] \in RowsOf(u) /\ rows[u] \in Row
    BY <2>1 DEF TypeOK
  <2> QED BY <2>2, NulledShape
<1> QED
  BY <1>1, <1>3, <1>4, <1>5 DEF gone

LEMMA InitTypes == Init => TypeOK
<1> SUFFICES ASSUME Init PROVE TypeOK
  OBVIOUS
<1>1. rows \in [Tables -> Row \cup {NoRow}]
  <2>1. \A t, refs : refs \in SUBSET ToSet(TenantFKs) =>
            [tenant |-> Null, refs |-> refs \cap EdgesOf(t), principal |-> Null] \in Row
    BY DEF Row
  <2>2. PICK present \in SUBSET Tables, refs \in SUBSET ToSet(TenantFKs) :
          rows = [t \in Tables |->
                    IF t \in present
                    THEN [tenant |-> Null, refs |-> refs \cap EdgesOf(t), principal |-> Null]
                    ELSE NoRow]
    BY DEF Init
  <2>3. \A t \in Tables :
            [tenant |-> Null, refs |-> refs \cap EdgesOf(t), principal |-> Null] \in Row
    BY <2>1
  <2> QED BY <2>2, <2>3
<1>2. conn \in [Conns -> [set : Settings, intent : Intents]]
  BY DEF Init, NewSettings, Settings, Intents
<1>3. proc \in [Processes ->
          [does : {"down", "migrating", "tightening", "preflight", "serving"},
           at : AllSteps \cup {None}, counted : BOOLEAN]]
  BY DEF Init, Idle
<1> QED
  BY <1>1, <1>2, <1>3 DEF Init, TypeOK

\* The records a process is in.
ProcRecords == [does : {"down", "migrating", "tightening", "preflight", "serving"},
                at : AllSteps \cup {None}, counted : BOOLEAN]

LEMMA ProcessTypes ==
    ASSUME TypeOK, NEW p \in Processes, ProcessStep(p)
    PROVE  TypeOK'
<1>1. /\ proc \in [Processes -> ProcRecords] /\ Idle \in ProcRecords
      /\ proc[p] \in ProcRecords
  BY DEF TypeOK, ProcRecords, Idle
<1>2. SUFFICES /\ proc' \in [Processes -> ProcRecords]
               /\ applied' \subseteq AllSteps
               /\ conn' \in [Conns -> [set : Settings, intent : Intents]]
               /\ UNCHANGED <<rows, exempt, raced>>
  BY DEF TypeOK, ProcRecords
<1>3. CASE Start(p)
  BY <1>1, <1>3 DEF Start, TypeOK, ProcRecords
<1>4. CASE TakeMigration(p)
  <2>1. \A i \in Pending(p) : SetOf(p)[i] \in AllSteps
    BY DEF Pending, SetOf, AllSteps, ToSet
  <2> QED BY <1>1, <1>4, <2>1 DEF TakeMigration, TypeOK, ProcRecords
<1>5. CASE AssertBackfilled(p)
  BY <1>1, <1>5 DEF AssertBackfilled, TypeOK, ProcRecords
<1>6. CASE ApplyMigration(p)
  BY <1>1, <1>6 DEF ApplyMigration, TypeOK, ProcRecords
<1>7. CASE FinishRun(p)
  <2>1. proc' \in [Processes -> ProcRecords]
    BY <1>1, <1>7 DEF FinishRun, ProcRecords
  <2>2. NewSettings \in Settings
    BY DEF NewSettings, Settings
  <2>3. conn' \in [Conns -> [set : Settings, intent : Intents]]
    BY <1>7, <2>2 DEF FinishRun, TypeOK
  <2> QED BY <1>7, <2>1, <2>3 DEF FinishRun, TypeOK
<1>8. CASE Enforce(p)
  BY <1>1, <1>8 DEF Enforce, TypeOK, ProcRecords
<1>9. CASE Crash(p)
  BY <1>1, <1>9 DEF Crash, TypeOK, ProcRecords
<1> QED
  BY <1>3, <1>4, <1>5, <1>6, <1>7, <1>8, <1>9 DEF ProcessStep

\* The rows of a table, as the schema has them.
LEMMA RowsOfTables == \A t : RowsOf(t) \subseteq Row
<1> SUFFICES ASSUME NEW t PROVE RowsOf(t) \subseteq Row
  OBVIOUS
<1> DEFINE P == {R \in SUBSET EdgesOf(t) : \A e \in EdgesOf(t) : e.nullable \/ e \in R}
<1>1. P \subseteq SUBSET ToSet(TenantFKs)
  BY DEF EdgesOf
<1>2. Principals(t) \subseteq {Null, "platform_admin", "tenant_user"}
  BY DEF Principals
<1>3. RowsOf(t) = [tenant : Tenants \cup {Null}, refs : P, principal : Principals(t)]
  BY DEF RowsOf
<1> HIDE DEF P
<1> QED
  BY <1>1, <1>2, <1>3 DEF Row

LEMMA AfterTxTypes ==
    ASSUME TypeOK, NEW c \in Conns
    PROVE  AfterTx(c) \in Settings
  BY DEF TypeOK, AfterTx, Settings

LEMMA ConnTypes ==
    ASSUME TypeOK, NEW c \in Conns, ConnStep(c)
    PROVE  TypeOK'
<1> DEFINE ConnRecords == [set : Settings, intent : Intents]
<1>1. conn \in [Conns -> ConnRecords] /\ conn[c] \in ConnRecords
  BY DEF TypeOK
<1>2. NewSettings \in Settings /\ None \in Intents /\ AfterTx(c) \in Settings
  BY AfterTxTypes DEF NewSettings, Settings, Intents
<1>3. ASSUME NEW id \in Tenants, RunInTenantTx(c, id) PROVE TypeOK'
  <2>1. [conn[c] EXCEPT !.intent = id, !.set = Bind(conn[c].set, id)] \in ConnRecords
    BY <1>1 DEF Intents, Settings, Bind
  <2>2. conn' = [conn EXCEPT ![c] = [conn[c] EXCEPT !.intent = id, !.set = Bind(conn[c].set, id)]]
    BY <1>1, <1>3 DEF RunInTenantTx
  <2> QED BY <1>1, <1>3, <2>1, <2>2 DEF RunInTenantTx, TypeOK
<1>4. CASE RunAsPlatform(c)
  BY <1>1, <1>4 DEF RunAsPlatform, TypeOK, Intents
<1>5. CASE RunAcrossTenants(c) \/ WithPlatformTransaction(c)
  <2>1. [conn[c] EXCEPT !.intent = "across", !.set = EnablePlatformMode(conn[c].set)] \in ConnRecords
    BY <1>1 DEF Intents, Settings, EnablePlatformMode
  <2>2. conn' = [conn EXCEPT ![c] =
                    [conn[c] EXCEPT !.intent = "across", !.set = EnablePlatformMode(conn[c].set)]]
    BY <1>1, <1>5 DEF RunAcrossTenants, WithPlatformTransaction
  <2> QED BY <1>1, <1>5, <2>1, <2>2 DEF RunAcrossTenants, WithPlatformTransaction, TypeOK
<1>6. ASSUME NEW t \in Tables, NEW new \in RowsOf(t) \cup {NoRow}, CommitWrite(c, t, new)
      PROVE  TypeOK'
  <2>1. new \in Row \cup {NoRow}
    BY RowsOfTables
  <2>2. /\ conn' = [conn EXCEPT ![c] = [set |-> AfterTx(c), intent |-> None]]
        /\ raced' \subseteq raced \cup {t}
        /\ UNCHANGED <<applied, proc, exempt>>
    BY <1>6 DEF CommitWrite
  <2>3. rows' \in [Tables -> Row \cup {NoRow}]
    <3>1. CASE new = NoRow
      BY <1>6, <3>1, DeletedFacts DEF CommitWrite
    <3>2. CASE new # NoRow
      BY <1>6, <2>1, <3>2 DEF CommitWrite, TypeOK
    <3> QED BY <3>1, <3>2
  <2>4. conn' \in [Conns -> ConnRecords]
    BY <1>1, <1>2, <2>2
  <2>5. \A u \in Tables : rows'[u] # NoRow => rows'[u] \in RowsOf(u)
    <3>1. CASE new = NoRow
      BY <1>6, <3>1, DeletedFacts DEF CommitWrite
    <3>2. CASE new # NoRow
      BY <1>6, <2>1, <3>2 DEF CommitWrite, TypeOK
    <3> QED BY <3>1, <3>2
  <2> QED BY <2>2, <2>3, <2>4, <2>5 DEF TypeOK
<1>7. CASE EndTx(c)
  BY <1>1, <1>2, <1>7 DEF EndTx, TypeOK
<1>8. CASE Reconnect(c)
  BY <1>1, <1>2, <1>8 DEF Reconnect, TypeOK
<1> QED
  BY <1>3, <1>4, <1>5, <1>6, <1>7, <1>8 DEF ConnStep

LEMMA RollbackTypes ==
    ASSUME TypeOK, NEW m, RolledBack(m)
    PROVE  TypeOK'
<1>1. rows' \in [Tables -> Row \cup {NoRow}]
  BY RowFacts DEF TypeOK, RolledBack
<1>3. \A t \in Tables : rows'[t] # NoRow => rows'[t] \in RowsOf(t)
  <2> SUFFICES ASSUME NEW t \in Tables, rows'[t] # NoRow PROVE rows'[t] \in RowsOf(t)
    OBVIOUS
  <2>1. rows'[t] = rows[t] \/ rows'[t] = DropTenantColumn(rows[t])
    BY DEF TypeOK, RolledBack
  <2>2. rows[t] # NoRow
    BY <2>1, RowFacts
  <2>3. rows[t] \in RowsOf(t) /\ rows[t] \in Row
    BY <2>2 DEF TypeOK
  <2> QED BY <2>1, <2>3, DroppedShape
<1>2. /\ applied' \subseteq applied /\ raced' \subseteq raced
      /\ UNCHANGED <<conn, proc, exempt>>
  BY DEF RolledBack
<1> QED
  BY <1>1, <1>2, <1>3 DEF TypeOK

LEMMA NextTypes == TypeOK /\ [Next]_vars => TypeOK'
<1>1. CASE UNCHANGED vars
  BY <1>1 DEF vars, TypeOK
<1> QED
  BY <1>1, ProcessTypes, ConnTypes, RollbackTypes, RollbackIsLast DEF Next

-----------------------------------------------------------------------------
(* Connections.                                                             *)

\* The preflight's verdict stands while policies only come.
LEMMA CheckStands ==
    ASSUME \A t \in Tables : HasPolicy(t) => HasPolicy(t)', exempt' = exempt, Check
    PROVE  Check'
  BY DEF Check, CheckRole, CheckTables

\* What a process changes besides itself: it applies migrations and replaces
\* connections that are between transactions.
LEMMA ProcessEffect ==
    ASSUME TypeOK, NEW p \in Processes, ProcessStep(p)
    PROVE  /\ UNCHANGED <<rows, exempt, raced>>
           /\ applied \subseteq applied'
           /\ \A t \in Tables : HasPolicy(t) => HasPolicy(t)'
           /\ \A q \in Processes \ {p} : proc'[q] = proc[q]
           /\ \A c \in Conns :
                 \/ conn'[c] = conn[c]
                 \/ /\ conn[c].intent = None /\ conn'[c].intent = None
                    /\ conn'[c].set = NewSettings
<1>1. UNCHANGED <<rows, exempt, raced>> /\ applied \subseteq applied'
  BY DEF ProcessStep, Start, TakeMigration, AssertBackfilled, ApplyMigration, FinishRun, Enforce, Crash
<1>2. \A t \in Tables : HasPolicy(t) => HasPolicy(t)'
  BY <1>1 DEF HasPolicy
<1>3. \A q \in Processes \ {p} : proc'[q] = proc[q]
  BY DEF TypeOK, ProcessStep, Start, TakeMigration, AssertBackfilled, ApplyMigration,
         FinishRun, Enforce, Crash
<1>4. \A c \in Conns : \/ conn'[c] = conn[c]
                       \/ /\ conn[c].intent = None /\ conn'[c].intent = None
                          /\ conn'[c].set = NewSettings
  <2>1. CASE FinishRun(p)
    BY <2>1 DEF FinishRun, TypeOK
  <2>2. CASE ~FinishRun(p)
    BY <2>2 DEF ProcessStep, Start, TakeMigration, AssertBackfilled, ApplyMigration, Enforce, Crash
  <2> QED BY <2>1, <2>2
<1> QED
  BY <1>1, <1>2, <1>3, <1>4

\* The words for transactions that are not a tenant's.
LEMMA Words ==
    /\ None \notin Tenants /\ "" \notin Tenants /\ Null \notin Tenants
    /\ "unbound" \notin Tenants /\ "across" \notin Tenants
    /\ None # "unbound" /\ None # "across"
    /\ Null # "" /\ Null # "on" /\ Null # "platform_admin" /\ Null # "tenant_user"
  BY ValuesAssumption

LEMMA BoundStays ==
    ASSUME NEW c \in Conns, BoundTo(c), conn'[c] = conn[c], Check => Check'
    PROVE  BoundTo(c)'
  BY DEF BoundTo

LEMMA UnboundAfter ==
    ASSUME NEW c \in Conns, conn'[c].intent = None,
           conn'[c].set.tenant \in {Null, ""}, conn'[c].set.platform \in {Null, ""}
    PROVE  BoundTo(c)'
  BY Words DEF BoundTo

LEMMA ProcessBindings ==
    ASSUME IsolationInv, NEW p \in Processes, ProcessStep(p)
    PROVE  Bindings' /\ ServesChecked'
<1>1. TypeOK /\ Bindings /\ ServesChecked
  BY DEF IsolationInv
<1>2. Check => Check'
  BY <1>1, ProcessEffect, CheckStands
<1>3. ASSUME NEW c \in Conns PROVE BoundTo(c)'
  <2>1. CASE conn'[c] = conn[c]
    BY <1>1, <1>2, <2>1, BoundStays DEF Bindings
  <2>2. CASE conn'[c].intent = None /\ conn'[c].set = NewSettings
    <3>1. conn'[c].set.tenant \in {Null, ""} /\ conn'[c].set.platform \in {Null, ""}
      BY <2>2 DEF NewSettings
    <3> QED BY <2>2, <3>1, UnboundAfter
  <2> QED BY <1>1, <2>1, <2>2, ProcessEffect
<1>4. ASSUME NEW q \in Processes, proc'[q].does = "serving" PROVE Check'
  <2>1. CASE proc[q].does = "serving"
    BY <1>1, <1>2, <2>1 DEF ServesChecked
  <2>2. CASE proc[q].does # "serving"
    <3>1. q = p
      BY <1>1, <1>4, <2>2, ProcessEffect
    <3>2. Enforce(p)
      BY <1>1, <1>4, <2>2, <3>1
         DEF TypeOK, ProcessStep, Start, TakeMigration, AssertBackfilled, ApplyMigration,
             FinishRun, Crash, Idle
    <3>3. Check
      BY <1>1, <1>4, <3>1, <3>2 DEF Enforce, TypeOK, Idle
    <3> QED BY <1>2, <3>3
  <2> QED BY <2>1, <2>2
<1> QED
  BY <1>3, <1>4 DEF Bindings, ServesChecked

LEMMA ConnBindings ==
    ASSUME IsolationInv, NEW c \in Conns, ConnStep(c)
    PROVE  Bindings' /\ ServesChecked'
<1>1. /\ TypeOK /\ Bindings /\ ServesChecked
      /\ conn \in [Conns -> [set : Settings, intent : Intents]]
      /\ conn[c] \in [set : Settings, intent : Intents] /\ BoundTo(c)
  BY DEF IsolationInv, TypeOK, Bindings
<1>2. /\ UNCHANGED <<applied, proc, exempt>>
      /\ \A d \in Conns \ {c} : conn'[d] = conn[d]
  BY <1>1 DEF ConnStep, RunInTenantTx, RunAsPlatform, RunAcrossTenants, WithPlatformTransaction,
              CommitWrite, EndTx, Reconnect
<1>3. Check => Check'
  BY <1>2 DEF Check, CheckRole, CheckTables, HasPolicy
<1>4. BoundTo(c)'
  <2>1. ASSUME NEW id \in Tenants, RunInTenantTx(c, id) PROVE BoundTo(c)'
    <3>1. Check
      BY <1>1, <2>1 DEF RunInTenantTx, Serving, ServesChecked
    <3>2. /\ conn[c].intent = None
          /\ conn'[c].intent = id /\ conn'[c].set.tenant = id
          /\ conn'[c].set.platform = conn[c].set.platform
      BY <1>1, <2>1 DEF RunInTenantTx, Bind, Settings
    <3> QED BY <1>1, <1>3, <3>1, <3>2, Words DEF BoundTo
  <2>2. CASE RunAsPlatform(c)
    <3>1. /\ conn[c].intent = None /\ conn'[c].intent = "unbound" /\ conn'[c].set = conn[c].set
      BY <1>1, <2>2 DEF RunAsPlatform
    <3> QED BY <1>1, <3>1, Words DEF BoundTo
  <2>3. CASE RunAcrossTenants(c) \/ WithPlatformTransaction(c)
    <3>1. /\ conn[c].intent \in {None, "unbound"}
          /\ conn' = [conn EXCEPT ![c].intent = "across", ![c].set = EnablePlatformMode(@)]
      BY <2>3 DEF RunAcrossTenants, WithPlatformTransaction
    <3>2. conn'[c].intent = "across" /\ conn'[c].set = EnablePlatformMode(conn[c].set)
      BY <1>1, <3>1
    <3>3. conn'[c].set.tenant = conn[c].set.tenant /\ conn'[c].set.platform = "on"
      BY <1>1, <3>2 DEF EnablePlatformMode, Settings
    <3> QED BY <1>1, <3>1, <3>2, <3>3, Words DEF BoundTo
  <2>4. ASSUME conn' = [conn EXCEPT ![c] = [set |-> AfterTx(c), intent |-> None]]
        PROVE  BoundTo(c)'
    <3>1. conn'[c] = [set |-> AfterTx(c), intent |-> None]
      BY <1>1, <2>4
    <3>2. AfterTx(c).tenant \in {Null, ""} /\ AfterTx(c).platform \in {Null, ""}
      BY <1>1 DEF AfterTx, BoundTo
    <3>3. conn'[c].intent = None /\ conn'[c].set = AfterTx(c)
      BY <3>1
    <3>4. conn'[c].set.tenant \in {Null, ""} /\ conn'[c].set.platform \in {Null, ""}
      BY <3>2, <3>3
    <3> QED BY <3>3, <3>4, UnboundAfter
  <2>5. CASE Reconnect(c)
    <3>1. conn'[c] = [set |-> NewSettings, intent |-> None]
      BY <1>1, <2>5 DEF Reconnect
    <3>2. conn'[c].intent = None /\ conn'[c].set = NewSettings
      BY <3>1
    <3>3. conn'[c].set.tenant \in {Null, ""} /\ conn'[c].set.platform \in {Null, ""}
      BY <3>2 DEF NewSettings
    <3> QED BY <3>2, <3>3, UnboundAfter
  <2> QED BY <2>1, <2>2, <2>3, <2>4, <2>5 DEF ConnStep, CommitWrite, EndTx
<1>5. Bindings'
  <2>1. ASSUME NEW d \in Conns \ {c} PROVE BoundTo(d)'
    BY <1>1, <1>2, <1>3, BoundStays DEF Bindings
  <2> QED BY <1>4, <2>1 DEF Bindings
<1>6. ServesChecked'
  BY <1>1, <1>2, <1>3 DEF ServesChecked
<1> QED
  BY <1>5, <1>6

LEMMA RollbackBindings ==
    ASSUME IsolationInv, NEW m, RolledBack(m)
    PROVE  Bindings' /\ ServesChecked'
<1>1. Bindings /\ ServesChecked /\ UNCHANGED <<conn, proc, exempt>> /\ applied' = applied \ {m}
  BY DEF IsolationInv, RolledBack
<1>2. CASE m.kind \in {"column", "policy"}
  <2>1. /\ \A p \in Processes : proc[p].does = "down"
        /\ \A c \in Conns : conn[c].intent = None
    BY <1>2 DEF RolledBack
  <2> QED BY <1>1, <2>1, Words DEF Bindings, BoundTo, ServesChecked
<1>3. CASE m.kind \notin {"column", "policy"}
  <2>1. \A t : Step("policy", t).kind = "policy"
    BY DEF Step
  <2>2. \A t \in Tables : HasPolicy(t) => HasPolicy(t)'
    BY <1>1, <1>3, <2>1 DEF HasPolicy
  <2>3. Check => Check'
    BY <1>1, <2>2, CheckStands
  <2> QED BY <1>1, <2>3, BoundStays DEF Bindings, ServesChecked
<1> QED
  BY <1>2, <1>3

-----------------------------------------------------------------------------
(* The schema and the committed rows.                                       *)

\* The constraints on one table, and on one edge.
TableHolds(t) ==
    rows[t] # NoRow => /\ ~HasColumn(t) => rows[t].tenant = Null /\ rows[t].principal = Null
                       /\ IsNotNull(t) => rows[t].tenant # Null

EdgeHolds(e) ==
    /\ UpstreamPairAccepted(e, rows[e.child], rows[e.parent])
    /\ HasFK(e) => PairAccepted(e, rows[e.child], rows[e.parent])

LEMMA SchemaParts ==
    ConstraintsHold(rows) <=>
        /\ \A t \in Tables : TableHolds(t)
        /\ rows[SessionsTable] # NoRow => SessionChecks(rows[SessionsTable])
        /\ \A e \in ToSet(TenantFKs) : EdgeHolds(e)
  BY DEF ConstraintsHold, TableHolds, EdgeHolds

\* The same for the rows after a step.
LEMMA SchemaPartsAfter ==
    ASSUME \A t \in Tables : TableHolds(t)',
           (rows[SessionsTable] # NoRow => SessionChecks(rows[SessionsTable]))',
           \A e \in ToSet(TenantFKs) : EdgeHolds(e)'
    PROVE  ConstraintsHold(rows)'
  BY DEF ConstraintsHold, TableHolds, EdgeHolds

LEMMA EdgeTables ==
    ASSUME NEW e \in ToSet(TenantFKs)
    PROVE  /\ e.child \in Tables /\ e.parent \in Tables
           /\ e.child \in ToSet(BClassTables) /\ e.parent \in ToSet(BClassTables)
           /\ e \in Edge
<1>1. e \in Edge
  BY Listed DEF ToSet
<1> QED
  BY <1>1, TablesShape DEF Edge

\* A migration that Postgres applies finds the rows it asks for.
LEMMA ApplySchema ==
    ASSUME IsolationInv, NEW m \in AllSteps, Succeeds(m), applied' = applied \cup {m},
           rows' = rows
    PROVE  ConstraintsHold(rows)' /\ KeysNeedOwners'
<1>0. \A k, t : Step(k, t).kind = k /\ Step(k, t).on = t
  BY DEF Step
<1>1. /\ \A t \in Tables : TableHolds(t)
      /\ rows[SessionsTable] # NoRow => SessionChecks(rows[SessionsTable])
      /\ \A e \in ToSet(TenantFKs) : EdgeHolds(e)
      /\ KeysNeedOwners
  BY SchemaParts DEF IsolationInv
<1>2. m = Step(m.kind, m.on)
  BY KindsOfSets DEF AllSteps
<1>3. ASSUME NEW t \in Tables PROVE TableHolds(t)'
  <2>1. HasColumn(t) => HasColumn(t)'
    BY DEF HasColumn
  <2>2. IsNotNull(t)' => IsNotNull(t) \/ (rows[t] # NoRow => rows[t].tenant # Null)
    <3>1. CASE m = Step("notnull", t)
      <4>1. m.kind = "notnull" /\ m.on = t
        BY <1>0, <3>1
      <4>2. SetTenantColumnNotNull(t)
        BY <4>1 DEF Succeeds
      <4> QED BY <4>2 DEF SetTenantColumnNotNull, Unattributed
    <3>2. CASE m # Step("notnull", t)
      BY <3>2 DEF IsNotNull
    <3> QED BY <3>1, <3>2
  <2> QED BY <1>1, <2>1, <2>2 DEF TableHolds
<1>4. ASSUME NEW e \in ToSet(TenantFKs)
      PROVE  /\ EdgeHolds(e)'
             /\ HasFK(e)' => IsNotNull(e.child)'
  <2>1. HasFK(e)' =>
            \/ HasFK(e)
            \/ IsNotNull(e.child) /\ PairAccepted(e, rows[e.child], rows[e.parent])
    <3>1. CASE m = Step("fk", e)
      <4>0. m.kind = "fk" /\ m.on = e
        BY <1>0, <3>1
      <4>1. AddTenantFK(e)
        BY <4>0 DEF Succeeds
      <4> QED BY <4>1 DEF AddTenantFK
    <3>2. CASE m # Step("fk", e)
      BY <3>2 DEF HasFK
    <3> QED BY <3>1, <3>2
  <2>2. IsNotNull(e.child) => IsNotNull(e.child)'
    BY DEF IsNotNull
  <2>3. HasFK(e) => IsNotNull(e.child)
    BY <1>1 DEF KeysNeedOwners
  <2> QED BY <1>1, <2>1, <2>2, <2>3 DEF EdgeHolds
<1> QED
  BY <1>1, <1>3, <1>4, SchemaPartsAfter DEF KeysNeedOwners

LEMMA ProcessSchema ==
    ASSUME IsolationInv, NEW p \in Processes, ProcessStep(p)
    PROVE  ConstraintsHold(rows)' /\ KeysNeedOwners'
<1>1. TypeOK /\ ConstraintsHold(rows) /\ KeysNeedOwners /\ rows' = rows
  BY ProcessEffect DEF IsolationInv
<1>2. CASE applied' = applied
  <2>1. ConstraintsHold(rows)'
    BY <1>1, <1>2 DEF ConstraintsHold, HasColumn, IsNotNull, HasFK
  <2>2. KeysNeedOwners'
    BY <1>1, <1>2 DEF KeysNeedOwners, HasFK, IsNotNull
  <2> QED BY <2>1, <2>2
<1>3. CASE applied' # applied
  <2>1. ApplyMigration(p)
    BY <1>3 DEF ProcessStep, Start, TakeMigration, AssertBackfilled, FinishRun, Enforce, Crash
  <2>2. /\ proc[p].at # None /\ Succeeds(proc[p].at)
        /\ applied' = applied \cup {proc[p].at}
    BY <1>3, <2>1 DEF ApplyMigration
  <2>3. proc[p].at \in AllSteps
    BY <1>1, <2>2 DEF TypeOK
  <2> QED BY <1>1, <2>2, <2>3, ApplySchema
<1> QED
  BY <1>2, <1>3

LEMMA ConnSchema ==
    ASSUME IsolationInv, NEW c \in Conns, ConnStep(c)
    PROVE  ConstraintsHold(rows)' /\ KeysNeedOwners'
<1>1. applied' = applied /\ ConstraintsHold(rows) /\ KeysNeedOwners
  BY DEF IsolationInv, ConnStep, RunInTenantTx, RunAsPlatform, RunAcrossTenants,
         WithPlatformTransaction, CommitWrite, EndTx, Reconnect
<1>2. KeysNeedOwners'
  BY <1>1 DEF KeysNeedOwners, HasFK, IsNotNull
<1>3. ASSUME NEW after, ConstraintsHold(after), rows' = after PROVE ConstraintsHold(rows)'
  BY <1>1, <1>3 DEF ConstraintsHold, HasColumn, IsNotNull, HasFK
<1>4. ASSUME rows' = rows PROVE ConstraintsHold(rows)'
  BY <1>1, <1>3, <1>4
<1>5. ASSUME NEW t \in Tables, NEW new \in RowsOf(t) \cup {NoRow}, CommitWrite(c, t, new)
      PROVE  ConstraintsHold(rows)'
  BY <1>3, <1>5 DEF CommitWrite
<1>6. ConstraintsHold(rows)'
  BY <1>4, <1>5 DEF ConnStep, RunInTenantTx, RunAsPlatform, RunAcrossTenants,
         WithPlatformTransaction, EndTx, Reconnect
<1> QED
  BY <1>2, <1>6

LEMMA RollbackSchema ==
    ASSUME IsolationInv, NEW m, RolledBack(m)
    PROVE  ConstraintsHold(rows)' /\ KeysNeedOwners'
<1>0. \A k, t : Step(k, t).kind = k /\ Step(k, t).on = t
  BY DEF Step
<1>1. /\ rows \in [Tables -> Row \cup {NoRow}]
      /\ \A t \in Tables : TableHolds(t)
      /\ rows[SessionsTable] # NoRow => SessionChecks(rows[SessionsTable])
      /\ \A e \in ToSet(TenantFKs) : EdgeHolds(e)
      /\ KeysNeedOwners
      /\ applied' = applied \ {m} /\ m = Step(m.kind, m.on)
  BY SchemaParts DEF IsolationInv, TypeOK, RolledBack
<1>2. /\ \A t : IsNotNull(t)' => IsNotNull(t)
      /\ \A t : HasFK(t)' => HasFK(t)
  BY <1>1 DEF IsNotNull, HasFK
<1>3. KeysNeedOwners'
  <2> SUFFICES ASSUME NEW e \in ToSet(TenantFKs), HasFK(e)' PROVE IsNotNull(e.child)'
    BY DEF KeysNeedOwners
  <2>1. HasFK(e) /\ IsNotNull(e.child)
    BY <1>1, <1>2 DEF KeysNeedOwners
  <2>2. m.kind # "notnull"
    BY <2>1 DEF RolledBack
  <2> QED BY <1>0, <1>1, <2>1, <2>2 DEF IsNotNull
<1>4. CASE m.kind = "column"
  <2>1. /\ \A t : ~IsNotNull(t) /\ ~HasFK(t)
        /\ rows' = [rows EXCEPT ![m.on] = DropTenantColumn(rows[m.on])] /\ m.on \in Tables
    BY <1>4 DEF RolledBack
  <2>2. ASSUME NEW t \in Tables
        PROVE  /\ rows'[t] = NoRow <=> rows[t] = NoRow
               /\ rows[t] # NoRow => rows'[t].refs = rows[t].refs
               /\ t # m.on => rows'[t] = rows[t]
               /\ t = m.on /\ rows[t] # NoRow => rows'[t].tenant = Null /\ rows'[t].principal = Null
    BY <1>1, <2>1, RowFacts
  <2>3. ASSUME NEW t \in Tables PROVE TableHolds(t)'
    <3>1. t # m.on => (HasColumn(t) => HasColumn(t)')
      BY <1>0, <1>1 DEF HasColumn
    <3> QED BY <1>1, <1>2, <2>1, <2>2, <3>1 DEF TableHolds
  <2>4. ASSUME NEW e \in ToSet(TenantFKs) PROVE EdgeHolds(e)'
    <3>1. e.child \in Tables /\ e.parent \in Tables
      BY EdgeTables
    <3>2. UpstreamPairAccepted(e, rows[e.child], rows[e.parent])
      BY <1>1 DEF EdgeHolds
    <3> QED BY <1>2, <2>1, <2>2, <3>1, <3>2 DEF EdgeHolds, UpstreamPairAccepted
  <2>5. (rows[SessionsTable] # NoRow => SessionChecks(rows[SessionsTable]))'
    BY <1>1, <2>2, TablesShape DEF SessionChecks
  <2> QED BY <1>3, <2>3, <2>4, <2>5, SchemaPartsAfter
<1>5. CASE m.kind # "column"
  <2>1. rows' = rows
    BY <1>5 DEF RolledBack
  <2>2. \A t : HasColumn(t)' <=> HasColumn(t)
    BY <1>0, <1>1, <1>5 DEF HasColumn
  <2>3. \A t \in Tables : TableHolds(t)'
    BY <1>1, <1>2, <2>1, <2>2 DEF TableHolds
  <2>4. \A e \in ToSet(TenantFKs) : EdgeHolds(e)'
    BY <1>1, <1>2, <2>1 DEF EdgeHolds
  <2> QED BY <1>1, <1>3, <2>1, <2>3, <2>4, SchemaPartsAfter
<1> QED
  BY <1>4, <1>5

-----------------------------------------------------------------------------
(* The gate of the strict policies.                                         *)

\* In platform mode a count sees every row.
LEMMA CountSeesAll == \A t : rows[t] # NoRow => Visible(MigrationSettings, t, rows[t])
  BY Words DEF Visible, Using, MigrationSettings, PlatformMode, Unbound, Coalesce

LEMMA ProcessCounted ==
    ASSUME IsolationInv, NEW p \in Processes, ProcessStep(p)
    PROVE  CountedHolds'
<1> DEFINE S == ToSet(BClassTables)
           Holds(q) == proc[q].counted =>
              /\ proc[q].at # None
              /\ \A t \in S : proc[q].at = Step("policy", t) /\ Unattributed(t) => t \in raced
<1>1. /\ TypeOK /\ \A q \in Processes : Holds(q)
      /\ proc[p] \in ProcRecords /\ proc \in [Processes -> ProcRecords]
  BY DEF IsolationInv, CountedHolds, TypeOK, ProcRecords
<1>2. /\ UNCHANGED <<rows, raced>>
      /\ \A q \in Processes \ {p} : proc'[q] = proc[q]
  BY <1>1, ProcessEffect
<1>3. \A t : Unattributed(t)' = Unattributed(t)
  BY <1>2 DEF Unattributed
<1>4. \A q \in Processes \ {p} : Holds(q)'
  BY <1>1, <1>2, <1>3
<1>5. Holds(p)'
  <2>1. CASE AssertBackfilled(p)
    <3>1. CASE BackfillMissing(proc[p].at)
      <4>1. proc'[p] = Idle
        BY <1>1, <2>1, <3>1 DEF AssertBackfilled
      <4> QED BY <4>1 DEF Idle
    <3>2. CASE ~BackfillMissing(proc[p].at)
      <4>1. proc[p].at # None /\ proc'[p].at = proc[p].at
        BY <1>1, <2>1, <3>2 DEF AssertBackfilled, ProcRecords
      <4>2. ~Unattributed(proc[p].at.on)
        BY <3>2, CountSeesAll DEF BackfillMissing, CountUnattributed, Unattributed
      <4>3. \A t : Step("policy", t).on = t
        BY DEF Step
      <4> QED BY <1>3, <4>1, <4>2, <4>3
    <3> QED BY <3>1, <3>2
  <2>2. CASE Start(p)
    <3>1. proc'[p].at = proc[p].at /\ proc'[p].counted = proc[p].counted
      BY <1>1, <2>2 DEF Start, ProcRecords
    <3> QED BY <1>1, <1>2, <1>3, <3>1
  <2>3. CASE TakeMigration(p) \/ FinishRun(p)
    <3>1. proc[p].at = None
      BY <2>3 DEF TakeMigration, FinishRun
    <3>2. ~proc[p].counted
      BY <1>1, <3>1
    <3>3. ~proc'[p].counted
      BY <1>1, <2>3, <3>2 DEF TakeMigration, FinishRun, ProcRecords, Idle
    <3> QED BY <3>3
  <2>4. CASE ApplyMigration(p)
    <3>1. ~proc'[p].counted
      BY <1>1, <2>4 DEF ApplyMigration, ProcRecords, Idle
    <3> QED BY <3>1
  <2>5. CASE Enforce(p)
    <3>1. \/ proc'[p].counted = FALSE
          \/ proc'[p].counted = proc[p].counted /\ proc'[p].at = proc[p].at
      BY <1>1, <2>5 DEF Enforce, ProcRecords, Idle
    <3> QED BY <1>1, <1>2, <1>3, <3>1
  <2>6. CASE Crash(p)
    <3>1. ~proc'[p].counted
      BY <1>1, <2>6 DEF Crash, Idle
    <3> QED BY <3>1
  <2> QED BY <2>1, <2>2, <2>3, <2>4, <2>5, <2>6 DEF ProcessStep
<1> QED
  BY <1>4, <1>5 DEF CountedHolds

LEMMA ProcessHidden ==
    ASSUME IsolationInv, NEW p \in Processes, ProcessStep(p)
    PROVE  NothingHidden'
<1>1. /\ TypeOK /\ NothingHidden /\ CountedHolds
  BY DEF IsolationInv
<1>2. UNCHANGED <<rows, exempt, raced>>
  BY <1>1, ProcessEffect
<1> SUFFICES ASSUME NEW t \in ToSet(BClassTables), HasPolicy(t)', ~exempt, Unattributed(t)
             PROVE  t \in raced
  BY <1>2 DEF NothingHidden, Unattributed
<1>3. CASE HasPolicy(t)
  BY <1>1, <1>3 DEF NothingHidden
<1>4. CASE ~HasPolicy(t)
  <2>1. applied' # applied
    BY <1>4 DEF HasPolicy
  <2>2. ApplyMigration(p)
    BY <2>1 DEF ProcessStep, Start, TakeMigration, AssertBackfilled, FinishRun, Enforce, Crash
  <2>3. /\ applied' = applied \cup {proc[p].at}
        /\ Gated(proc[p].at) => proc[p].counted
    BY <2>1, <2>2 DEF ApplyMigration
  <2>4. proc[p].at = Step("policy", t)
    BY <1>4, <2>3 DEF HasPolicy
  <2>5. proc[p].counted
    BY <2>3, <2>4, TablesShape DEF Gated, Step
  <2> QED BY <1>1, <2>4, <2>5 DEF CountedHolds
<1> QED
  BY <1>3, <1>4

\* Nobody but a platform transaction gets an unowned row past a strict policy,
\* and no platform transaction asks for one.
LEMMA StrictRefuses ==
    ASSUME IsolationInv, NEW c \in Conns, NEW t \in ToSet(BClassTables),
           NEW new \in Row, new.tenant = Null, CommitWrite(c, t, new)
    PROVE  ~(HasPolicy(t) /\ ~exempt)
<1> SUFFICES ASSUME HasPolicy(t), ~exempt PROVE FALSE
  OBVIOUS
<1>1. PolicyKindFor(t) = "strict"
  BY TablesShape
<1>2. new # NoRow
  BY RowFacts
<1>3. /\ WithCheck("strict", conn[c].set, new)
      /\ AsksFor(conn[c].intent, t, rows[t], new)
  BY <1>1, <1>2 DEF CommitWrite, Accepted
<1>4. BoundTo(c)
  BY DEF IsolationInv, Bindings
<1>5. PlatformMode(conn[c].set) \/ Bound(conn[c].set, new)
  BY <1>3 DEF WithCheck
<1>6. ~Bound(conn[c].set, new)
  BY Words DEF Bound, Coalesce
<1>7. conn[c].intent = "across"
  BY <1>4, <1>5, <1>6, Words DEF PlatformMode, Coalesce, BoundTo
<1> QED
  BY <1>1, <1>3, <1>7 DEF AsksFor

LEMMA ConnHidden ==
    ASSUME IsolationInv, NEW c \in Conns, ConnStep(c)
    PROVE  CountedHolds' /\ NothingHidden'
<1>1. /\ TypeOK /\ CountedHolds /\ NothingHidden /\ UNCHANGED <<applied, proc, exempt>>
  BY DEF IsolationInv, ConnStep, RunInTenantTx, RunAsPlatform, RunAcrossTenants,
         WithPlatformTransaction, CommitWrite, EndTx, Reconnect
<1>2. CASE UNCHANGED <<rows, raced>>
  BY <1>1, <1>2 DEF CountedHolds, NothingHidden, Unattributed, HasPolicy
<1>3. ASSUME NEW t \in Tables, NEW new \in RowsOf(t) \cup {NoRow}, CommitWrite(c, t, new)
      PROVE  CountedHolds' /\ NothingHidden'
  <2>1. /\ rows' = IF new = NoRow THEN Deleted(t) ELSE [rows EXCEPT ![t] = new]
        /\ \A u : u \in raced /\ Unattributed(u)' => u \in raced'
        /\ Unattributed(t)' /\ (\E p \in Processes :
                                  proc[p].counted /\ proc[p].at = Step("policy", t)) => t \in raced'
    BY <1>3 DEF CommitWrite, Unattributed
  <2>2. /\ \A u \in Tables : u # t => (Unattributed(u)' => Unattributed(u))
        /\ Unattributed(t)' => new # NoRow /\ new.tenant = Null
    <3>1. CASE new = NoRow
      BY <1>1, <2>1, <3>1, DeletedFacts DEF Unattributed
    <3>2. CASE new # NoRow
      BY <1>1, <2>1, <3>2 DEF TypeOK, Unattributed
    <3> QED BY <3>1, <3>2
  <2>4. ToSet(BClassTables) \subseteq Tables
    BY TablesShape
  <2>5. CountedHolds'
    <3> SUFFICES ASSUME NEW p \in Processes, proc[p].counted
                 PROVE  /\ proc[p].at # None
                        /\ \A u \in ToSet(BClassTables) :
                             proc[p].at = Step("policy", u) /\ Unattributed(u)' => u \in raced'
      BY <1>1 DEF CountedHolds
    <3>1. proc[p].at # None
      BY <1>1 DEF CountedHolds
    <3>2. ASSUME NEW u \in ToSet(BClassTables), proc[p].at = Step("policy", u), Unattributed(u)'
          PROVE  u \in raced'
      <4>1. CASE u # t
        BY <1>1, <2>1, <2>2, <2>4, <3>2, <4>1 DEF CountedHolds
      <4>2. CASE u = t
        BY <2>1, <2>2, <3>2, <4>2
      <4> QED BY <4>1, <4>2
    <3> QED BY <3>1, <3>2
  <2>6. NothingHidden'
    <3> SUFFICES ASSUME NEW u \in ToSet(BClassTables), HasPolicy(u), ~exempt, Unattributed(u)'
                 PROVE  u \in raced'
      BY <1>1 DEF NothingHidden, HasPolicy
    <3>1. CASE u # t
      BY <1>1, <2>1, <2>2, <2>4, <3>1 DEF NothingHidden
    <3>2. CASE u = t
      <4>1. new \in Row /\ new.tenant = Null
        BY <2>2, <3>2, RowsOfTables
      <4> QED BY <1>3, <3>2, <4>1, StrictRefuses
    <3> QED BY <3>1, <3>2
  <2> QED BY <2>5, <2>6
<1> QED
  BY <1>2, <1>3 DEF ConnStep, RunInTenantTx, RunAsPlatform, RunAcrossTenants,
         WithPlatformTransaction, EndTx, Reconnect

LEMMA RollbackHidden ==
    ASSUME IsolationInv, NEW m, RolledBack(m)
    PROVE  CountedHolds' /\ NothingHidden'
<1>0. \A k, t : Step(k, t).kind = k /\ Step(k, t).on = t
  BY DEF Step
<1>1. /\ CountedHolds /\ NothingHidden /\ UNCHANGED <<proc, exempt>>
      /\ \A p \in Processes : proc[p].at = None
      /\ applied' = applied \ {m} /\ m = Step(m.kind, m.on)
  BY DEF IsolationInv, RolledBack
<1>2. CountedHolds'
  BY <1>1 DEF CountedHolds
<1>3. CASE m.kind = "column"
  <2>1. \A t : ~HasPolicy(t)'
    BY <1>1, <1>3 DEF RolledBack, HasPolicy
  <2> QED BY <1>2, <2>1 DEF NothingHidden
<1>4. CASE m.kind # "column"
  <2>1. /\ rows' = rows
        /\ raced' = raced \/ (m.kind = "policy" /\ raced' = raced \ {m.on})
    BY <1>4 DEF RolledBack
  <2>2. \A t : HasPolicy(t)' => HasPolicy(t) /\ ~(m.kind = "policy" /\ m.on = t)
    BY <1>0, <1>1 DEF HasPolicy
  <2>3. \A t : Unattributed(t)' = Unattributed(t)
    BY <2>1 DEF Unattributed
  <2>4. NothingHidden'
    BY <1>1, <2>1, <2>2, <2>3 DEF NothingHidden
  <2> QED BY <1>2, <2>4
<1> QED
  BY <1>3, <1>4

-----------------------------------------------------------------------------
(* The invariant, and what follows from it.                                 *)

LEMMA InitIsolation == Init => IsolationInv
<1> SUFFICES ASSUME Init PROVE IsolationInv
  OBVIOUS
<1>1. TypeOK
  BY InitTypes
<1>2. Bindings
  BY Words DEF Init, Bindings, BoundTo, NewSettings
<1>3. ServesChecked /\ CountedHolds
  BY DEF Init, ServesChecked, CountedHolds, Idle
<1>4. KeysNeedOwners /\ NothingHidden
  BY DEF Init, KeysNeedOwners, NothingHidden, HasFK, HasPolicy
<1> QED
  BY <1>1, <1>2, <1>3, <1>4 DEF IsolationInv, Init

LEMMA NextIsolation == IsolationInv /\ [Next]_vars => IsolationInv'
<1> SUFFICES ASSUME IsolationInv, [Next]_vars PROVE IsolationInv'
  OBVIOUS
<1>1. TypeOK'
  BY NextTypes DEF IsolationInv
<1>2. ASSUME NEW p \in Processes, ProcessStep(p) PROVE IsolationInv'
  BY <1>1, <1>2, ProcessBindings, ProcessSchema, ProcessCounted, ProcessHidden DEF IsolationInv
<1>3. ASSUME NEW c \in Conns, ConnStep(c) PROVE IsolationInv'
  BY <1>1, <1>3, ConnBindings, ConnSchema, ConnHidden DEF IsolationInv
<1>4. ASSUME NEW m, RolledBack(m) PROVE IsolationInv'
  BY <1>1, <1>4, RollbackBindings, RollbackSchema, RollbackHidden DEF IsolationInv
<1>5. CASE UNCHANGED vars
  <2>1. Bindings' /\ ServesChecked'
    BY <1>5 DEF IsolationInv, vars, Bindings, BoundTo, ServesChecked, Check, CheckRole,
                CheckTables, HasPolicy
  <2>2. ConstraintsHold(rows)' /\ KeysNeedOwners'
    BY <1>5 DEF IsolationInv, vars, ConstraintsHold, KeysNeedOwners, HasColumn, IsNotNull, HasFK
  <2>3. CountedHolds' /\ NothingHidden'
    BY <1>5 DEF IsolationInv, vars, CountedHolds, NothingHidden, Unattributed, HasPolicy
  <2> QED BY <1>1, <2>1, <2>2, <2>3 DEF IsolationInv
<1>6. TypeOK
  BY DEF IsolationInv
<1> QED
  BY <1>2, <1>3, <1>4, <1>5, <1>6, RollbackIsLast DEF Next

\* The inductive invariant of the migrations and the pooled connections.
THEOREM IsolationInvariant == Spec => []IsolationInv
  BY InitIsolation, NextIsolation, PTL DEF Spec

\* Schema, rows, settings and processes keep their types.
THEOREM TypeCorrect == Spec => []TypeOK
<1>1. IsolationInv => TypeOK
  BY DEF IsolationInv
<1> QED
  BY IsolationInvariant, <1>1, PTL

\* A policy shows a connection what its transaction is meant to see.
LEMMA PolicyShowsMeant ==
    ASSUME NEW c \in Conns, BoundTo(c), TypeOK, conn[c].intent # None,
           NEW t \in Tables, NEW r \in Row
    PROVE  Using(PolicyKindFor(t), conn[c].set, r)
               <=> Meant(conn[c].intent, PolicyKindFor(t), r)
<1> DEFINE s == conn[c].set
<1>1. conn[c].intent \in Tenants \cup {"unbound", "across"}
  BY DEF TypeOK, Intents
<1>2. PolicyKindFor(t) \in {"pool", "exclusive", "strict"}
  BY DEF PolicyKindFor
<1>3. CASE conn[c].intent \in Tenants
  <2>1. s.tenant = conn[c].intent /\ Coalesce(s.tenant) = conn[c].intent
    BY <1>3, Words DEF BoundTo, Coalesce
  <2>2. ~Unbound(s) /\ ~PlatformMode(s) /\ (Bound(s, r) <=> r.tenant = conn[c].intent)
    BY <1>3, <2>1, Words DEF Unbound, PlatformMode, Bound
  <2> QED BY <1>3, <2>2, Words DEF Using, Meant
<1>4. CASE conn[c].intent = "unbound"
  <2>1. Coalesce(s.tenant) = "" /\ Coalesce(s.platform) = ""
    BY <1>4, Words DEF BoundTo, Coalesce
  <2>2. Unbound(s) /\ ~PlatformMode(s) /\ ~Bound(s, r)
    BY <2>1 DEF Unbound, PlatformMode, Bound
  <2> QED BY <1>2, <1>4, <2>2, Words DEF Using, Meant
<1>5. CASE conn[c].intent = "across"
  <2>1. Coalesce(s.tenant) = "" /\ Coalesce(s.platform) = "on"
    BY <1>5, Words DEF BoundTo, Coalesce
  <2>2. PlatformMode(s)
    BY <2>1 DEF Unbound, PlatformMode
  <2> QED BY <1>5, <2>2 DEF Using, Meant
<1> QED
  BY <1>1, <1>3, <1>4, <1>5

LEMMA TiersFollow == IsolationInv => SessionTiersApart
<1> DEFINE t == SessionsTable
           r == rows[SessionsTable]
<1> SUFFICES ASSUME IsolationInv, r # NoRow, HasPolicy(t), ~exempt,
                    NEW c \in Conns, Visible(conn[c].set, t, r)
             PROVE  /\ conn[c].intent \in Tenants => r.principal # "platform_admin"
                    /\ conn[c].intent = "unbound" => r.principal # "tenant_user"
  BY DEF SessionTiersApart
<1>1. TypeOK /\ BoundTo(c) /\ SessionChecks(r)
  BY DEF IsolationInv, Bindings, ConstraintsHold
<1>2. t \in Tables /\ r \in Row /\ PolicyKindFor(t) = "exclusive"
  BY <1>1, TablesShape DEF TypeOK, PolicyKindFor
<1>3. Using(PolicyKindFor(t), conn[c].set, r)
  BY DEF Visible
<1> HIDE DEF t, r
<1>4. conn[c].intent # None => Meant(conn[c].intent, PolicyKindFor(t), r)
  BY <1>1, <1>2, <1>3, PolicyShowsMeant
<1>5. CASE conn[c].intent \in Tenants
  <2>1. r.tenant # Null
    BY <1>2, <1>4, <1>5, Words DEF Meant
  <2> QED BY <1>1, <1>5, <2>1, Words DEF SessionChecks
<1>6. CASE conn[c].intent = "unbound"
  <2>1. r.tenant = Null
    BY <1>2, <1>4, <1>6, Words DEF Meant
  <2> QED BY <1>1, <1>6, <2>1, Words DEF SessionChecks
<1> QED
  BY <1>5, <1>6

\* Whatever its connection served before, a transaction sees the rows it was
\* opened to see, no more and no less; the two tiers of sessions stay apart.
THEOREM TransactionsSeeTheirRows == Spec => []SeesWhatItShould
<1>1. IsolationInv => SeesWhatItShould
  <2> SUFFICES ASSUME IsolationInv, NEW c \in Conns, NEW t \in Tables,
                      conn[c].intent # None, rows[t] # NoRow,
                      conn[c].intent \in Tenants \/ (HasPolicy(t) /\ ~exempt)
               PROVE  Visible(conn[c].set, t, rows[t])
                          <=> Meant(conn[c].intent, PolicyKindFor(t), rows[t])
    BY TiersFollow DEF SeesWhatItShould
  <2>1. TypeOK /\ BoundTo(c)
    BY DEF IsolationInv, Bindings
  <2>2. rows[t] \in Row
    BY <2>1 DEF TypeOK
  <2>3. HasPolicy(t) /\ ~exempt
    BY <2>1 DEF BoundTo, Check, CheckRole, CheckTables
  <2>4. Visible(conn[c].set, t, rows[t]) <=> Using(PolicyKindFor(t), conn[c].set, rows[t])
    BY <2>3 DEF Visible
  <2> QED BY <2>1, <2>2, <2>4, PolicyShowsMeant
<1> QED
  BY IsolationInvariant, <1>1, PTL

\* Once an edge has its composite key (AddTenantFK), child and parent have the same
\* owner, however many parents a child has and whichever of its edges have theirs.
THEOREM PairsShareTheirTenant == Spec => []NoCrossTenantPair
<1>1. IsolationInv => NoCrossTenantPair
  <2> SUFFICES ASSUME IsolationInv, NEW e \in ToSet(TenantFKs),
                      HasFK(e), Points(e)
               PROVE  /\ rows[e.parent] # NoRow
                      /\ rows[e.child].tenant # Null
                      /\ rows[e.child].tenant = rows[e.parent].tenant
    BY DEF NoCrossTenantPair
  <2>1. /\ EdgeHolds(e) /\ IsNotNull(e.child) /\ TableHolds(e.child)
    BY SchemaParts, EdgeTables DEF IsolationInv, KeysNeedOwners
  <2>2. rows[e.child].tenant # Null
    BY <2>1 DEF TableHolds, Points
  <2>3. PairAccepted(e, rows[e.child], rows[e.parent])
    BY <2>1 DEF EdgeHolds
  <2> QED BY <2>2, <2>3 DEF PairAccepted, Points
<1> QED
  BY IsolationInvariant, <1>1, PTL

\* A strict policy hides a row from everybody only when the row was written
\* between the count and the policy's lock.
THEOREM PoliciesHideNothing == Spec => []NothingHidden
<1>1. IsolationInv => NothingHidden
  BY DEF IsolationInv
<1> QED
  BY IsolationInvariant, <1>1, PTL

\* A pointer that crosses owners, on an edge that keeps nobody from it.
OpenEdge == \E e \in ToSet(TenantFKs) : Crosses(e) /\ ~HasFK(e) /\ e.onDelete # "NO ACTION"

\* One step of one tenant transaction touches rows of its own, or the key pool.
LeavesOwn(c, t) ==
    conn[c].intent \in Tenants /\ conn'[c] # conn[c] /\ rows'[t] # rows[t]
          => LET Mine(r) == r = NoRow \/ r.tenant = conn[c].intent
             IN  \/ /\ Mine(rows'[t])
                    /\ Mine(rows[t]) \/ (t = CClassTable /\ rows[t].tenant = Null)
                 \/ OpenEdge

\* A strict table is not the key pool.
LEMMA StrictIsNotPool == CClassTable \notin ToSet(BClassTables)
  BY TablesShape DEF PolicyKindFor

\* A row has pointers of its own table.
LEMMA PointersAreOwn ==
    ASSUME TypeOK, NEW u \in Tables, rows[u] # NoRow, NEW e \in rows[u].refs
    PROVE  e \in ToSet(TenantFKs) /\ e.child = u
<1> DEFINE P == {R \in SUBSET EdgesOf(u) : \A f \in EdgesOf(u) : f.nullable \/ f \in R}
<1>1. rows[u] \in [tenant : Tenants \cup {Null}, refs : P, principal : Principals(u)]
  BY DEF TypeOK, RowsOf
<1>2. rows[u].refs \in P
  <2> HIDE DEF P
  <2> QED BY <1>1
<1> QED BY <1>2 DEF EdgesOf

\* Without open edges, a pointer that upstream acts on joins rows of one owner.
LEMMA EdgesJoinOwners ==
    ASSUME IsolationInv, ~OpenEdge, NEW e \in ToSet(TenantFKs), Points(e),
           e.onDelete # "NO ACTION"
    PROVE  rows[e.child].tenant = rows[e.parent].tenant /\ rows[e.parent] # NoRow
<1>1. EdgeHolds(e) /\ TableHolds(e.child) /\ (HasFK(e) => IsNotNull(e.child))
  BY SchemaParts, EdgeTables DEF IsolationInv, KeysNeedOwners
<1>2. rows[e.parent] # NoRow
  BY <1>1 DEF EdgeHolds, UpstreamPairAccepted, Points
<1>3. CASE HasFK(e)
  BY <1>1, <1>2, <1>3 DEF EdgeHolds, PairAccepted, TableHolds, Points
<1>4. CASE ~HasFK(e)
  <2>1. ~Crosses(e)
    BY <1>4 DEF OpenEdge
  <2> QED BY <1>2, <2>1 DEF Crosses
<1> QED BY <1>2, <1>3, <1>4

\* Then a row of one tenant takes along rows of this tenant alone, and nulls
\* pointers of no others: its rows and the key pool, which has no edges, are a
\* set no CASCADE leaves.
LEMMA DeletesOwn ==
    ASSUME IsolationInv, ~OpenEdge, NEW id \in Tenants, NEW t \in Tables,
           rows[t].tenant = id \/ t = CClassTable, NEW u \in Tables, Deleted(t)[u] # rows[u]
    PROVE  \/ u = t
           \/ rows[u].tenant = id /\ (Deleted(t)[u] = NoRow \/ Deleted(t)[u].tenant = id)
<1> DEFINE S == {v \in Tables : rows[v] = NoRow \/ rows[v].tenant = id \/ v = t}
<1>1. TypeOK
  BY DEF IsolationInv
<1>2. CascadeClosed(S)
  <2> SUFFICES ASSUME NEW e \in ToSet(TenantFKs), e.onDelete = "CASCADE", e.parent \in S, Points(e)
               PROVE  e.child \in S
    BY DEF CascadeClosed
  <2>1. rows[e.child].tenant = rows[e.parent].tenant /\ rows[e.parent] # NoRow
    BY EdgesJoinOwners
  <2>2. e.child \in Tables /\ e.parent # CClassTable
    BY EdgeTables, StrictIsNotPool
  <2> QED BY <2>1, <2>2
<1>3. Cascaded(t) \subseteq S
  BY <1>2 DEF Cascaded
<1>4. CASE u \in Cascaded(t)
  <2>1. Deleted(t)[u] = NoRow
    BY <1>4 DEF Deleted
  <2> QED BY <1>3, <1>4, <2>1
<1>5. CASE u \notin Cascaded(t)
  <2>1. Deleted(t)[u] = Nulled(rows[u], Cascaded(t))
    BY <1>1, <1>5, DeletedFacts
  <2>2. rows[u] # NoRow /\ rows[u] \in Row
    BY <1>1, <2>1, NulledFacts DEF TypeOK
  <2>3. PICK e \in rows[u].refs : e.onDelete = "SET NULL" /\ e.parent \in Cascaded(t)
    <3>1. CASE \E e \in rows[u].refs : e.onDelete = "SET NULL" /\ e.parent \in Cascaded(t)
      BY <3>1
    <3>2. CASE ~\E e \in rows[u].refs : e.onDelete = "SET NULL" /\ e.parent \in Cascaded(t)
      <4>1. {e \in rows[u].refs : ~(e.onDelete = "SET NULL" /\ e.parent \in Cascaded(t))} = rows[u].refs
        BY <3>2
      <4>2. Nulled(rows[u], Cascaded(t)) = [rows[u] EXCEPT !.refs = rows[u].refs]
        BY <2>2, <4>1 DEF Nulled
      <4>3. [rows[u] EXCEPT !.refs = rows[u].refs] = rows[u]
        BY <2>2 DEF Row
      <4> QED BY <2>1, <4>2, <4>3
    <3> QED BY <3>1, <3>2
  <2>4. e \in ToSet(TenantFKs) /\ e.child = u
    BY <1>1, <2>2, <2>3, PointersAreOwn DEF IsolationInv
  <2>5. rows[u].tenant = rows[e.parent].tenant /\ rows[e.parent] # NoRow
    BY <2>2, <2>3, <2>4, EdgesJoinOwners DEF Points
  <2>6. e.parent \in S /\ e.parent # CClassTable
    BY <1>3, <2>3, <2>4, EdgeTables, StrictIsNotPool
  <2>7. rows[u].tenant = id
    BY <2>5, <2>6
  <2>8. Deleted(t)[u].tenant = rows[u].tenant
    BY <2>1, <2>2, NulledFacts
  <2> QED BY <2>7, <2>8
<1> QED BY <1>4, <1>5

LEMMA StepLeavesOwn ==
    ASSUME IsolationInv, [Next]_vars, NEW c \in Conns, NEW t \in Tables
    PROVE  LeavesOwn(c, t)
<1>1. TypeOK /\ BoundTo(c)
  BY DEF IsolationInv, Bindings
<1> DEFINE id == conn[c].intent
           Mine(r) == r = NoRow \/ r.tenant = id
           Own(u, r) == Mine(r) \/ (u = CClassTable /\ r.tenant = Null)
<1>2. ASSUME NEW d \in Conns, NEW u \in Tables, NEW new \in RowsOf(u) \cup {NoRow},
             CommitWrite(d, u, new), ~OpenEdge,
             conn[c].intent \in Tenants, conn'[c] # conn[c], rows'[t] # rows[t]
      PROVE  Mine(rows'[t]) /\ Own(t, rows[t])
  <2>1. c = d
    BY <1>1, <1>2 DEF CommitWrite, TypeOK
  <2>2. /\ \A v \in Tables : HasPolicy(v)
        /\ ~exempt /\ conn[c].set.tenant = conn[c].intent
    BY <1>1, <1>2 DEF BoundTo, Check, CheckRole, CheckTables
  <2>3. ~Unbound(conn[c].set) /\ Coalesce(conn[c].set.tenant) = id
    BY <1>2, <2>2, Words DEF Unbound, Coalesce
  <2>4. Own(u, rows[u])
    <3>1. CASE rows[u] # NoRow
      <4>1. Using(PolicyKindFor(u), conn[c].set, rows[u])
        BY <1>2, <2>1, <2>2, <3>1 DEF CommitWrite, Visible
      <4>2. Bound(conn[c].set, rows[u]) \/ (PolicyKindFor(u) = "pool" /\ rows[u].tenant = Null)
        BY <2>3, <4>1 DEF Using, PlatformMode
      <4>3. PolicyKindFor(u) = "pool" => u = CClassTable
        BY DEF PolicyKindFor
      <4> QED BY <2>3, <4>2, <4>3 DEF Bound
    <3> QED BY <3>1
  <2>5. CASE new # NoRow
    <3>1. t = u /\ rows'[t] = new
      BY <1>1, <1>2, <2>5 DEF CommitWrite, TypeOK
    <3>2. WithCheck(PolicyKindFor(u), conn[c].set, new)
      BY <1>2, <2>1, <2>2, <2>5 DEF CommitWrite, Accepted
    <3>3. Bound(conn[c].set, new)
      BY <2>3, <3>2 DEF WithCheck, PlatformMode
    <3> QED BY <2>3, <2>4, <3>1, <3>3 DEF Bound
  <2>6. CASE new = NoRow
    <3>1. rows' = Deleted(u) /\ rows[u] # NoRow
      BY <1>2, <2>6 DEF CommitWrite
    <3>2. rows'[u] = NoRow
      BY <1>1, <3>1, DeletedFacts
    <3>3. CASE t = u
      BY <2>4, <3>2, <3>3
    <3>4. CASE t # u
      <4>1. rows[u].tenant = id \/ u = CClassTable
        BY <2>4, <3>1
      <4>2. rows[t].tenant = id /\ (Deleted(u)[t] = NoRow \/ Deleted(u)[t].tenant = id)
        BY <1>2, <3>1, <3>4, <4>1, DeletesOwn
      <4> QED BY <3>1, <4>2
    <3> QED BY <3>3, <3>4
  <2> QED BY <2>5, <2>6
<1>3. ASSUME UNCHANGED conn \/ UNCHANGED rows PROVE LeavesOwn(c, t)
  BY <1>3 DEF LeavesOwn
<1>4. ASSUME NEW p \in Processes, ProcessStep(p) PROVE UNCHANGED rows
  BY <1>1, <1>4, ProcessEffect
<1>5. ASSUME NEW d \in Conns, ConnStep(d) PROVE LeavesOwn(c, t)
  <2>1. CASE UNCHANGED rows
    BY <1>3, <2>1
  <2>2. CASE ~UNCHANGED rows
    <3>1. PICK u \in Tables : \E new \in RowsOf(u) \cup {NoRow} : CommitWrite(d, u, new)
      BY <1>5, <2>2 DEF ConnStep, RunInTenantTx, RunAsPlatform, RunAcrossTenants,
                        WithPlatformTransaction, EndTx, Reconnect
    <3> QED BY <1>2, <3>1 DEF LeavesOwn
  <2> QED BY <2>1, <2>2
<1>6. ASSUME RollbackLast(Migrations) \/ RollbackLast(TighteningMigrations) PROVE UNCHANGED conn
  BY <1>6 DEF RollbackLast
<1> QED
  BY <1>3, <1>4, <1>5, <1>6 DEF Next, vars

\* A tenant transaction leaves no row that is not its tenant's, and through
\* upstream's CASCADE and SET NULL touches no other owner's row, unless a pointer
\* crosses owners on an edge without its composite key (policyClauses, AddTenantFK).
THEOREM TenantsWriteTheirOwn == Spec => TenantLeavesOwnRows
<1> DEFINE Step1 == \A c \in Conns, t \in Tables : LeavesOwn(c, t)
<1>1. IsolationInv /\ [Next]_vars => [Step1]_vars
  BY StepLeavesOwn
<1>2. [Step1]_vars <=> [\A c \in Conns, t \in Tables :
          conn[c].intent \in Tenants /\ conn'[c] # conn[c] /\ rows'[t] # rows[t]
          => LET Mine(r) == r = NoRow \/ r.tenant = conn[c].intent
             IN  \/ /\ Mine(rows'[t])
                    /\ Mine(rows[t]) \/ (t = CClassTable /\ rows[t].tenant = Null)
                 \/ \E e \in ToSet(TenantFKs) :
                       Crosses(e) /\ ~HasFK(e) /\ e.onDelete # "NO ACTION"]_vars
  BY DEF LeavesOwn, OpenEdge
<1> QED
  BY IsolationInvariant, <1>1, <1>2, PTL DEF Spec, TenantLeavesOwnRows

=============================================================================
