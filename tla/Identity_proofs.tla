--------------------------- MODULE Identity_proofs ---------------------------
(***************************************************************************)
(* Members, their audit trail and their sessions stay consistent for any   *)
(* number of members, concurrent requests and logins.                      *)
(***************************************************************************)
EXTENDS Identity, FiniteSetTheorems, TLAPS

\* A member has one role from its creation on, and the log says so.
OneRole(m) ==
    /\ Recorded(m) = View(m)
    /\ status[m] = "absent" => bindings[m] = {}
    /\ status[m] # "absent" => \E role \in Roles : bindings[m] = {role}

\* An open transaction holds its row, so the member is what it has read, and
\* what its handler has checked still holds.
HoldsRow(r) ==
    req[r].pc \in {"open", "written"} =>
        LET q == req[r]
            m == q.member
        IN  /\ lock[m] = r
            /\ q.before = View(m)
            /\ status[m] # "absent"
            /\ q.password => pw[m] < MaxResets
            /\ r \in Portal => "owner" \notin bindings[m] /\ q.nextRole # "owner"
            /\ q.pc = "open" => bindings[m] = {q.role}
            /\ q.pc = "written" => /\ q.unbound = bindings[m]
                                   /\ q.rebind \/ bindings[m] = {q.nextRole}

\* A session that did not race a reset was opened with the current password,
\* and a reset in progress has deleted it.
FreshSession(l) ==
    session[l] # None /\ ~session[l].raced =>
        /\ session[l].pw = pw[session[l].member]
        /\ \A r \in Requests :
              req[r].pc = "written" /\ req[r].password
                /\ req[r].member = session[l].member => l \in req[r].doomed

IdentityInv ==
    /\ TypeOK
    /\ \A m \in Members : OneRole(m)
    /\ \A r \in Requests : HoldsRow(r)
    /\ \A l \in Logins : FreshSession(l)

-----------------------------------------------------------------------------
\* The three shapes of a request.
LEMMA RequestShape ==
    ASSUME TypeOK, NEW r \in Requests
    PROVE  /\ req[r].pc \in {"idle", "ready", "open", "written"}
           /\ req[r].pc = "open" => req[r] \in OpenRecords
           /\ req[r].pc = "written" => req[r] \in WrittenRecords
           /\ req[r].pc = "ready" => req[r] = Ready
           /\ req[r].pc = "idle" => req[r] = Idle
<1>1. req[r] \in {Idle, Ready} \cup OpenRecords \cup WrittenRecords
  BY DEF TypeOK
<1>2. CASE req[r] \in {Idle, Ready}
  BY <1>2 DEF Idle, Ready
<1>3. CASE req[r] \in OpenRecords
  BY <1>3 DEF OpenRecords
<1>4. CASE req[r] \in WrittenRecords
  BY <1>4 DEF WrittenRecords
<1> QED
  BY <1>1, <1>2, <1>3, <1>4

LEMMA FreshIsFree ==
    ASSUME NEW r \in Requests
    PROVE  Fresh(r) \in {Idle, Ready} /\ Fresh(r).pc \notin {"open", "written"}
  BY DEF Fresh, Idle, Ready

LEMMA InitIdentity == Init => IdentityInv
<1> SUFFICES ASSUME Init PROVE IdentityInv
  OBVIOUS
<1>1. \A r \in Requests : req[r] \in {Idle, Ready} /\ req[r].pc \notin {"open", "written"}
  BY FreshIsFree DEF Init
<1>2. TypeOK
  BY <1>1, IdentityConstants DEF Init, TypeOK, Statuses
<1>3. \A m \in Members : OneRole(m)
  BY DEF Init, OneRole, Recorded, View
<1>4. \A r \in Requests : HoldsRow(r)
  BY <1>1 DEF HoldsRow
<1>5. \A l \in Logins : FreshSession(l)
  BY DEF Init, FreshSession
<1> QED
  BY <1>2, <1>3, <1>4, <1>5 DEF IdentityInv

\* A step that gives up or has not begun a transaction: only req[r] and locks
\* held by r change.
LEMMA IdleRequest ==
    ASSUME IdentityInv, NEW r \in Requests, NEW q \in {Idle, Ready},
           req' = [req EXCEPT ![r] = q],
           lock' \in [Members -> Requests \cup {None}],
           \A m \in Members : lock[m] # r => lock'[m] = lock[m],
           UNCHANGED <<status, bindings, pw, audit, login, session>>
    PROVE  IdentityInv'
<1> USE DEF IdentityInv
<1>1. q.pc \notin {"open", "written"}
  BY DEF Idle, Ready
<1>2. req'[r] = q /\ \A s \in Requests : s # r => req'[s] = req[s]
  BY DEF TypeOK
<1>3. TypeOK'
  BY DEF TypeOK
<1>4. ASSUME NEW m \in Members PROVE OneRole(m)'
  BY DEF OneRole, Recorded, View
<1>5. ASSUME NEW s \in Requests PROVE HoldsRow(s)'
  <2>1. CASE s = r
    BY <1>1, <1>2, <2>1 DEF HoldsRow
  <2>2. CASE s # r
    <3> SUFFICES ASSUME req[s].pc \in {"open", "written"} PROVE HoldsRow(s)'
      BY <1>2, <2>2 DEF HoldsRow
    <3>1. req[s].member \in Members
      BY RequestShape DEF OpenRecords, WrittenRecords
    <3>2. lock[req[s].member] = s /\ lock'[req[s].member] = s
      BY <2>2, <3>1 DEF HoldsRow
    <3>3. HoldsRow(s)
      OBVIOUS
    <3> QED BY <1>2, <2>2, <3>2, <3>3 DEF HoldsRow, View
  <2> QED BY <2>1, <2>2
<1>6. ASSUME NEW l \in Logins PROVE FreshSession(l)'
  BY <1>1, <1>2 DEF FreshSession
<1> QED
  BY <1>3, <1>4, <1>5, <1>6

LEMMA GivesUp ==
    ASSUME IdentityInv, NEW r \in Requests,
           Refuse(r) \/ Rollback(r) \/ \E l \in Logins : Authorize(r, l)
    PROVE  IdentityInv'
<1>1. lock \in [Members -> Requests \cup {None}]
  BY DEF IdentityInv, TypeOK
<1>2. CASE Refuse(r)
  BY <1>1, <1>2, IdleRequest DEF Refuse, rows
<1>3. CASE \E l \in Logins : Authorize(r, l)
  BY <1>1, <1>3, IdleRequest DEF Authorize, rows
<1>4. CASE Rollback(r)
  <2>1. /\ lock' = [m \in Members |-> IF lock[m] = r THEN None ELSE lock[m]]
        /\ req' = [req EXCEPT ![r] = Fresh(r)]
        /\ UNCHANGED <<status, bindings, pw, audit, login, session>>
    BY <1>4 DEF Rollback, rows
  <2>2. /\ lock' \in [Members -> Requests \cup {None}]
        /\ \A m \in Members : lock[m] # r => lock'[m] = lock[m]
    BY <1>1, <2>1
  <2>3. Fresh(r) \in {Idle, Ready}
    BY FreshIsFree
  <2> QED BY <2>1, <2>2, <2>3, IdleRequest
<1> QED
  BY <1>2, <1>3, <1>4

\* Entries and views have their types.
LEMMA EntryType ==
    ASSUME NEW r \in Requests, NEW s \in Statuses, NEW role \in Roles
    PROVE  /\ [status |-> s, roles |-> {role}] \in Views
           /\ Entry(r, [status |-> s, roles |-> {role}]) \in Entries
           /\ Entry(r, [status |-> s, roles |-> {role}]) # None
           /\ Entry(r, [status |-> s, roles |-> {role}]).after = [status |-> s, roles |-> {role}]
           /\ r \in Platform =>
                Entry(r, [status |-> s, roles |-> {role}]).by = "platform_admin"
<1>1. [status |-> s, roles |-> {role}] \in Views
  BY DEF Views
<1>2. Entry(r, [status |-> s, roles |-> {role}]) \in Entries
  BY <1>1 DEF Entry, Entries
<1> QED
  BY <1>1, <1>2, NoneIsNoEntry DEF Entry

LEMMA CreateIdentity ==
    ASSUME IdentityInv, NEW r \in Requests, NEW m \in Members, NEW role \in Roles,
           Create(r, m, role)
    PROVE  IdentityInv'
<1> USE DEF IdentityInv
<1> DEFINE view == [status |-> "active", roles |-> {role}]
<1>1. /\ req[r] = Ready /\ status[m] = "absent"
      /\ status' = [status EXCEPT ![m] = "active"]
      /\ bindings' = [bindings EXCEPT ![m] = {role}]
      /\ audit' = [audit EXCEPT ![m] = Entry(r, view)]
      /\ req' = [req EXCEPT ![r] = Fresh(r)]
      /\ UNCHANGED <<pw, lock, login, session>>
  BY DEF Create
<1>2. /\ Entry(r, view) \in Entries /\ Entry(r, view) # None
      /\ Entry(r, view).after = view
  BY EntryType DEF Statuses
<1>3. /\ status'[m] = "active" /\ bindings'[m] = {role} /\ audit'[m] = Entry(r, view)
      /\ \A k \in Members : k # m => /\ status'[k] = status[k] /\ bindings'[k] = bindings[k]
                                     /\ audit'[k] = audit[k]
  BY <1>1 DEF TypeOK
<1>4. req'[r] = Fresh(r) /\ \A s \in Requests : s # r => req'[s] = req[s]
  BY <1>1 DEF TypeOK
<1>5. TypeOK'
  <2>1. status' \in [Members -> Statuses \cup {"absent"}]
        /\ bindings' \in [Members -> SUBSET Roles]
    BY <1>1 DEF TypeOK, Statuses
  <2>2. audit' \in [Members -> {None} \cup Entries]
    BY <1>1, <1>2 DEF TypeOK
  <2>3. req' \in [Requests -> {Idle, Ready} \cup OpenRecords \cup WrittenRecords]
    BY <1>1, FreshIsFree DEF TypeOK
  <2> QED BY <1>1, <2>1, <2>2, <2>3 DEF TypeOK
<1>6. ASSUME NEW k \in Members PROVE OneRole(k)'
  <2>1. CASE k = m
    <3>1. Recorded(m)' = view /\ View(m)' = view
      BY <1>2, <1>3 DEF Recorded, View
    <3> QED BY <1>3, <2>1, <3>1 DEF OneRole
  <2>2. CASE k # m
    BY <1>3, <2>2 DEF OneRole, Recorded, View
  <2> QED BY <2>1, <2>2
<1>7. ASSUME NEW s \in Requests PROVE HoldsRow(s)'
  <2>1. CASE s = r
    BY <1>4, <2>1, FreshIsFree DEF HoldsRow
  <2>2. CASE s # r
    <3> SUFFICES ASSUME req[s].pc \in {"open", "written"} PROVE HoldsRow(s)'
      BY <1>4, <2>2 DEF HoldsRow
    <3>1. req[s].member \in Members
      BY RequestShape DEF OpenRecords, WrittenRecords
    <3>2. req[s].member # m
      BY <1>1 DEF HoldsRow
    <3>3. HoldsRow(s)
      OBVIOUS
    <3> QED BY <1>1, <1>3, <1>4, <2>2, <3>1, <3>2, <3>3 DEF HoldsRow, View
  <2> QED BY <2>1, <2>2
<1>8. ASSUME NEW l \in Logins PROVE FreshSession(l)'
  BY <1>1, <1>4, FreshIsFree DEF FreshSession
<1> QED
  BY <1>5, <1>6, <1>7, <1>8

\* The one role of a member is the role its handler reads.
LEMMA MemberRoleIsBound ==
    ASSUME IdentityInv, NEW m \in Members, status[m] # "absent"
    PROVE  MemberRole(m) \in Roles /\ bindings[m] = {MemberRole(m)}
<1>1. PICK role \in Roles : bindings[m] = {role}
  BY DEF IdentityInv, OneRole
<1> QED
  BY <1>1 DEF MemberRole

LEMMA BeginIdentity ==
    ASSUME IdentityInv, NEW r \in Requests, NEW m \in Members, NEW in \in Updates,
           Begin(r, m, in)
    PROVE  IdentityInv'
<1> USE DEF IdentityInv
<1> DEFINE q == Opened(m, in)
<1>1. /\ req[r] = Ready /\ status[m] # "absent" /\ lock[m] \in {None, r}
      /\ in.password => pw[m] < MaxResets
      /\ MayUpdate(r, m, in)
      /\ lock' = [lock EXCEPT ![m] = r]
      /\ req' = [req EXCEPT ![r] = q]
      /\ UNCHANGED <<status, bindings, pw, audit, login, session>>
  BY DEF Begin, RowFree, rows
<1>2. MemberRole(m) \in Roles /\ bindings[m] = {MemberRole(m)}
  BY <1>1, MemberRoleIsBound
<1>3. /\ in.role \in Roles \cup {None} /\ in.status \in Statuses \cup {None}
      /\ in.password \in BOOLEAN
  BY DEF Updates
<1>4. View(m) \in Views /\ status[m] \in Statuses
  BY <1>1 DEF TypeOK, View, Views
<1>5. q \in OpenRecords
  BY <1>2, <1>3, <1>4 DEF Opened, OpenRecords
<1>6. /\ q.pc = "open" /\ q.member = m /\ q.before = View(m) /\ q.role = MemberRole(m)
      /\ q.password = in.password
      /\ q.nextRole = IF in.role = None THEN MemberRole(m) ELSE in.role
  BY DEF Opened
<1>7. r \in Portal => MemberRole(m) # "owner" /\ q.nextRole # "owner"
  BY <1>1, <1>6 DEF MayUpdate
<1> HIDE DEF q
<1>8. req'[r] = q /\ \A s \in Requests : s # r => req'[s] = req[s]
  BY <1>1 DEF TypeOK
<1>9. lock'[m] = r /\ \A k \in Members : k # m => lock'[k] = lock[k]
  BY <1>1 DEF TypeOK
<1>10. TypeOK'
  BY <1>1, <1>5 DEF TypeOK
<1>11. ASSUME NEW k \in Members PROVE OneRole(k)'
  BY <1>1 DEF OneRole, Recorded, View
<1>12. ASSUME NEW s \in Requests PROVE HoldsRow(s)'
  <2>1. CASE s = r
    BY <1>1, <1>2, <1>6, <1>7, <1>8, <1>9, <2>1 DEF HoldsRow, View
  <2>2. CASE s # r
    <3> SUFFICES ASSUME req[s].pc \in {"open", "written"} PROVE HoldsRow(s)'
      BY <1>8, <2>2 DEF HoldsRow
    <3>1. req[s].member \in Members /\ s # None
      BY RequestShape, IdentityConstants DEF OpenRecords, WrittenRecords, Requests
    <3>2. req[s].member # m
      BY <1>1, <2>2, <3>1 DEF HoldsRow
    <3>3. HoldsRow(s)
      OBVIOUS
    <3> QED BY <1>1, <1>8, <1>9, <2>2, <3>1, <3>2, <3>3 DEF HoldsRow, View
  <2> QED BY <2>1, <2>2
<1>13. ASSUME NEW l \in Logins PROVE FreshSession(l)'
  BY <1>1, <1>6, <1>8 DEF FreshSession
<1> QED
  BY <1>10, <1>11, <1>12, <1>13

LEMMA WriteIdentity ==
    ASSUME IdentityInv, NEW r \in Requests, Write(r)
    PROVE  IdentityInv'
<1> USE DEF IdentityInv
<1> DEFINE q == req[r]
           m == q.member
           w == [pc |-> "written", member |-> m, before |-> q.before,
                 nextStatus |-> q.nextStatus, nextRole |-> q.nextRole, password |-> q.password,
                 rebind |-> q.nextRole # q.role,
                 unbound |-> bindings[m],
                 doomed |-> SessionsRevoked(q)]
<1>1. /\ q.pc = "open"
      /\ lock' = [lock EXCEPT ![m] = r]
      /\ req' = [req EXCEPT ![r] = w]
      /\ UNCHANGED <<status, bindings, pw, audit, login, session>>
  BY DEF Write, rows
<1>2. q \in OpenRecords
  BY <1>1, RequestShape
<1>3. /\ m \in Members /\ q.before \in Views /\ q.nextStatus \in Statuses
      /\ q.nextRole \in Roles /\ q.password \in BOOLEAN /\ q.role \in Roles
  BY <1>2 DEF OpenRecords
<1>4. SessionsRevoked(q) \in SUBSET Logins
  BY DEF SessionsRevoked, SessionsOf
<1>5. w \in WrittenRecords
  BY <1>3, <1>4 DEF WrittenRecords, TypeOK
<1>6. /\ w.pc = "written" /\ w.member = m /\ w.before = q.before /\ w.nextRole = q.nextRole
      /\ w.password = q.password /\ w.rebind = (q.nextRole # q.role)
      /\ w.unbound = bindings[m] /\ w.doomed = SessionsRevoked(q)
  OBVIOUS
<1>7. HoldsRow(r)
  OBVIOUS
<1>8. /\ lock[m] = r /\ q.before = View(m) /\ status[m] # "absent"
      /\ q.password => pw[m] < MaxResets
      /\ r \in Portal => "owner" \notin bindings[m] /\ q.nextRole # "owner"
      /\ bindings[m] = {q.role}
  BY <1>1, <1>7 DEF HoldsRow
<1> HIDE DEF w
<1>9. req'[r] = w /\ \A s \in Requests : s # r => req'[s] = req[s]
  BY <1>1 DEF TypeOK
<1>10. lock' = lock
  BY <1>1, <1>3, <1>8 DEF TypeOK
<1>11. TypeOK'
  <2>1. req' \in [Requests -> {Idle, Ready} \cup OpenRecords \cup WrittenRecords]
    BY <1>1, <1>5 DEF TypeOK
  <2> QED BY <1>1, <1>10, <2>1 DEF TypeOK
<1>12. ASSUME NEW k \in Members PROVE OneRole(k)'
  BY <1>1 DEF OneRole, Recorded, View
<1>13. ASSUME NEW s \in Requests PROVE HoldsRow(s)'
  <2>1. CASE s = r
    <3>1. w.rebind \/ bindings[m] = {w.nextRole}
      BY <1>6, <1>8
    <3>2. /\ w.pc = "written" /\ lock'[w.member] = s
          /\ w.before = [status |-> status'[w.member], roles |-> bindings'[w.member]]
          /\ status'[w.member] # "absent"
          /\ w.password => pw'[w.member] < MaxResets
          /\ s \in Portal => "owner" \notin bindings'[w.member] /\ w.nextRole # "owner"
          /\ w.unbound = bindings'[w.member]
          /\ w.rebind \/ bindings'[w.member] = {w.nextRole}
      BY <1>1, <1>6, <1>8, <1>10, <2>1, <3>1 DEF View
    <3> QED BY <1>9, <2>1, <3>2 DEF HoldsRow, View
  <2>2. CASE s # r
    <3>1. HoldsRow(s)
      OBVIOUS
    <3> QED BY <1>1, <1>9, <1>10, <2>2, <3>1 DEF HoldsRow, View
  <2> QED BY <2>1, <2>2
<1>14. ASSUME NEW l \in Logins PROVE FreshSession(l)'
  <2>1. FreshSession(l)
    OBVIOUS
  <2>2. session[l] # None /\ w.password /\ w.member = session[l].member => l \in w.doomed
    BY <1>6 DEF SessionsRevoked, SessionsOf
  <2> QED BY <1>1, <1>9, <2>1, <2>2 DEF FreshSession
<1> QED
  BY <1>11, <1>12, <1>13, <1>14

\* What Commit leaves of the member's bindings is the one role the audit entry
\* names.
LEMMA ReboundIsNextRole ==
    ASSUME IdentityInv, NEW r \in Requests, req[r].pc = "written"
    PROVE  Rebound(req[r]) = {req[r].nextRole}
<1>1. HoldsRow(r)
  BY DEF IdentityInv
<1> QED
  BY <1>1 DEF HoldsRow, Rebound

LEMMA CommitIdentity ==
    ASSUME IdentityInv, NEW r \in Requests, Commit(r)
    PROVE  IdentityInv'
<1> USE DEF IdentityInv
<1> DEFINE q == req[r]
           m == q.member
           view == [status |-> q.nextStatus, roles |-> {q.nextRole}]
<1>0. q.pc = "written"
  BY DEF Commit
<1>1. /\ status' = [status EXCEPT ![m] = q.nextStatus]
      /\ bindings' = [bindings EXCEPT ![m] = {q.nextRole}]
      /\ pw' = [pw EXCEPT ![m] = IF q.password THEN @ + 1 ELSE @]
      /\ session' = [l \in Logins |-> IF l \in q.doomed THEN None ELSE session[l]]
      /\ audit' = [audit EXCEPT ![m] = Entry(r, view)]
      /\ lock' = [lock EXCEPT ![m] = None]
      /\ req' = [req EXCEPT ![r] = Fresh(r)]
      /\ UNCHANGED login
  BY <1>0, ReboundIsNextRole DEF Commit
<1>2. q \in WrittenRecords
  BY <1>0, RequestShape
<1>3. /\ m \in Members /\ q.nextStatus \in Statuses /\ q.nextRole \in Roles
      /\ q.password \in BOOLEAN /\ q.doomed \in SUBSET Logins
  BY <1>2 DEF WrittenRecords
<1>4. /\ Entry(r, view) \in Entries /\ Entry(r, view) # None
      /\ Entry(r, view).after = view
  BY <1>3, EntryType
<1>5. HoldsRow(r)
  OBVIOUS
<1>6. lock[m] = r /\ (q.password => pw[m] < MaxResets)
  BY <1>0, <1>5 DEF HoldsRow
<1> HIDE DEF q
<1>7. /\ status'[m] = q.nextStatus /\ bindings'[m] = {q.nextRole}
      /\ audit'[m] = Entry(r, view)
      /\ pw'[m] = IF q.password THEN pw[m] + 1 ELSE pw[m]
      /\ \A k \in Members : k # m => /\ status'[k] = status[k] /\ bindings'[k] = bindings[k]
                                     /\ audit'[k] = audit[k] /\ pw'[k] = pw[k]
                                     /\ lock'[k] = lock[k]
  BY <1>1, <1>3 DEF TypeOK
<1>8. req'[r] = Fresh(r) /\ \A s \in Requests : s # r => req'[s] = req[s]
  BY <1>1 DEF TypeOK
<1>9. TypeOK'
  <2>1. status' \in [Members -> Statuses \cup {"absent"}]
        /\ bindings' \in [Members -> SUBSET Roles]
        /\ lock' \in [Members -> Requests \cup {None}]
    BY <1>1, <1>3 DEF TypeOK
  <2>2. audit' \in [Members -> {None} \cup Entries]
    BY <1>1, <1>4 DEF TypeOK
  <2>3. req' \in [Requests -> {Idle, Ready} \cup OpenRecords \cup WrittenRecords]
    BY <1>1, FreshIsFree DEF TypeOK
  <2>4. pw' \in [Members -> 0..MaxResets]
    BY <1>1, <1>3, <1>6, IdentityConstants DEF TypeOK
  <2>5. session' \in [Logins -> {None} \cup
            [member : Members, pw : 0..MaxResets, raced : BOOLEAN]]
    BY <1>1 DEF TypeOK
  <2> QED BY <1>1, <2>1, <2>2, <2>3, <2>4, <2>5 DEF TypeOK
<1>10. ASSUME NEW k \in Members PROVE OneRole(k)'
  <2>1. CASE k = m
    <3>1. Recorded(k)' = view /\ View(k)' = view
      BY <1>4, <1>7, <2>1 DEF Recorded, View
    <3>2. status'[m] # "absent"
      BY <1>3, <1>7 DEF Statuses
    <3> QED BY <1>3, <1>7, <2>1, <3>1, <3>2 DEF OneRole
  <2>2. CASE k # m
    BY <1>7, <2>2 DEF OneRole, Recorded, View
  <2> QED BY <2>1, <2>2
<1>11. ASSUME NEW s \in Requests PROVE HoldsRow(s)'
  <2>1. CASE s = r
    BY <1>8, <2>1, FreshIsFree DEF HoldsRow
  <2>2. CASE s # r
    <3> SUFFICES ASSUME req[s].pc \in {"open", "written"} PROVE HoldsRow(s)'
      BY <1>8, <2>2 DEF HoldsRow
    <3>1. req[s].member \in Members
      BY RequestShape DEF OpenRecords, WrittenRecords
    <3>2. req[s].member # m
      BY <1>6, <2>2 DEF HoldsRow
    <3>3. HoldsRow(s)
      OBVIOUS
    <3> QED BY <1>7, <1>8, <2>2, <3>1, <3>2, <3>3 DEF HoldsRow, View
  <2> QED BY <2>1, <2>2
<1>12. ASSUME NEW l \in Logins PROVE FreshSession(l)'
  <2> SUFFICES ASSUME session'[l] # None, ~session'[l].raced
               PROVE  /\ session'[l].pw = pw'[session'[l].member]
                      /\ \A s \in Requests :
                            req'[s].pc = "written" /\ req'[s].password
                              /\ req'[s].member = session'[l].member => l \in req'[s].doomed
    BY DEF FreshSession
  <2>1. l \notin q.doomed /\ session'[l] = session[l]
    BY <1>1
  <2>2. session[l].member \in Members
    BY <2>1 DEF TypeOK
  <2>3. FreshSession(l)
    OBVIOUS
  <2>4. q.password => session[l].member # m
    BY <1>0, <2>1, <2>3 DEF FreshSession, q
  <2>5. pw'[session[l].member] = pw[session[l].member]
    BY <1>3, <1>7, <2>2, <2>4
  <2>6. \A s \in Requests :
            req'[s].pc = "written" /\ req'[s].password
              /\ req'[s].member = session[l].member => l \in req'[s].doomed
    BY <1>8, <2>1, <2>3, FreshIsFree DEF FreshSession
  <2> QED BY <2>1, <2>3, <2>5, <2>6 DEF FreshSession
<1> QED
  BY <1>9, <1>10, <1>11, <1>12

-----------------------------------------------------------------------------
(* Logins and sessions. *)

\* A step that only changes logins and session rows.
LEMMA SessionStep ==
    ASSUME IdentityInv, NEW l \in Logins,
           login' \in [Logins -> {None} \cup
             [pc : {"compared", "stamped"}, member : Members, pw : 0..MaxResets]],
           session' \in [Logins -> {None} \cup
             [member : Members, pw : 0..MaxResets, raced : BOOLEAN]],
           \A k \in Logins : k # l => session'[k] = session[k],
           session'[l] \in {None, session[l]} \/ FreshSession(l)',
           UNCHANGED <<status, bindings, pw, audit, lock, req>>
    PROVE  IdentityInv'
<1> USE DEF IdentityInv
<1>1. TypeOK'
  BY DEF TypeOK
<1>2. ASSUME NEW m \in Members PROVE OneRole(m)'
  BY DEF OneRole, Recorded, View
<1>3. ASSUME NEW r \in Requests PROVE HoldsRow(r)'
  <2>1. HoldsRow(r)
    OBVIOUS
  <2> QED BY <2>1 DEF HoldsRow, View
<1>4. ASSUME NEW k \in Logins PROVE FreshSession(k)'
  <2>1. FreshSession(k)
    OBVIOUS
  <2>2. session'[k] \in {None, session[k]} \/ FreshSession(k)'
    OBVIOUS
  <2> QED BY <2>1, <2>2 DEF FreshSession
<1> QED
  BY <1>1, <1>2, <1>3, <1>4

LEMMA SessionCreateIdentity ==
    ASSUME IdentityInv, NEW l \in Logins, SessionCreate(l)
    PROVE  IdentityInv'
<1> DEFINE m == login[l].member
           x == [member |-> m, pw |-> login[l].pw,
                 raced |-> login[l].pw # pw[m] \/ ResetOpen(m)]
<1>1. /\ login[l] # None /\ session' = [session EXCEPT ![l] = x]
      /\ login' = [login EXCEPT ![l] = None]
      /\ UNCHANGED <<status, bindings, pw, audit, lock, req>>
  BY DEF SessionCreate, rows
<1>2. login[l] \in [pc : {"compared", "stamped"}, member : Members, pw : 0..MaxResets]
  BY <1>1 DEF IdentityInv, TypeOK
<1>3. ResetOpen(m) \in BOOLEAN
  BY DEF ResetOpen
<1>4. x \in [member : Members, pw : 0..MaxResets, raced : BOOLEAN]
      /\ x.member = m /\ x.pw = login[l].pw
      /\ (~x.raced => login[l].pw = pw[m] /\ ~ResetOpen(m))
  BY <1>2, <1>3
<1> HIDE DEF x
<1>5. session'[l] = x /\ \A k \in Logins : k # l => session'[k] = session[k]
  BY <1>1 DEF IdentityInv, TypeOK
<1>6. session' \in [Logins -> {None} \cup
             [member : Members, pw : 0..MaxResets, raced : BOOLEAN]]
      /\ login' \in [Logins -> {None} \cup
             [pc : {"compared", "stamped"}, member : Members, pw : 0..MaxResets]]
  BY <1>1, <1>4 DEF IdentityInv, TypeOK
<1>7. FreshSession(l)'
  BY <1>1, <1>4, <1>5 DEF FreshSession, ResetOpen
<1> QED
  BY <1>1, <1>5, <1>6, <1>7, SessionStep

LEMMA LoginIdentity ==
    ASSUME IdentityInv, NEW l \in Logins, LoginStep(l)
    PROVE  IdentityInv'
<1>0. TypeOK
  BY DEF IdentityInv
<1>1. ASSUME NEW m \in Members, LoginCompare(l, m) PROVE IdentityInv'
  <2>1. login' \in [Logins -> {None} \cup
             [pc : {"compared", "stamped"}, member : Members, pw : 0..MaxResets]]
    BY <1>0, <1>1 DEF LoginCompare, TypeOK
  <2> QED BY <1>0, <1>1, <2>1, SessionStep DEF LoginCompare, rows, TypeOK
<1>2. ASSUME LoginStamp(l) PROVE IdentityInv'
  <2>1. login[l] \in [pc : {"compared", "stamped"}, member : Members, pw : 0..MaxResets]
    BY <1>0, <1>2 DEF LoginStamp, TypeOK
  <2>2. login' \in [Logins -> {None} \cup
             [pc : {"compared", "stamped"}, member : Members, pw : 0..MaxResets]]
    BY <1>0, <1>2, <2>1 DEF LoginStamp, TypeOK
  <2> QED BY <1>0, <1>2, <2>2, SessionStep DEF LoginStamp, rows, TypeOK
<1>3. ASSUME SessionCreate(l) PROVE IdentityInv'
  BY <1>3, SessionCreateIdentity
<1>4. ASSUME LoginFails(l) PROVE IdentityInv'
  <2>1. login' \in [Logins -> {None} \cup
             [pc : {"compared", "stamped"}, member : Members, pw : 0..MaxResets]]
    BY <1>0, <1>4 DEF LoginFails, TypeOK
  <2> QED BY <1>0, <1>4, <2>1, SessionStep DEF LoginFails, rows, TypeOK
<1>5. ASSUME Logout(l) \/ SessionExpires(l) PROVE IdentityInv'
  <2>1. /\ session' = [session EXCEPT ![l] = None]
        /\ UNCHANGED <<status, bindings, pw, audit, lock, req, login>>
    BY <1>5 DEF Logout, SessionExpires, rows
  <2>2. /\ session' \in [Logins -> {None} \cup
             [member : Members, pw : 0..MaxResets, raced : BOOLEAN]]
        /\ session'[l] = None /\ \A k \in Logins : k # l => session'[k] = session[k]
        /\ login' \in [Logins -> {None} \cup
             [pc : {"compared", "stamped"}, member : Members, pw : 0..MaxResets]]
    BY <1>0, <2>1 DEF TypeOK
  <2> QED BY <2>1, <2>2, SessionStep
<1> QED
  BY <1>1, <1>2, <1>3, <1>4, <1>5 DEF LoginStep

-----------------------------------------------------------------------------
LEMMA NextIdentity == IdentityInv /\ [Next]_vars => IdentityInv'
<1> SUFFICES ASSUME IdentityInv, [Next]_vars PROVE IdentityInv'
  OBVIOUS
<1>1. CASE UNCHANGED vars
  BY <1>1 DEF vars, IdentityInv, TypeOK, OneRole, Recorded, View, HoldsRow, FreshSession
<1>2. ASSUME NEW r \in Requests, RequestStep(r) PROVE IdentityInv'
  BY <1>2, GivesUp, CreateIdentity, BeginIdentity, WriteIdentity, CommitIdentity
     DEF RequestStep
<1> QED
  BY <1>1, <1>2, LoginIdentity DEF Next

\* The inductive invariant of the members, their requests and their sessions.
THEOREM IdentityInvariant == Spec => []IdentityInv
  BY InitIdentity, NextIdentity, PTL DEF Spec

\* Whatever requests interleave, the audit log is the exact history of every
\* member and every member has one role.
THEOREM AuditTrailIsComplete == Spec => []AuditIsHistory
<1>1. ASSUME IdentityInv PROVE AuditIsHistory
  <2>1. ASSUME NEW m \in Members, status[m] # "absent" PROVE Cardinality(bindings[m]) = 1
    <3>1. PICK role \in Roles : bindings[m] = {role}
      BY <1>1, <2>1 DEF IdentityInv, OneRole
    <3> QED BY <3>1, FS_Singleton
  <2>2. ASSUME NEW r \in Requests, req[r].pc = "written"
        PROVE  req[r].before = Recorded(req[r].member)
    <3>1. req[r].member \in Members
      BY <1>1, <2>2, RequestShape DEF IdentityInv, WrittenRecords
    <3>2. req[r].before = View(req[r].member)
      BY <1>1, <2>2 DEF IdentityInv, HoldsRow
    <3> QED BY <1>1, <3>1, <3>2 DEF IdentityInv, OneRole
  <2> QED BY <1>1, <2>1, <2>2 DEF AuditIsHistory, IdentityInv, OneRole
<1> QED
  BY <1>1, IdentityInvariant, PTL

\* In every order of logins and resets, a session of an old password is one
\* whose login overlapped the reset.
THEOREM ResetsEndSessions == Spec => []StaleSessionsRaced
<1>1. IdentityInv => StaleSessionsRaced
  BY DEF IdentityInv, FreshSession, StaleSessionsRaced
<1> QED
  BY <1>1, IdentityInvariant, PTL

\* No sequence of tenant users' requests, however interleaved with the
\* platform's, touches an owner or makes one.
THEOREM OwnersAreSafe == Spec => OwnersByPlatform
<1> DEFINE Step ==
             \A m \in Members :
                /\ "owner" \in bindings[m] \cup bindings'[m]
                /\ <<status[m], bindings[m], pw[m]>>' # <<status[m], bindings[m], pw[m]>>
                => audit'[m].by = "platform_admin"
<1>1. ASSUME IdentityInv, [Next]_vars PROVE [Step]_vars
  <2> SUFFICES ASSUME Next, NEW m \in Members,
                      "owner" \in bindings[m] \cup bindings'[m],
                      <<status[m], bindings[m], pw[m]>>' # <<status[m], bindings[m], pw[m]>>
               PROVE  audit'[m].by = "platform_admin"
    BY <1>1
  <2>1. ASSUME NEW l \in Logins, LoginStep(l) PROVE UNCHANGED <<status, bindings, pw>>
    BY <2>1 DEF LoginStep, LoginCompare, LoginStamp, SessionCreate, LoginFails, Logout,
                SessionExpires, rows
  <2>2. ASSUME NEW r \in Requests, NEW k \in Members, NEW role \in Roles, Create(r, k, role)
        PROVE  audit'[m].by = "platform_admin"
    <3>1. k = m
      BY <1>1, <2>2 DEF Create, IdentityInv, TypeOK
    <3>2. bindings[m] = {} /\ bindings'[m] = {role}
      BY <1>1, <2>2, <3>1 DEF Create, IdentityInv, TypeOK, OneRole
    <3>3. r \in Platform
      BY <2>2, <3>2 DEF Create, Requests
    <3>4. audit'[m] = Entry(r, [status |-> "active", roles |-> {role}])
      BY <1>1, <2>2, <3>1 DEF Create, IdentityInv, TypeOK
    <3> QED BY <3>3, <3>4 DEF Entry
  <2>3. ASSUME NEW r \in Requests, Commit(r)
        PROVE  audit'[m].by = "platform_admin"
    <3> DEFINE q == req[r]
    <3>1. q.pc = "written" /\ Rebound(q) = {q.nextRole}
      BY <1>1, <2>3, ReboundIsNextRole DEF Commit
    <3>2. q.member = m
      BY <1>1, <2>3 DEF Commit, IdentityInv, TypeOK
    <3>3. /\ bindings'[m] = {q.nextRole}
          /\ audit'[m] = Entry(r, [status |-> q.nextStatus, roles |-> {q.nextRole}])
      BY <1>1, <2>3, <3>1, <3>2 DEF Commit, IdentityInv, TypeOK
    <3>4. r \in Portal => "owner" \notin bindings[m] /\ q.nextRole # "owner"
      BY <1>1, <3>1, <3>2 DEF IdentityInv, HoldsRow
    <3>5. r \in Platform
      BY <3>3, <3>4 DEF Requests
    <3> QED BY <3>3, <3>5 DEF Entry
  <2>4. ASSUME NEW r \in Requests, RequestStep(r), ~Commit(r),
               \A k \in Members, role \in Roles : ~Create(r, k, role)
        PROVE  UNCHANGED <<status, bindings, pw>>
    BY <2>4 DEF RequestStep, Authorize, Refuse, Begin, Write, Rollback, rows
  <2>5. ~UNCHANGED <<status, bindings, pw>>
    OBVIOUS
  <2> QED
    BY <2>1, <2>2, <2>3, <2>4, <2>5 DEF Next
<1> QED
  BY <1>1, IdentityInvariant, PTL DEF Spec, OwnersByPlatform

-----------------------------------------------------------------------------
(* The last owner. *)

\* A request that will take an owner away.
TakesOwner(r) ==
    /\ req[r].pc \in {"open", "written"}
    /\ "owner" \in bindings[req[r].member]
    /\ req[r].nextRole # "owner" \/ req[r].nextStatus # "active"

\* What UpdateTx counted when the transaction began still holds: there is
\* another active owner.
CountStillHolds == \A r \in Requests : TakesOwner(r) => OtherOwners(req[r].member) # {}

\* No two requests take an owner away at the same time.
OneTakesOwner == \A r, s \in Requests : TakesOwner(r) /\ TakesOwner(s) => r = s

\* At most one administrator of the platform changes members at a time.
OnePlatformRequest == \A r, s \in Platform : r = s

\* A commit writes one member, and all others keep their roles and status.
LEMMA CommitWritesOne ==
    ASSUME IdentityInv, NEW r \in Requests, Commit(r)
    PROVE  LET q == req[r]
           IN  /\ q.pc = "written" /\ q.member \in Members /\ lock[q.member] = r
               /\ status'[q.member] = q.nextStatus /\ bindings'[q.member] = {q.nextRole}
               /\ \A k \in Members \ {q.member} :
                     status'[k] = status[k] /\ bindings'[k] = bindings[k]
               /\ req' = [req EXCEPT ![r] = Fresh(r)]
               /\ r \in Portal => "owner" \notin bindings[q.member]
<1> DEFINE q == req[r]
<1>1. q.pc = "written" /\ Rebound(q) = {q.nextRole}
  BY ReboundIsNextRole DEF Commit
<1>2. q.member \in Members
  BY <1>1, RequestShape DEF IdentityInv, WrittenRecords
<1>3. lock[q.member] = r /\ (r \in Portal => "owner" \notin bindings[q.member])
  BY <1>1 DEF IdentityInv, HoldsRow
<1>4. /\ status' = [status EXCEPT ![q.member] = q.nextStatus]
      /\ bindings' = [bindings EXCEPT ![q.member] = Rebound(q)]
      /\ req' = [req EXCEPT ![r] = Fresh(r)]
  BY DEF Commit
<1> QED
  BY <1>1, <1>2, <1>3, <1>4 DEF IdentityInv, TypeOK

\* Nobody else takes an owner while the one request that does is open: tenant
\* users never touch one, and any other request leaves it an active owner.
LEMMA CountKept ==
    ASSUME OneTakesOwner, IdentityInv, CountStillHolds, [Next]_vars
    PROVE  CountStillHolds'
<1>1. \A s \in Requests :
         /\ HoldsRow(s)
         /\ req[s].pc \in {"open", "written"} => req[s].member \in Members
  BY RequestShape DEF IdentityInv, OpenRecords, WrittenRecords
<1>3. CASE UNCHANGED <<status, bindings, req>>
  BY <1>3 DEF CountStillHolds, TakesOwner, OtherOwners
<1>4. ASSUME NEW r \in Requests, req'[r].pc \notin {"open", "written"},
             \A s \in Requests \ {r} : req'[s] = req[s],
             UNCHANGED <<status, bindings>>
      PROVE  CountStillHolds'
  BY <1>4 DEF CountStillHolds, TakesOwner, OtherOwners
<1>5. ASSUME NEW r \in Requests, Refuse(r) \/ Rollback(r) \/ \E l \in Logins : Authorize(r, l)
      PROVE  CountStillHolds'
  <2>1. /\ req' = [req EXCEPT ![r] = Idle] \/ req' = [req EXCEPT ![r] = Ready]
        /\ UNCHANGED <<status, bindings>>
    BY <1>5 DEF Refuse, Rollback, Authorize, Fresh, rows
  <2>2. /\ req'[r].pc \notin {"open", "written"}
        /\ \A s \in Requests \ {r} : req'[s] = req[s]
    BY <2>1 DEF IdentityInv, TypeOK, Idle, Ready
  <2> QED BY <1>4, <2>1, <2>2
<1>6. ASSUME NEW r \in Requests, NEW m \in Members, NEW role \in Roles, Create(r, m, role)
      PROVE  CountStillHolds'
  <2>1. /\ status[m] = "absent"
        /\ \A k \in Members \ {m} : status'[k] = status[k] /\ bindings'[k] = bindings[k]
        /\ req' = [req EXCEPT ![r] = Fresh(r)]
    BY <1>6 DEF Create, IdentityInv, TypeOK
  <2>2. /\ req'[r].pc \notin {"open", "written"}
        /\ \A s \in Requests \ {r} : req'[s] = req[s]
    BY <2>1, FreshIsFree DEF IdentityInv, TypeOK
  <2>3. ASSUME NEW s \in Requests, TakesOwner(s)'
        PROVE  OtherOwners(req[s].member)' # {}
    <3>1. s # r /\ req'[s] = req[s] /\ req[s].pc \in {"open", "written"}
      BY <2>2, <2>3 DEF TakesOwner
    <3>2. req[s].member \in Members /\ req[s].member # m
      BY <1>1, <2>1, <3>1 DEF HoldsRow
    <3>3. TakesOwner(s)
      BY <2>1, <2>3, <3>1, <3>2 DEF TakesOwner
    <3>4. PICK o \in OtherOwners(req[s].member) : TRUE
      BY <3>3 DEF CountStillHolds
    <3>5. o # m
      BY <2>1, <3>4 DEF OtherOwners
    <3> QED BY <2>1, <3>1, <3>4, <3>5 DEF OtherOwners
  <2> QED BY <2>3 DEF CountStillHolds
<1>7. ASSUME NEW r \in Requests, NEW m \in Members, NEW in \in Updates, Begin(r, m, in)
      PROVE  CountStillHolds'
  <2> DEFINE q == Opened(m, in)
  <2>1. /\ status[m] # "absent" /\ MayUpdate(r, m, in)
        /\ req' = [req EXCEPT ![r] = q]
        /\ UNCHANGED <<status, bindings>>
    BY <1>7 DEF Begin, rows
  <2>2. /\ q.member = m
        /\ q.nextRole = IF in.role = None THEN MemberRole(m) ELSE in.role
        /\ q.nextStatus = IF in.status = None THEN status[m] ELSE in.status
    BY DEF Opened
  <2>3. bindings[m] = {MemberRole(m)}
    BY <2>1, MemberRoleIsBound
  <2>4. /\ "owner" \in bindings[m]
        /\ q.nextRole # "owner" \/ q.nextStatus # "active"
        => OtherOwners(m) # {}
    BY <2>1, <2>2, <2>3 DEF MayUpdate
  <2> HIDE DEF q
  <2>5. req'[r] = q /\ \A s \in Requests \ {r} : req'[s] = req[s]
    BY <2>1 DEF IdentityInv, TypeOK
  <2> QED BY <2>1, <2>2, <2>4, <2>5 DEF CountStillHolds, TakesOwner, OtherOwners
<1>8. ASSUME NEW r \in Requests, Write(r)
      PROVE  CountStillHolds'
  <2>1. /\ req[r].pc = "open" /\ req'[r].pc = "written"
        /\ req'[r].member = req[r].member /\ req'[r].nextRole = req[r].nextRole
        /\ req'[r].nextStatus = req[r].nextStatus
        /\ \A s \in Requests \ {r} : req'[s] = req[s]
        /\ UNCHANGED <<status, bindings>>
    BY <1>8 DEF Write, rows, IdentityInv, TypeOK
  <2> QED BY <2>1 DEF CountStillHolds, TakesOwner, OtherOwners
<1>9. ASSUME NEW r \in Requests, Commit(r)
      PROVE  CountStillHolds'
  <2> DEFINE m == req[r].member
  <2>1. /\ m \in Members /\ lock[m] = r
        /\ \A k \in Members \ {m} : status'[k] = status[k] /\ bindings'[k] = bindings[k]
        /\ req' = [req EXCEPT ![r] = Fresh(r)]
        /\ req[r].pc = "written"
        /\ status'[m] = req[r].nextStatus /\ bindings'[m] = {req[r].nextRole}
    BY <1>9, CommitWritesOne
  <2>2. /\ req'[r].pc \notin {"open", "written"}
        /\ \A s \in Requests \ {r} : req'[s] = req[s]
    BY <2>1, FreshIsFree DEF IdentityInv, TypeOK
  <2>3. ASSUME NEW s \in Requests, TakesOwner(s)'
        PROVE  OtherOwners(req[s].member)' # {}
    <3>1. s # r /\ req'[s] = req[s] /\ req[s].pc \in {"open", "written"}
      BY <2>2, <2>3 DEF TakesOwner
    <3>2. req[s].member \in Members /\ req[s].member # m
      BY <1>1, <2>1, <3>1 DEF HoldsRow
    <3>3. TakesOwner(s)
      BY <2>1, <2>3, <3>1, <3>2 DEF TakesOwner
    <3>4. PICK o \in OtherOwners(req[s].member) : TRUE
      BY <3>3 DEF CountStillHolds
    <3>5. ~TakesOwner(r)
      BY <3>1, <3>3 DEF OneTakesOwner
    <3>6. status'[o] = "active" /\ "owner" \in bindings'[o]
      BY <2>1, <3>4, <3>5 DEF OtherOwners, TakesOwner
    <3> QED BY <3>1, <3>4, <3>6 DEF OtherOwners
  <2> QED BY <2>3 DEF CountStillHolds
<1>10. ASSUME NEW l \in Logins, LoginStep(l)
       PROVE  CountStillHolds'
  BY <1>3, <1>10 DEF LoginStep, LoginCompare, LoginStamp, SessionCreate, LoginFails, Logout,
                SessionExpires, rows
<1>11. ASSUME NEW r \in Requests, RequestStep(r)
       PROVE  CountStillHolds'
  BY <1>5, <1>6, <1>7, <1>8, <1>9, <1>11 DEF RequestStep
<1> QED
  BY <1>3, <1>10, <1>11 DEF Next, vars

\* While no two requests take an owner away at the same time, a tenant that has an
\* active owner keeps one, whatever else any number of administrators and tenant
\* users do.  Two of them at once can each take the other's witness away.
THEOREM LastOwnerStays == Spec /\ []OneTakesOwner => OwnerRemains
<1>1. Init => CountStillHolds
  BY FreshIsFree DEF Init, CountStillHolds, TakesOwner
<1>2. ASSUME IdentityInv, CountStillHolds, [Next]_vars
      PROVE  [ActiveOwners # {} => ActiveOwners' # {}]_vars
  <2> SUFFICES ASSUME Next, NEW o \in ActiveOwners
               PROVE  ActiveOwners' # {}
    BY <1>2
  <2>1. CASE UNCHANGED <<status, bindings>>
    BY <2>1 DEF ActiveOwners
  <2>2. ASSUME NEW r \in Requests, NEW k \in Members, NEW role \in Roles, Create(r, k, role)
        PROVE  ActiveOwners' # {}
    <3>1. status'[o] = status[o] /\ bindings'[o] = bindings[o]
      BY <1>2, <2>2 DEF Create, ActiveOwners, IdentityInv, TypeOK
    <3> QED BY <3>1 DEF ActiveOwners
  <2>3. ASSUME NEW r \in Requests, Commit(r)
        PROVE  ActiveOwners' # {}
    <3> DEFINE q == req[r]
               m == q.member
    <3>1. /\ q.pc = "written" /\ m \in Members
          /\ status'[m] = q.nextStatus /\ bindings'[m] = {q.nextRole}
          /\ \A k \in Members \ {m} : status'[k] = status[k] /\ bindings'[k] = bindings[k]
      BY <1>2, <2>3, CommitWritesOne
    <3>2. CASE o # m
      BY <3>1, <3>2 DEF ActiveOwners
    <3>3. CASE o = m /\ q.nextRole = "owner" /\ q.nextStatus = "active"
      BY <3>1, <3>3 DEF ActiveOwners
    <3>4. CASE o = m /\ (q.nextRole # "owner" \/ q.nextStatus # "active")
      <4>1. TakesOwner(r)
        BY <3>1, <3>4 DEF TakesOwner, ActiveOwners
      <4>2. PICK p \in OtherOwners(m) : TRUE
        BY <1>2, <4>1 DEF CountStillHolds
      <4> QED BY <3>1, <4>2 DEF OtherOwners, ActiveOwners
    <3> QED BY <3>2, <3>3, <3>4
  <2>4. ASSUME NEW r \in Requests, RequestStep(r), ~Commit(r),
               \A k \in Members, role \in Roles : ~Create(r, k, role)
        PROVE  UNCHANGED <<status, bindings>>
    BY <2>4 DEF RequestStep, Authorize, Refuse, Begin, Write, Rollback, rows
  <2>5. ASSUME NEW l \in Logins, LoginStep(l) PROVE UNCHANGED <<status, bindings>>
    BY <2>5 DEF LoginStep, LoginCompare, LoginStamp, SessionCreate, LoginFails, Logout,
                SessionExpires, rows
  <2> QED
    BY <2>1, <2>2, <2>3, <2>4, <2>5 DEF Next
<1>3. OneTakesOwner /\ IdentityInv /\ CountStillHolds /\ [Next]_vars => CountStillHolds'
  BY CountKept
<1> QED
  BY <1>1, <1>2, <1>3, IdentityInvariant, PTL DEF Spec, OwnerRemains

\* One administrator of the platform at a time is enough for that, since tenant
\* users may not touch owners.
THEOREM OneAdministratorIsEnough ==
    ASSUME OnePlatformRequest
    PROVE  Spec => OwnerRemains
<1>1. IdentityInv => OneTakesOwner
  <2> SUFFICES ASSUME IdentityInv, NEW r \in Requests, TakesOwner(r) PROVE r \in Platform
    BY DEF OneTakesOwner, OnePlatformRequest
  <2>1. HoldsRow(r)
    BY DEF IdentityInv
  <2> QED BY <2>1 DEF TakesOwner, HoldsRow, Requests
<1> QED
  BY <1>1, IdentityInvariant, LastOwnerStays, PTL

=============================================================================
