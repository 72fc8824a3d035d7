------------------------------ MODULE Identity ------------------------------
(***************************************************************************)
(* The members, roles and sessions of one tenant, as internal/member,      *)
(* internal/authn and the member handlers of internal/httpapi keep them in *)
(* the control-plane database.                                             *)
(*                                                                         *)
(* A member request is one READ COMMITTED transaction: it locks the member *)
(* row, reads what it needs (Begin), issues its writes (Write) and commits *)
(* them with an audit entry (Commit), or is rolled back.  A login is three *)
(* autocommitted statements: it compares the password hash, stamps the     *)
(* row, and inserts a session.  The variables hold committed rows only.    *)
(*                                                                         *)
(* Emails, names and tokens are left out: a member is its email, a login   *)
(* names the session row it would insert.  The role "developer" may not    *)
(* manage members, exactly like "viewer", and is left out too.             *)
(***************************************************************************)
EXTENDS Naturals, FiniteSets

CONSTANTS
    Members,      \* the emails members are created under
    Platform,     \* concurrent requests to /api/admin/tenants/{id}/members
    Portal,       \* concurrent requests to /api/portal/members
    Logins,       \* logins, each with the session row it inserts
    MaxResets,    \* bound on the password resets of a member
    None

ASSUME IdentityConstants ==
    /\ Platform \cap Portal = {}
    /\ None \notin Platform \cup Portal
    /\ MaxResets \in Nat

Requests == Platform \cup Portal
Roles == {"owner", "admin", "viewer"}
Statuses == {"active", "disabled"}

VARIABLES
    status,    \* member -> "absent" or its status
    bindings,  \* member -> the roles bound to it in rbac_role_bindings
    pw,        \* member -> the version of its password hash
    lock,      \* member -> the request holding its row, or None
    req,       \* request -> its progress and what it read
    login,     \* login -> the statement it has reached
    session,   \* login -> the session row it inserted, or None
    audit      \* member -> its latest audit entry: by whom, and After

vars == <<status, bindings, pw, lock, req, login, session, audit>>
rows == <<status, bindings, pw, audit>>

-----------------------------------------------------------------------------
Idle == [pc |-> "idle"]
Ready == [pc |-> "ready"]

\* A platform request needs no member of the tenant to authorise it.
Fresh(r) == IF r \in Platform THEN Ready ELSE Idle

Init ==
    /\ status = [m \in Members |-> "absent"]
    /\ bindings = [m \in Members |-> {}]
    /\ pw = [m \in Members |-> 0]
    /\ lock = [m \in Members |-> None]
    /\ req = [r \in Requests |-> Fresh(r)]
    /\ login = [l \in Logins |-> None]
    /\ session = [l \in Logins |-> None]
    /\ audit = [m \in Members |-> None]

\* What the JSON of a member view shows; the password hash is not in it.
View(m) == [status |-> status[m], roles |-> bindings[m]]

\* The permissions of the fixed roles, seeded with the tenant and again on every
\* start of the API.
RolePermissions ==
    LET May(actions, resources) == resources \X actions
    IN  [owner  |-> UNION {May({"manage"}, {"tenant", "member", "key", "budget"}),
                           May({"read"}, {"tenant", "billing", "request_log", "audit"}),
                           {<<"key", "reveal">>, <<"audit", "export">>}},
         admin  |-> UNION {May({"manage"}, {"member", "key", "budget"}),
                           May({"read"}, {"tenant", "billing", "request_log", "audit"})},
         viewer |-> May({"read"}, {"tenant", "billing", "audit"})]

\* A granted "member.*" covers every action below it.
permissionMatches(granted, wanted) == granted \in {wanted, <<wanted[1], "*">>}

Permissions(m) == UNION {RolePermissions[role] : role \in bindings[m]}

Authorized(m, wanted) == \E granted \in Permissions(m) : permissionMatches(granted, wanted)

MemberRole(m) == CHOOSE role \in bindings[m] : TRUE

\* A session is honoured while its member is active.
SessionOK(l) == session[l] # None /\ status[session[l].member] = "active"

SessionsOf(m) == {l \in Logins : session[l] # None /\ session[l].member = m}

\* Session rows an uncommitted transaction has deleted, hence locked.
Doomed == UNION {req[r].doomed : r \in {q \in Requests : req[q].pc = "written"}}

-----------------------------------------------------------------------------
(* Member requests. *)

\* The portal checks the session and member.manage before the transaction.
Authorize(r, l) ==
    /\ r \in Portal /\ req[r] = Idle
    /\ SessionOK(l)
    /\ Authorized(session[l].member, <<"member", "manage">>)
    /\ req' = [req EXCEPT ![r] = Ready]
    /\ UNCHANGED <<rows, lock, login, session>>

\* An authorised request that is refused, or whose client goes away.
Refuse(r) ==
    /\ r \in Portal /\ req[r] = Ready
    /\ req' = [req EXCEPT ![r] = Idle]
    /\ UNCHANGED <<rows, lock, login, session>>

\* An entry also has the Before that req keeps until the commit.
Entry(r, after) == [by |-> IF r \in Platform THEN "platform_admin" ELSE "tenant_user", after |-> after]

\* Mutant: a member starts in a status the other handlers do not know.
CreateInvited(r, m, role) ==
    /\ req[r] = Ready
    /\ r \in Portal => role # "owner"
    /\ status[m] = "absent"
    /\ status' = [status EXCEPT ![m] = "invited"]
    /\ bindings' = [bindings EXCEPT ![m] = {role}]
    /\ audit' = [audit EXCEPT ![m] = Entry(r, [status |-> "invited", roles |-> {role}])]
    /\ req' = [req EXCEPT ![r] = Fresh(r)]
    /\ UNCHANGED <<pw, lock, login, session>>

Create(r, m, role) ==
    /\ req[r] = Ready
    /\ r \in Portal => role # "owner"
    /\ status[m] = "absent"
    /\ status' = [status EXCEPT ![m] = "active"]
    /\ bindings' = [bindings EXCEPT ![m] = {role}]
    /\ audit' = [audit EXCEPT ![m] =
            Entry(r, [status |-> "active", roles |-> {role}])]
    /\ req' = [req EXCEPT ![r] = Fresh(r)]
    /\ UNCHANGED <<pw, lock, login, session>>

\* An update names a role, a status and a new password, or omits them.  The
\* DELETE handler is the update that names only the status "disabled".
Updates == [role : Roles \cup {None}, status : Statuses \cup {None}, password : BOOLEAN]

\* Mutant: disabled owners are counted.
OtherOwnersAny(m) == {o \in Members \ {m} : "owner" \in bindings[o]}

OtherOwners(m) ==
    {o \in Members \ {m} : status[o] = "active" /\ "owner" \in bindings[o]}

\* Mutant: tenant users may not grant owner, but may change one.
MayUpdateGrantOnly(r, m, in) ==
    LET role == MemberRole(m)
        nextRole == IF in.role = None THEN role ELSE in.role
        nextStatus == IF in.status = None THEN status[m] ELSE in.status
    IN  /\ r \in Portal => in.role # "owner"
        /\ role = "owner" /\ (nextRole # "owner" \/ nextStatus # "active")
              => OtherOwners(m) # {}

\* The checks of the handler and of UpdateTx, on what the transaction reads.
MayUpdate(r, m, in) ==
    LET role == MemberRole(m)
        nextRole == IF in.role = None THEN role ELSE in.role
        nextStatus == IF in.status = None THEN status[m] ELSE in.status
    IN  /\ r \in Portal => role # "owner" /\ in.role # "owner"
        /\ role = "owner" /\ (nextRole # "owner" \/ nextStatus # "active")
              => OtherOwners(m) # {}

RowFree(r, m) == lock[m] \in {None, r}

\* What the transaction has read and will write.
Opened(m, in) ==
    [pc |-> "open", member |-> m, before |-> View(m), role |-> MemberRole(m),
     nextRole |-> IF in.role = None THEN MemberRole(m) ELSE in.role,
     nextStatus |-> IF in.status = None THEN status[m] ELSE in.status,
     password |-> in.password]

\* Mutant: the member is read without FOR UPDATE.
BeginUnlocked(r, m, in) ==
    /\ req[r] = Ready
    /\ status[m] # "absent"
    /\ in.password => pw[m] < MaxResets
    /\ MayUpdate(r, m, in)
    /\ req' = [req EXCEPT ![r] = Opened(m, in)]
    /\ UNCHANGED <<rows, lock, login, session>>

Begin(r, m, in) ==
    /\ req[r] = Ready
    /\ status[m] # "absent" /\ RowFree(r, m)
    /\ in.password => pw[m] < MaxResets
    /\ MayUpdate(r, m, in)
    /\ lock' = [lock EXCEPT ![m] = r]
    /\ req' = [req EXCEPT ![r] = Opened(m, in)]
    /\ UNCHANGED <<rows, login, session>>

\* Mutant: a password reset keeps the member's sessions.
SessionsKept(q) == {}

\* The sessions a password reset deletes, the caller's own included.
SessionsRevoked(q) == IF q.password THEN SessionsOf(q.member) ELSE {}

\* The UPDATE takes the row, the DELETEs see the rows committed by then.
Write(r) ==
    /\ req[r].pc = "open"
    /\ LET q == req[r]
           m == q.member
       IN  /\ RowFree(r, m)
           /\ lock' = [lock EXCEPT ![m] = r]
           /\ req' = [req EXCEPT ![r] =
                [pc |-> "written", member |-> m, before |-> q.before,
                 nextStatus |-> q.nextStatus, nextRole |-> q.nextRole, password |-> q.password,
                 rebind |-> q.nextRole # q.role,
                 unbound |-> bindings[m],
                 doomed |-> SessionsRevoked(q)]]
    /\ UNCHANGED <<rows, login, session>>

\* Mutant: the new role is bound, the old one is not unbound.
ReboundKeeping(q) ==
    IF q.rebind THEN bindings[q.member] \cup {q.nextRole} ELSE bindings[q.member]

\* replaceRole: the fixed roles are unbound, the new one is bound.
Rebound(q) ==
    IF q.rebind THEN (bindings[q.member] \ q.unbound) \cup {q.nextRole} ELSE bindings[q.member]

Commit(r) ==
    /\ req[r].pc = "written"
    /\ LET q == req[r]
           m == q.member
       IN  /\ status' = [status EXCEPT ![m] = q.nextStatus]
           /\ bindings' = [bindings EXCEPT ![m] = Rebound(q)]
           /\ pw' = [pw EXCEPT ![m] = IF q.password THEN @ + 1 ELSE @]
           /\ session' = [l \in Logins |-> IF l \in q.doomed THEN None ELSE session[l]]
           /\ audit' = [audit EXCEPT ![m] =
                Entry(r, [status |-> q.nextStatus, roles |-> {q.nextRole}])]
           /\ lock' = [lock EXCEPT ![m] = None]
    /\ req' = [req EXCEPT ![r] = Fresh(r)]
    /\ UNCHANGED login

\* A statement fails, the client disconnects, or the process dies.
Rollback(r) ==
    /\ req[r].pc \in {"open", "written"}
    /\ lock' = [m \in Members |-> IF lock[m] = r THEN None ELSE lock[m]]
    /\ req' = [req EXCEPT ![r] = Fresh(r)]
    /\ UNCHANGED <<rows, login, session>>

-----------------------------------------------------------------------------
(* Sessions. *)

\* The password given is compared with the hash of an active member.
LoginCompare(l, m) ==
    /\ login[l] = None /\ session[l] = None /\ l \notin Doomed
    /\ status[m] = "active"
    /\ login' = [login EXCEPT ![l] = [pc |-> "compared", member |-> m, pw |-> pw[m]]]
    /\ UNCHANGED <<rows, lock, req, session>>

\* Setting last_login_at waits for the row, and re-reads nothing.
LoginStamp(l) ==
    /\ login[l] # None /\ login[l].pc = "compared"
    /\ lock[login[l].member] = None
    /\ login' = [login EXCEPT ![l].pc = "stamped"]
    /\ UNCHANGED <<rows, lock, req, session>>

\* A password reset of m that has deleted the sessions and not committed yet.
ResetOpen(m) ==
    \E r \in Requests : req[r].pc = "written" /\ req[r].member = m /\ req[r].password

\* History: raced, whether a reset came between the comparison and the insert.
SessionCreate(l) ==
    /\ login[l] # None /\ login[l].pc = "stamped"
    /\ LET m == login[l].member
       IN  session' = [session EXCEPT ![l] =
              [member |-> m, pw |-> login[l].pw,
               raced |-> login[l].pw # pw[m] \/ ResetOpen(m)]]
    /\ login' = [login EXCEPT ![l] = None]
    /\ UNCHANGED <<rows, lock, req>>

LoginFails(l) ==
    /\ login[l] # None
    /\ login' = [login EXCEPT ![l] = None]
    /\ UNCHANGED <<rows, lock, req, session>>

\* Logout deletes the row of a session that is honoured.
Logout(l) ==
    /\ SessionOK(l) /\ l \notin Doomed
    /\ session' = [session EXCEPT ![l] = None]
    /\ UNCHANGED <<rows, lock, req, login>>

\* A session past its lifetime is as good as deleted.
SessionExpires(l) ==
    /\ session[l] # None /\ l \notin Doomed
    /\ session' = [session EXCEPT ![l] = None]
    /\ UNCHANGED <<rows, lock, req, login>>

-----------------------------------------------------------------------------
RequestStep(r) ==
    \/ \E l \in Logins : Authorize(r, l)
    \/ Refuse(r)
    \/ \E m \in Members, role \in Roles : Create(r, m, role)
    \/ \E m \in Members, in \in Updates : Begin(r, m, in)
    \/ Write(r)
    \/ Commit(r)
    \/ Rollback(r)

LoginStep(l) ==
    \/ \E m \in Members : LoginCompare(l, m)
    \/ LoginStamp(l)
    \/ SessionCreate(l)
    \/ LoginFails(l)
    \/ Logout(l)
    \/ SessionExpires(l)

Next == (\E r \in Requests : RequestStep(r)) \/ (\E l \in Logins : LoginStep(l))

Spec == Init /\ [][Next]_vars

-----------------------------------------------------------------------------
(* Properties. *)

Views == [status : Statuses \cup {"absent"}, roles : SUBSET Roles]

OpenRecords ==
    [pc : {"open"}, member : Members, before : Views, role : Roles,
     nextRole : Roles, nextStatus : Statuses, password : BOOLEAN]

WrittenRecords ==
    [pc : {"written"}, member : Members, before : Views, nextStatus : Statuses,
     nextRole : Roles, password : BOOLEAN, rebind : BOOLEAN, unbound : SUBSET Roles,
     doomed : SUBSET Logins]

Entries == [by : {"platform_admin", "tenant_user"}, after : Views]

ASSUME NoneIsNoEntry == None \notin Entries

\* Every variable has its type: member rows, sessions and requests are well
\* formed and a row is locked by at most one request.
TypeOK ==
    /\ status \in [Members -> Statuses \cup {"absent"}]
    /\ bindings \in [Members -> SUBSET Roles]
    /\ pw \in [Members -> 0..MaxResets]
    /\ lock \in [Members -> Requests \cup {None}]
    /\ req \in [Requests -> {Idle, Ready} \cup OpenRecords \cup WrittenRecords]
    /\ login \in [Logins -> {None} \cup
            [pc : {"compared", "stamped"}, member : Members, pw : 0..MaxResets]]
    /\ session \in [Logins -> {None} \cup
            [member : Members, pw : 0..MaxResets, raced : BOOLEAN]]
    /\ audit \in [Members -> {None} \cup Entries]

Recorded(m) == IF audit[m] = None THEN [status |-> "absent", roles |-> {}] ELSE audit[m].after

\* The audit log is the exact history of every member.  Its last entry is what
\* the rows say now, with one role bound to a member that exists, and the
\* Before of the next entry is what the last one left: no change is lost
\* between two requests for the same member.  AppendTx runs in the transaction
\* of every member mutation.
AuditIsHistory ==
    /\ TypeOK
    /\ \A m \in Members :
        /\ Recorded(m) = View(m)
        /\ status[m] # "absent" => Cardinality(bindings[m]) = 1
    /\ \A r \in Requests :
        req[r].pc = "written" => req[r].before = Recorded(req[r].member)

ActiveOwners == {m \in Members : status[m] = "active" /\ "owner" \in bindings[m]}

\* A tenant that has an active owner keeps one: UpdateTx refuses to demote or
\* disable the last one.
OwnerRemains == [][ActiveOwners # {} => ActiveOwners' # {}]_vars

\* Whatever tenant users send and however it interleaves with the platform's
\* own requests, only a platform request changes an owner or makes one.
OwnersByPlatform ==
    [][\A m \in Members :
        /\ "owner" \in bindings[m] \cup bindings'[m]
        /\ <<status[m], bindings[m], pw[m]>>' # <<status[m], bindings[m], pw[m]>>
        => audit'[m].by = "platform_admin"]_vars

\* A session opened with a password that has since been reset exists only where
\* its login overlapped the reset: the hash was compared before the reset
\* committed and the row inserted after the reset had looked for sessions.  In
\* every other order a reset leaves no session of the old password behind.
StaleSessionsRaced ==
    \A l \in Logins :
        session[l] # None /\ session[l].pw # pw[session[l].member] => session[l].raced

=============================================================================
