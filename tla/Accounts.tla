------------------------------ MODULE Accounts ------------------------------
(***************************************************************************)
(* Users, tenants, memberships, sessions and the audit log                 *)
(* (packages/auth/src/index.ts, packages/db/src/seed.ts, services/audit.ts *)
(* and the routes that call them).                                         *)
(*                                                                         *)
(* A web server bootstraps the first admin and signs people in; the CLI    *)
(* and the seed script change accounts in processes of their own.  No      *)
(* statement is in a transaction with another one, so calls of different   *)
(* processes interleave statement by statement, and a process may be       *)
(* killed between two of its statements.  The server's own calls are       *)
(* synchronous; only a request for a draft, which waits for the file       *)
(* system, is under way while the server does other things.                *)
(*                                                                         *)
(* A password is the number of passwords the account has had, 0 for the    *)
(* placeholder the seed script stores, with which nobody can sign in.      *)
(***************************************************************************)
EXTENDS Naturals, FiniteSets

CONSTANTS
  Emails,     \* email addresses; an account is known by its own
  Tenants,    \* ids for rows of tenants
  Tokens,     \* tokens of sessions
  Servers,    \* processes that serve the web
  Shells,     \* processes of the CLI and of the seed script
  Nobody,     \* no user, no owner
  NoTenant,   \* no tenant
  MaxOps,     \* bound: account commands, of all processes together
  MaxKills    \* bound: processes killed

ASSUME AccountsAssumption ==
  /\ MaxOps \in Nat /\ MaxKills \in Nat
  /\ Nobody \notin Emails
  /\ NoTenant \notin Tenants

Processes == Servers \cup Shells
Roles == {"admin", "readonly"}
AccountSteps ==
  {"idle", "tenant", "newtenant", "member", "session", "delete", "role",
   "firstuser", "firsttenant", "firstmember", "seedtenant", "seednew", "seedmember"}
RequestSteps == {"none", "act", "audit"}
Mutations == {"draft.approve", "draft.edit"}  \* draft.reject asks for what draft.edit does

VARIABLES
  role,      \* users.role by email, "none" for no such user
  secret,    \* users.password_hash
  disabled,  \* users.disabled
  owner,     \* tenants.owner_user_id, Nobody for no such row
  member,    \* tenant_users.role by tenant and user, "none" for no row
  session,   \* sessions: [user, secret, late], user = Nobody for no row
  call,      \* process -> the call it is in: [step, user, role, tenant, secret, late]
  request,   \* the request for a draft that is under way: [step, user, action]
  mixed,     \* accounts on which a command was cut or met another one
  crowded,   \* two commands that make accounts were under way together
  ops, kills \* commands and kills so far

accountVars ==
  <<role, secret, disabled, owner, member, session, call, request, mixed, crowded, ops, kills>>
userRows == <<role, secret, disabled>>
tenantRows == <<owner, member>>
counts == <<crowded, ops, kills>>

NoSession == [user |-> Nobody, secret |-> 0, late |-> FALSE]
Resting == [step |-> "idle", user |-> Nobody, role |-> "readonly", tenant |-> NoTenant,
            secret |-> 0, late |-> FALSE]
NoRequest == [step |-> "none", user |-> Nobody, action |-> "draft.edit"]

AccountsTypeOK ==
  /\ role \in [Emails -> Roles \cup {"none"}]
  /\ secret \in [Emails -> Nat]
  /\ disabled \in [Emails -> BOOLEAN]
  /\ owner \in [Tenants -> Emails \cup {Nobody}]
  /\ member \in [Tenants -> [Emails -> Roles \cup {"none"}]]
  /\ session \in [Tokens -> [user : Emails \cup {Nobody}, secret : Nat, late : BOOLEAN]]
  /\ call \in [Processes -> [step : AccountSteps, user : Emails \cup {Nobody}, role : Roles,
                             tenant : Tenants \cup {NoTenant}, secret : Nat, late : BOOLEAN]]
  /\ request \in [step : RequestSteps, user : Emails \cup {Nobody}, action : Mutations]
  /\ mixed \subseteq Emails
  /\ crowded \in BOOLEAN
  /\ ops \in Nat /\ kills \in Nat

AccountsInit ==
  /\ role = [e \in Emails |-> "none"]
  /\ secret = [e \in Emails |-> 0]
  /\ disabled = [e \in Emails |-> FALSE]
  /\ owner = [t \in Tenants |-> Nobody]
  /\ member = [t \in Tenants |-> [e \in Emails |-> "none"]]
  /\ session = [k \in Tokens |-> NoSession]
  /\ call = [p \in Processes |-> Resting]
  /\ request = NoRequest
  /\ mixed = {} /\ crowded = FALSE
  /\ ops = 0 /\ kills = 0

-----------------------------------------------------------------------------
Exists(e) == role[e] # "none"
Making == {"tenant", "newtenant", "member", "firstuser", "firsttenant", "firstmember",
           "seedtenant", "seednew", "seedmember"}
Changing == Making \cup {"delete", "role"}
Busy(e) == \E p \in Processes : call[p].user = e /\ call[p].step \in Changing

Goto(p, s) == call' = [call EXCEPT ![p].step = s]
Return(p) == call' = [call EXCEPT ![p] = Resting]

(* What a command that starts on e does to the two history variables.      *)
Start(p, e, making) ==
  /\ call[p] = Resting
  /\ ops < MaxOps
  /\ ops' = ops + 1
  /\ mixed' = mixed \cup (IF Busy(e) THEN {e} ELSE {})
  /\ crowded' = (crowded \/ (making /\ \E q \in Processes : call[q].step \in Making))
  /\ UNCHANGED kills

(* A user row is written as a whole; the unique email keeps the first.     *)
InsertUser(e, r, s) ==
  /\ role' = [role EXCEPT ![e] = r]
  /\ secret' = [secret EXCEPT ![e] = s]
  /\ disabled' = [disabled EXCEPT ![e] = FALSE]

(* crypto.randomUUID: which id is taken does not matter.                   *)
Unused == {t \in Tenants : owner[t] = Nobody}

InsertTenant(p, s) ==
  LET t == CHOOSE u \in Unused : TRUE IN
  /\ Unused # {}
  /\ owner' = [owner EXCEPT ![t] = call[p].user]
  /\ call' = [call EXCEPT ![p].tenant = t, ![p].step = s]

-----------------------------------------------------------------------------
(* bootstrapAdmin: the count, then four INSERTs.                           *)

NeedsBootstrap == \A e \in Emails : ~Exists(e)

BootstrapCount(p, e) ==
  /\ NeedsBootstrap
  /\ Start(p, e, TRUE)
  /\ call' = [call EXCEPT ![p] = [Resting EXCEPT !.step = "firstuser", !.user = e,
                                                 !.role = "admin", !.secret = 1]]
  /\ UNCHANGED <<userRows, tenantRows, session, request>>

BootstrapUser(p) ==
  LET e == call[p].user IN
  /\ call[p].step = "firstuser"
  /\ \/ Exists(e) /\ Return(p) /\ UNCHANGED userRows
     \/ ~Exists(e) /\ InsertUser(e, "admin", 1) /\ Goto(p, "firsttenant")
  /\ UNCHANGED <<tenantRows, session, request, counts, mixed>>

BootstrapTenant(p) ==
  /\ call[p].step = "firsttenant"
  /\ InsertTenant(p, "firstmember")
  /\ UNCHANGED <<userRows, member, session, request, counts, mixed>>

BootstrapMember(p) ==
  /\ call[p].step = "firstmember"
  /\ member' = [member EXCEPT ![call[p].tenant][call[p].user] = "admin"]
  /\ Goto(p, "session")
  /\ UNCHANGED <<userRows, owner, session, request, counts, mixed>>

-----------------------------------------------------------------------------
(* Sessions.                                                               *)

(* signIn up to createSession: the row it reads is the one it judges, and  *)
(* verifyPassword takes its time.  last_login_at is left out.              *)
SignInDisabledToo(p, e) ==
  /\ call[p] = Resting /\ Exists(e) /\ secret[e] > 0
  /\ call' = [call EXCEPT ![p] = [Resting EXCEPT !.step = "session", !.user = e, !.secret = secret[e]]]
  /\ UNCHANGED <<userRows, tenantRows, session, request, counts, mixed>>
SignIn(p, e) ==
  /\ call[p] = Resting
  /\ Exists(e) /\ ~disabled[e]
  /\ secret[e] > 0
  /\ call' = [call EXCEPT ![p] = [Resting EXCEPT !.step = "session", !.user = e, !.secret = secret[e]]]
  /\ UNCHANGED <<userRows, tenantRows, session, request, counts, mixed>>

(* createSession; the session is late when a command has deleted the       *)
(* user's sessions since the call looked at the user.                      *)
CreateSession(p) ==
  /\ call[p].step = "session"
  /\ \E k \in Tokens :
       /\ session[k] = NoSession
       /\ session' = [session EXCEPT ![k] =
            [user |-> call[p].user, secret |-> call[p].secret,
             late |-> call[p].late]]
  /\ Return(p)
  /\ UNCHANGED <<userRows, tenantRows, request, counts, mixed>>

DestroySession(k) ==
  /\ session[k] # NoSession
  /\ session' = [session EXCEPT ![k] = NoSession]
  /\ UNCHANGED <<userRows, tenantRows, call, request, counts, mixed>>

(* getSessionByToken: the user's row is joined for the role, disabled is   *)
(* not looked at.  A session past its thirty days admits nobody; whether   *)
(* one is used at all is open here anyway, so its age is left out.         *)
SessionUser(k) == session[k].user

-----------------------------------------------------------------------------
(* Commands of the CLI.  Each looks the user up by email first; users are  *)
(* never deleted, so the lookup and the first UPDATE are one step.         *)

CreateUser(p, e, r) ==
  /\ ~Exists(e)
  /\ Start(p, e, TRUE)
  /\ InsertUser(e, r, 1)
  /\ call' = [call EXCEPT ![p] = [Resting EXCEPT !.step = "tenant", !.user = e, !.role = r]]
  /\ UNCHANGED <<tenantRows, session, request>>

(* defaultTenant: any tenant there is, else a new one.                     *)
DefaultTenantAlwaysNew(p) ==
  /\ call[p].step = "tenant" /\ Goto(p, "newtenant")
  /\ UNCHANGED <<userRows, tenantRows, session, request, counts, mixed>>
DefaultTenant(p) ==
  /\ call[p].step = "tenant"
  /\ \/ /\ \A t \in Tenants : owner[t] = Nobody
        /\ Goto(p, "newtenant")
     \/ \E t \in Tenants :
          /\ owner[t] # Nobody
          /\ call' = [call EXCEPT ![p].tenant = t, ![p].step = "member"]
  /\ UNCHANGED <<userRows, tenantRows, session, request, counts, mixed>>

DefaultTenantNew(p) ==
  /\ call[p].step = "newtenant"
  /\ InsertTenant(p, "member")
  /\ UNCHANGED <<userRows, member, session, request, counts, mixed>>

CreateMemberReadonly(p) ==
  /\ call[p].step = "member"
  /\ member' = [member EXCEPT ![call[p].tenant][call[p].user] = "readonly"]
  /\ Return(p)
  /\ UNCHANGED <<userRows, owner, session, request, counts, mixed>>
CreateMember(p) ==
  /\ call[p].step = "member"
  /\ member' = [member EXCEPT ![call[p].tenant][call[p].user] = call[p].role]
  /\ Return(p)
  /\ UNCHANGED <<userRows, owner, session, request, counts, mixed>>

Command(p, e, s, r) ==
  call' = [call EXCEPT ![p] = [Resting EXCEPT !.step = s, !.user = e, !.role = r]]

(* resetLocalAdminPassword also enables the account.                       *)
ResetPassword(p, e) ==
  /\ Exists(e)
  /\ Start(p, e, FALSE)
  /\ secret' = [secret EXCEPT ![e] = @ + 1]
  /\ disabled' = [disabled EXCEPT ![e] = FALSE]
  /\ Command(p, e, "delete", "readonly")
  /\ UNCHANGED <<role, tenantRows, session, request>>

SetDisabled(p, e, d) ==
  /\ Exists(e)
  /\ Start(p, e, FALSE)
  /\ disabled' = [disabled EXCEPT ![e] = d]
  /\ IF d THEN Command(p, e, "delete", "readonly") ELSE UNCHANGED call
  /\ UNCHANGED <<role, secret, tenantRows, session, request>>

ClearSessions(p, e) ==
  /\ Exists(e)
  /\ Start(p, e, FALSE)
  /\ Command(p, e, "delete", "readonly")
  /\ UNCHANGED <<userRows, tenantRows, session, request>>

(* DELETE FROM sessions WHERE user_id = ?; what is in memory it misses.    *)
DeleteSessions(p) ==
  /\ call[p].step = "delete"
  /\ session' = [k \in Tokens |-> IF session[k].user = call[p].user THEN NoSession ELSE session[k]]
  /\ call' = [q \in Processes |->
       IF q = p THEN Resting
       ELSE IF call[q].user = call[p].user THEN [call[q] EXCEPT !.late = TRUE] ELSE call[q]]
  /\ UNCHANGED <<userRows, tenantRows, request, counts, mixed>>

SetRole(p, e, r) ==
  /\ Exists(e)
  /\ Start(p, e, FALSE)
  /\ role' = [role EXCEPT ![e] = r]
  /\ Command(p, e, "role", r)
  /\ UNCHANGED <<secret, disabled, tenantRows, session, request>>

SetMemberRole(p) ==
  LET e == call[p].user IN
  /\ call[p].step = "role"
  /\ member' = [t \in Tenants |->
       IF member[t][e] = "none" THEN member[t] ELSE [member[t] EXCEPT ![e] = call[p].role]]
  /\ Return(p)
  /\ UNCHANGED <<userRows, owner, session, request, counts, mixed>>

-----------------------------------------------------------------------------
(* seed.ts.  An account that exists keeps its role and becomes an admin    *)
(* of a tenant all the same.                                               *)

SeedUser(p, e) ==
  /\ call[p] = Resting /\ ops < MaxOps
  /\ ops' = ops + 1
  /\ mixed' = mixed \cup (IF Busy(e) \/ role[e] = "readonly" THEN {e} ELSE {})
  /\ crowded' = TRUE
  /\ IF Exists(e) THEN UNCHANGED userRows ELSE InsertUser(e, "admin", 0)
  /\ Command(p, e, "seedtenant", "admin")
  /\ UNCHANGED <<tenantRows, session, request, kills>>

SeedTenant(p) ==
  /\ call[p].step = "seedtenant"
  /\ \/ (\A t \in Tenants : owner[t] # call[p].user) /\ Goto(p, "seednew")
     \/ \E t \in Tenants :
          /\ owner[t] = call[p].user
          /\ call' = [call EXCEPT ![p].tenant = t, ![p].step = "seedmember"]
  /\ UNCHANGED <<userRows, tenantRows, session, request, counts, mixed>>

SeedTenantNew(p) ==
  /\ call[p].step = "seednew"
  /\ InsertTenant(p, "seedmember")
  /\ UNCHANGED <<userRows, member, session, request, counts, mixed>>

(* onConflictDoNothing.                                                    *)
SeedMember(p) ==
  LET t == call[p].tenant  e == call[p].user IN
  /\ call[p].step = "seedmember"
  /\ member' = [member EXCEPT ![t][e] = IF @ = "none" THEN "admin" ELSE @]
  /\ Return(p)
  /\ UNCHANGED <<userRows, owner, session, request, counts, mixed>>

-----------------------------------------------------------------------------
(* A request that changes a draft: requirePermissionRequest, the change,   *)
(* and its entry in the audit log.                                         *)

Can(e, action) == Exists(e) /\ role[e] = "admin"
Permitted(e, action) == e # Nobody /\ Can(e, action)
UnderWay == request # NoRequest

Admit(k, action) ==
  LET e == SessionUser(k) IN
  /\ ~UnderWay
  /\ Permitted(e, action)
  /\ request' = [step |-> "act", user |-> e, action |-> action]
  /\ UNCHANGED <<userRows, tenantRows, session, call, counts, mixed>>

NoTenants == \A t \in Tenants : owner[t] = Nobody

(* An approve looks for the tenant first and fails without one; and the    *)
(* change itself may fail for reasons of its own (DraftFiles).             *)
Act ==
  /\ request.step = "act"
  /\ \/ ~(request.action = "draft.approve" /\ NoTenants)
        /\ request' = [request EXCEPT !.step = "audit"]
     \/ request' = NoRequest
  /\ UNCHANGED <<userRows, tenantRows, session, call, counts, mixed>>

TenantsOf(e) == {t \in Tenants : member[t][e] # "none"}

(* resolveTenantId: a tenant the user belongs to, else any.                *)
ResolveAnyTenant(e) == {t \in Tenants : owner[t] # Nobody}
ResolveOwnedTenant(e) == {t \in Tenants : owner[t] = e}
ResolveTenantId(e) ==
  IF TenantsOf(e) # {} THEN TenantsOf(e) ELSE {t \in Tenants : owner[t] # Nobody}

(* An account whose command was cut, met another one or is under way.      *)
Half(e) == e \in mixed \/ Busy(e)

(* tryWriteDraftMutationAudit: the entry is written for a tenant of        *)
(* ResolveTenantId; that there is none, and any failure of the database,   *)
(* are logged and forgotten.  The entries themselves are left out.         *)
WriteAudit ==
  /\ request.step = "audit"
  /\ request' = NoRequest
  /\ UNCHANGED <<userRows, tenantRows, session, call, counts, mixed>>

(* A process dies; the server's request dies with it.                      *)
Kill(p) ==
  /\ call[p] # Resting \/ (p \in Servers /\ UnderWay)
  /\ kills < MaxKills
  /\ kills' = kills + 1
  /\ Return(p)
  /\ mixed' = mixed \cup
       (IF call[p].step \in Changing /\ call[p].step # "firstuser" THEN {call[p].user} ELSE {})
  /\ request' = IF p \in Servers THEN NoRequest ELSE request
  /\ UNCHANGED <<userRows, tenantRows, session, crowded, ops>>

(* The calls of the processes: the routes of the web server, the users     *)
(* commands of the CLI, and the seed script.                               *)
Bootstrap(p) ==
  \/ \E e \in Emails : BootstrapCount(p, e)
  \/ BootstrapUser(p) \/ BootstrapTenant(p) \/ BootstrapMember(p)

Login(p) == (\E e \in Emails : SignIn(p, e)) \/ CreateSession(p)

CreateLocalUser(p) ==
  \/ \E e \in Emails, r \in Roles : CreateUser(p, e, r)
  \/ DefaultTenant(p) \/ DefaultTenantNew(p) \/ CreateMember(p)

ChangeLocalUser(p) ==
  \/ \E e \in Emails :
       \/ \E r \in Roles : SetRole(p, e, r)
       \/ \E d \in BOOLEAN : SetDisabled(p, e, d)
       \/ ResetPassword(p, e) \/ ClearSessions(p, e)
  \/ DeleteSessions(p) \/ SetMemberRole(p)

Seed(p) ==
  \/ \E e \in Emails : SeedUser(p, e)
  \/ SeedTenant(p) \/ SeedTenantNew(p) \/ SeedMember(p)

AccountsNext ==
  \/ \E p \in Servers : Bootstrap(p) \/ Login(p)
  \/ \E p \in Shells : CreateLocalUser(p) \/ ChangeLocalUser(p) \/ Seed(p)
  \/ \E p \in Processes : Kill(p)
  \/ \E k \in Tokens : DestroySession(k) \/ \E a \in Mutations : Admit(k, a)
  \/ Act \/ WriteAudit

AccountsSpec == AccountsInit /\ [][AccountsNext]_accountVars

-----------------------------------------------------------------------------
(* Settled: no command on e was cut, met another one or is under way.      *)
Settled(e) == ~Half(e)

(* Once resetLocalAdminPassword or setLocalAdminUserDisabled is done, no   *)
(* session outlives it: whoever holds one signed in with the password the  *)
(* account has now and may sign in.  Only a sign-in that had read the user *)
(* before (signIn, between line 280 and createSession) escapes.            *)
RevokedSessionsGone ==
  \A k \in Tokens :
    LET s == session[k] IN
    s.user # Nobody /\ ~s.late /\ Settled(s.user) =>
      ~disabled[s.user] /\ s.secret = secret[s.user]

(* The two places a role is kept in agree, users.role that the permissions *)
(* are taken from and tenant_users.role (setLocalAdminUserRole).           *)
RolesAgree ==
  \A t \in Tenants, e \in Emails :
    Settled(e) => member[t][e] \in {"none", role[e]}

(* The hub has one tenant ("One row in v1", PLAN.md) unless the seed       *)
(* script ran or two commands that make accounts met.                      *)
OneTenant == crowded \/ \A t, u \in Tenants : owner[t] # Nobody /\ owner[u] # Nobody => t = u

(* The entry that is due in the audit log goes to a tenant the user        *)
(* belongs to, so that those who read that tenant's log see it             *)
(* (resolveTenantId falls back to any tenant): only an account that was    *)
(* not made to the end can act outside its tenant.                         *)
AuditInOwnTenant ==
  request.step = "audit" /\ Settled(request.user) =>
    \A t \in ResolveTenantId(request.user) : member[t][request.user] # "none"

(* A change of a draft by somebody whose account was made to the end finds *)
(* a tenant for its entry, although writeRouteDraftMutationAudit only logs *)
(* that there is none: what is left untraced then is what the database     *)
(* refused.                                                                *)
ActionsLeaveTrace ==
  request.step = "audit" /\ Settled(request.user) => ResolveTenantId(request.user) # {}
=============================================================================
