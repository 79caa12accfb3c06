-------------------------- MODULE Accounts_proofs -------------------------
(***************************************************************************)
(* Proofs about what the hub keeps in its own database: Accounts, for any  *)
(* emails, tenants, tokens, processes and bounds, and Migrations.          *)
(*                                                                         *)
(* The five properties of Accounts follow from one inductive invariant:    *)
(* what a call that is under way has done so far, for the accounts that    *)
(* are not mixed, and who works on what at the same time.  Each action is  *)
(* first reduced to what it does to the calls and to the tables, element   *)
(* by element (the lemmas called ...Effect); the steps of the invariant    *)
(* are proved from these.                                                  *)
(*                                                                         *)
(* Migrations, at the end: whatever older releases left behind, and        *)
(* wherever an upgrade is killed, the journal names only what is there,    *)
(* and an upgrade that was not killed while it seeded the journal gets     *)
(* through.                                                                *)
(***************************************************************************)
EXTENDS Accounts, Migrations, TLAPS

(* What a process can be in.                                               *)
AccountCalls == [step : AccountSteps, user : Emails \cup {Nobody}, role : Roles,
          tenant : Tenants \cup {NoTenant}, secret : Nat, late : BOOLEAN]

(* AccountsTypeOK in three parts: the tables, what is counted, the calls.  *)
RowsTyped ==
  /\ role \in [Emails -> Roles \cup {"none"}]
  /\ secret \in [Emails -> Nat]
  /\ disabled \in [Emails -> BOOLEAN]
  /\ owner \in [Tenants -> Emails \cup {Nobody}]
  /\ member \in [Tenants -> [Emails -> Roles \cup {"none"}]]
  /\ session \in [Tokens -> [user : Emails \cup {Nobody}, secret : Nat, late : BOOLEAN]]
  /\ request \in [step : RequestSteps, user : Emails \cup {Nobody}, action : Mutations]
CountsTyped == mixed \subseteq Emails /\ crowded \in BOOLEAN /\ ops \in Nat /\ kills \in Nat
AccountCallsTyped == call \in [Processes -> AccountCalls]

(* The three parts are the whole.                                          *)
LEMMA AccountsParts == AccountsTypeOK <=> RowsTyped /\ CountsTyped /\ AccountCallsTyped
BY DEF AccountsTypeOK, RowsTyped, CountsTyped, AccountCallsTyped, AccountCalls

(* The parts of a call, and the calls an action makes of it.               *)
LEMMA CallParts ==
  ASSUME NEW c \in AccountCalls
  PROVE  /\ c.step \in AccountSteps /\ c.user \in Emails \cup {Nobody} /\ c.role \in Roles
         /\ c.tenant \in Tenants \cup {NoTenant} /\ c.secret \in Nat /\ c.late \in BOOLEAN
         /\ \A s \in AccountSteps : [c EXCEPT !.step = s] \in AccountCalls
         /\ [c EXCEPT !.late = TRUE] \in AccountCalls
         /\ \A s \in AccountSteps, t \in Tenants : [c EXCEPT !.tenant = t, !.step = s] \in AccountCalls
BY DEF AccountCalls

(* A call that has found or made its tenant is a call.                     *)
LEMMA TenantTaken ==
  ASSUME AccountCallsTyped, NEW p \in Processes, NEW t \in Tenants, NEW s \in AccountSteps,
         call' = [call EXCEPT ![p].tenant = t, ![p].step = s]
  PROVE  AccountCallsTyped'
<1> DEFINE c == [call[p] EXCEPT !.tenant = t, !.step = s]
<1>1. call[p] \in AccountCalls
  BY DEF AccountCallsTyped
<1>2. c \in AccountCalls
  BY <1>1, CallParts
<1>3. call' = [q \in Processes |-> IF q = p THEN c ELSE call[q]]
  BY DEF AccountCallsTyped
<1> HIDE DEF c
<1> QED
  BY <1>2, <1>3 DEF AccountCallsTyped

(* So are those that begin.                                                *)
LEMMA NewCalls ==
  /\ Resting \in AccountCalls
  /\ \A s \in AccountSteps, e \in Emails, n \in Nat, r \in Roles :
       /\ [Resting EXCEPT !.step = s, !.user = e, !.role = r] \in AccountCalls
       /\ [Resting EXCEPT !.step = s, !.user = e, !.role = r, !.secret = n] \in AccountCalls
       /\ [Resting EXCEPT !.step = s, !.user = e, !.secret = n] \in AccountCalls
<1>1. Resting \in AccountCalls
  BY DEF AccountCalls, Resting, AccountSteps, Roles
<1> QED
  BY <1>1 DEF AccountCalls

(* A new user row has the types of the table.                              *)
LEMMA InsertUserTyped ==
  ASSUME NEW e, NEW r \in Roles, NEW s \in Nat, RowsTyped, InsertUser(e, r, s)
  PROVE  /\ role' \in [Emails -> Roles \cup {"none"}]
         /\ secret' \in [Emails -> Nat]
         /\ disabled' \in [Emails -> BOOLEAN]
BY DEF RowsTyped, InsertUser

(* So has a membership.                                                    *)
LEMMA MemberTyped ==
  ASSUME NEW t, NEW e, NEW r \in Roles \cup {"none"}, RowsTyped,
         member' = [member EXCEPT ![t][e] = r]
  PROVE  member' \in [Tenants -> [Emails -> Roles \cup {"none"}]]
BY DEF RowsTyped

(* What the calls under way, the sessions, the tenants and the request     *)
(* refer to is there.                                                      *)
RefersToRows ==
  /\ \A p \in Processes :
       /\ call[p].step # "idle" => call[p].user \in Emails
       /\ call[p].step \notin {"idle", "firstuser"} => Exists(call[p].user)
       /\ call[p].step \in {"member", "firstmember", "seedmember"} => call[p].tenant \in Tenants
  /\ \A k \in Tokens : session[k].user # Nobody => Exists(session[k].user)
  /\ \A t \in Tenants : owner[t] # Nobody => Exists(owner[t])
  /\ request.step # "none" => request.user \in Emails /\ Exists(request.user)

(* A command that starts counts itself and marks at most its own account.  *)
LEMMA StartTyped ==
  ASSUME NEW p \in Processes, NEW e \in Emails, NEW making \in BOOLEAN,
         CountsTyped, Start(p, e, making)
  PROVE  CountsTyped'
<1>1. mixed' \subseteq Emails /\ ops' \in Nat /\ kills' \in Nat
  BY DEF Start, CountsTyped
<1>2. crowded' \in BOOLEAN
  BY Zenon DEF Start, CountsTyped
<1> QED
  BY <1>1, <1>2 DEF CountsTyped

(* Every action keeps the types of what is counted.                        *)
LEMMA CountsStep ==
  AccountsTypeOK /\ RefersToRows /\ [AccountsNext]_accountVars => CountsTyped'
<1> SUFFICES ASSUME AccountsTypeOK, RefersToRows, [AccountsNext]_accountVars
             PROVE  CountsTyped'
  OBVIOUS
<1>1. ASSUME NEW p \in Processes, NEW e \in Emails, BootstrapCount(p, e)
      PROVE  CountsTyped'
  <2>1. Start(p, e, TRUE)
    BY <1>1 DEF BootstrapCount
  <2> QED
    BY <2>1, StartTyped, AccountsParts
<1>2. ASSUME NEW p \in Processes, BootstrapUser(p)
      PROVE  CountsTyped'
  BY AccountsParts, <1>2 DEF BootstrapUser, InsertUser, Goto, Return, CountsTyped, counts
<1>3. ASSUME NEW p \in Processes, BootstrapTenant(p)
      PROVE  CountsTyped'
  BY AccountsParts, <1>3 DEF BootstrapTenant, InsertTenant, Unused, CountsTyped, counts
<1>4. ASSUME NEW p \in Processes, BootstrapMember(p)
      PROVE  CountsTyped'
  BY AccountsParts, <1>4 DEF BootstrapMember, Goto, CountsTyped, counts
<1>5. ASSUME NEW p \in Processes, NEW e \in Emails, SignIn(p, e)
      PROVE  CountsTyped'
  BY AccountsParts, <1>5 DEF SignIn, CountsTyped, counts
<1>6. ASSUME NEW p \in Processes, CreateSession(p)
      PROVE  CountsTyped'
  BY AccountsParts, <1>6 DEF CreateSession, Return, CountsTyped, counts
<1>7. ASSUME NEW p \in Processes, NEW e \in Emails, NEW r \in Roles, CreateUser(p, e, r)
      PROVE  CountsTyped'
  <2>1. Start(p, e, TRUE)
    BY <1>7 DEF CreateUser
  <2> QED
    BY <2>1, StartTyped, AccountsParts
<1>8. ASSUME NEW p \in Processes, DefaultTenant(p)
      PROVE  CountsTyped'
  BY AccountsParts, <1>8 DEF DefaultTenant, Goto, CountsTyped, counts
<1>9. ASSUME NEW p \in Processes, DefaultTenantNew(p)
      PROVE  CountsTyped'
  BY AccountsParts, <1>9 DEF DefaultTenantNew, InsertTenant, Unused, CountsTyped, counts
<1>10. ASSUME NEW p \in Processes, CreateMember(p)
      PROVE  CountsTyped'
  BY AccountsParts, <1>10 DEF CreateMember, Return, CountsTyped, counts
<1>11. ASSUME NEW p \in Processes, NEW e \in Emails, NEW r \in Roles, SetRole(p, e, r)
      PROVE  CountsTyped'
  <2>1. Start(p, e, FALSE)
    BY <1>11 DEF SetRole
  <2> QED
    BY <2>1, StartTyped, AccountsParts
<1>12. ASSUME NEW p \in Processes, NEW e \in Emails, NEW d \in BOOLEAN, SetDisabled(p, e, d)
      PROVE  CountsTyped'
  <2>1. Start(p, e, FALSE)
    BY <1>12 DEF SetDisabled
  <2> QED
    BY <2>1, StartTyped, AccountsParts
<1>13. ASSUME NEW p \in Processes, NEW e \in Emails, ResetPassword(p, e)
      PROVE  CountsTyped'
  <2>1. Start(p, e, FALSE)
    BY <1>13 DEF ResetPassword
  <2> QED
    BY <2>1, StartTyped, AccountsParts
<1>14. ASSUME NEW p \in Processes, NEW e \in Emails, ClearSessions(p, e)
      PROVE  CountsTyped'
  <2>1. Start(p, e, FALSE)
    BY <1>14 DEF ClearSessions
  <2> QED
    BY <2>1, StartTyped, AccountsParts
<1>15. ASSUME NEW p \in Processes, DeleteSessions(p)
      PROVE  CountsTyped'
  BY AccountsParts, <1>15 DEF DeleteSessions, CountsTyped, counts
<1>16. ASSUME NEW p \in Processes, SetMemberRole(p)
      PROVE  CountsTyped'
  BY AccountsParts, <1>16 DEF SetMemberRole, Return, CountsTyped, counts
<1>17. ASSUME NEW p \in Processes, NEW e \in Emails, SeedUser(p, e)
      PROVE  CountsTyped'
  BY AccountsParts, <1>17 DEF SeedUser, InsertUser, Command, CountsTyped, counts
<1>18. ASSUME NEW p \in Processes, SeedTenant(p)
      PROVE  CountsTyped'
  BY AccountsParts, <1>18 DEF SeedTenant, Goto, CountsTyped, counts
<1>19. ASSUME NEW p \in Processes, SeedTenantNew(p)
      PROVE  CountsTyped'
  BY AccountsParts, <1>19 DEF SeedTenantNew, InsertTenant, Unused, CountsTyped, counts
<1>20. ASSUME NEW p \in Processes, SeedMember(p)
      PROVE  CountsTyped'
  BY AccountsParts, <1>20 DEF SeedMember, Return, CountsTyped, counts
<1>21. ASSUME NEW p \in Processes, Kill(p)
      PROVE  CountsTyped'
  <2>1. mixed' \subseteq Emails
    BY <1>21, AccountsParts DEF Kill, CountsTyped, RefersToRows, Changing, Making
  <2>2. crowded' = crowded /\ ops' = ops /\ kills' \in Nat
    BY <1>21, AccountsParts DEF Kill, CountsTyped
  <2> QED
    BY <2>1, <2>2, AccountsParts DEF CountsTyped
<1>22. ASSUME NEW k \in Tokens, DestroySession(k)
      PROVE  CountsTyped'
  BY AccountsParts, <1>22 DEF DestroySession, CountsTyped, counts
<1>23. ASSUME NEW k \in Tokens, NEW a \in Mutations, Admit(k, a)
      PROVE  CountsTyped'
  BY AccountsParts, <1>23 DEF Admit, SessionUser, Permitted, Can, UnderWay, CountsTyped, counts
<1>24. CASE Act
  BY AccountsParts, <1>24 DEF Act, CountsTyped, counts
<1>25. CASE WriteAudit
  BY AccountsParts, <1>25 DEF WriteAudit, CountsTyped, counts
<1>26. CASE UNCHANGED accountVars
  BY AccountsParts, <1>26 DEF accountVars, CountsTyped, counts
<1> QED
  BY <1>1, <1>2, <1>3, <1>4, <1>5, <1>6, <1>7, <1>8, <1>9, <1>10, <1>11, <1>12, <1>13, <1>14,
     <1>15, <1>16, <1>17, <1>18, <1>19, <1>20, <1>21, <1>22, <1>23, <1>24, <1>25, <1>26
     DEF AccountsNext, Bootstrap, Login, CreateLocalUser, ChangeLocalUser, Seed, Processes

(* Every action keeps the types of the tables.                             *)
LEMMA RowsStep ==
  AccountsTypeOK /\ RefersToRows /\ [AccountsNext]_accountVars => RowsTyped'
<1> SUFFICES ASSUME AccountsTypeOK, RefersToRows, [AccountsNext]_accountVars
             PROVE  RowsTyped'
  OBVIOUS
<1>1. ASSUME NEW p \in Processes, NEW e \in Emails, BootstrapCount(p, e)
      PROVE  RowsTyped'
  BY AccountsParts, CallParts, <1>1
     DEF BootstrapCount, Start, NeedsBootstrap, RowsTyped, AccountCallsTyped, userRows, tenantRows,
         NoSession, NoRequest, RequestSteps, Mutations
<1>2. ASSUME NEW p \in Processes, BootstrapUser(p)
      PROVE  RowsTyped'
  <2>1. CASE Exists(call[p].user)
    BY <1>2, <2>1, AccountsParts DEF BootstrapUser, RowsTyped, userRows, tenantRows
  <2>2. CASE ~Exists(call[p].user)
    <3>1. InsertUser(call[p].user, "admin", 1)
      BY <1>2, <2>2 DEF BootstrapUser
    <3>2. UNCHANGED <<tenantRows, session, request>>
      BY <1>2 DEF BootstrapUser
    <3> QED
      BY <3>1, <3>2, AccountsParts, InsertUserTyped DEF RowsTyped, tenantRows, Roles
  <2> QED
    BY <2>1, <2>2
<1>3. ASSUME NEW p \in Processes, BootstrapTenant(p)
      PROVE  RowsTyped'
  BY AccountsParts, CallParts, <1>3
     DEF BootstrapTenant, InsertTenant, Unused, RowsTyped, AccountCallsTyped, userRows, tenantRows,
         NoSession, NoRequest, RequestSteps, Mutations
<1>4. ASSUME NEW p \in Processes, BootstrapMember(p)
      PROVE  RowsTyped'
  <2>1. member' = [member EXCEPT ![call[p].tenant][call[p].user] = "admin"]
    BY <1>4 DEF BootstrapMember
  <2>2. UNCHANGED <<userRows, owner, session, request>>
    BY <1>4 DEF BootstrapMember
  <2>3. "admin" \in Roles
    BY AccountsParts, CallParts DEF AccountCallsTyped, Roles
  <2> QED
    BY <2>1, <2>2, <2>3, AccountsParts, MemberTyped DEF RowsTyped, userRows
<1>5. ASSUME NEW p \in Processes, NEW e \in Emails, SignIn(p, e)
      PROVE  RowsTyped'
  BY AccountsParts, CallParts, <1>5
     DEF SignIn, RowsTyped, AccountCallsTyped, userRows, tenantRows, NoSession, NoRequest, RequestSteps,
         Mutations
<1>6. ASSUME NEW p \in Processes, CreateSession(p)
      PROVE  RowsTyped'
  <2>1. PICK k \in Tokens :
          session' = [session EXCEPT ![k] =
            [user |-> call[p].user, secret |-> call[p].secret, late |-> call[p].late]]
    BY <1>6 DEF CreateSession
  <2>2. UNCHANGED <<userRows, tenantRows, request>>
    BY <1>6 DEF CreateSession
  <2>3. call[p].user \in Emails \cup {Nobody} /\ call[p].secret \in Nat /\ call[p].late \in BOOLEAN
    BY AccountsParts, CallParts DEF AccountCallsTyped
  <2> QED
    BY <2>1, <2>2, <2>3, AccountsParts DEF RowsTyped, userRows, tenantRows
<1>7. ASSUME NEW p \in Processes, NEW e \in Emails, NEW r \in Roles, CreateUser(p, e, r)
      PROVE  RowsTyped'
  BY AccountsParts, CallParts, <1>7
     DEF CreateUser, Start, InsertUser, RowsTyped, AccountCallsTyped, userRows, tenantRows, NoSession,
         NoRequest, RequestSteps, Mutations
<1>8. ASSUME NEW p \in Processes, DefaultTenant(p)
      PROVE  RowsTyped'
  BY AccountsParts, CallParts, <1>8
     DEF DefaultTenant, Goto, RowsTyped, AccountCallsTyped, userRows, tenantRows, NoSession, NoRequest,
         RequestSteps, Mutations
<1>9. ASSUME NEW p \in Processes, DefaultTenantNew(p)
      PROVE  RowsTyped'
  BY AccountsParts, CallParts, <1>9
     DEF DefaultTenantNew, InsertTenant, Unused, RowsTyped, AccountCallsTyped, userRows, tenantRows,
         NoSession, NoRequest, RequestSteps, Mutations
<1>10. ASSUME NEW p \in Processes, CreateMember(p)
      PROVE  RowsTyped'
  <2>1. member' = [member EXCEPT ![call[p].tenant][call[p].user] = call[p].role]
    BY <1>10 DEF CreateMember
  <2>2. UNCHANGED <<userRows, owner, session, request>>
    BY <1>10 DEF CreateMember
  <2>3. call[p].role \in Roles
    BY AccountsParts, CallParts DEF AccountCallsTyped, Roles
  <2> QED
    BY <2>1, <2>2, <2>3, AccountsParts, MemberTyped DEF RowsTyped, userRows
<1>11. ASSUME NEW p \in Processes, NEW e \in Emails, NEW r \in Roles, SetRole(p, e, r)
      PROVE  RowsTyped'
  BY AccountsParts, CallParts, <1>11
     DEF SetRole, Start, Command, RowsTyped, AccountCallsTyped, userRows, tenantRows, NoSession,
         NoRequest, RequestSteps, Mutations
<1>12. ASSUME NEW p \in Processes, NEW e \in Emails, NEW d \in BOOLEAN, SetDisabled(p, e, d)
      PROVE  RowsTyped'
  BY AccountsParts, CallParts, <1>12
     DEF SetDisabled, Start, Command, RowsTyped, AccountCallsTyped, userRows, tenantRows, NoSession,
         NoRequest, RequestSteps, Mutations
<1>13. ASSUME NEW p \in Processes, NEW e \in Emails, ResetPassword(p, e)
      PROVE  RowsTyped'
  <2>1. secret' \in [Emails -> Nat] /\ disabled' \in [Emails -> BOOLEAN]
    BY <1>13, AccountsParts DEF ResetPassword, RowsTyped
  <2>2. UNCHANGED <<role, tenantRows, session, request>>
    BY <1>13 DEF ResetPassword
  <2> QED
    BY <2>1, <2>2, AccountsParts DEF RowsTyped, tenantRows
<1>14. ASSUME NEW p \in Processes, NEW e \in Emails, ClearSessions(p, e)
      PROVE  RowsTyped'
  BY AccountsParts, CallParts, <1>14
     DEF ClearSessions, Start, Command, RowsTyped, AccountCallsTyped, userRows, tenantRows, NoSession,
         NoRequest, RequestSteps, Mutations
<1>15. ASSUME NEW p \in Processes, DeleteSessions(p)
      PROVE  RowsTyped'
  BY AccountsParts, CallParts, <1>15
     DEF DeleteSessions, RowsTyped, AccountCallsTyped, userRows, tenantRows, NoSession, NoRequest,
         RequestSteps, Mutations
<1>16. ASSUME NEW p \in Processes, SetMemberRole(p)
      PROVE  RowsTyped'
  BY AccountsParts, CallParts, <1>16
     DEF SetMemberRole, Return, RowsTyped, AccountCallsTyped, userRows, tenantRows, NoSession, NoRequest,
         RequestSteps, Mutations
<1>17. ASSUME NEW p \in Processes, NEW e \in Emails, SeedUser(p, e)
      PROVE  RowsTyped'
  <2>1. UNCHANGED <<tenantRows, session, request>> /\ (UNCHANGED userRows \/ InsertUser(e, "admin", 0))
    BY <1>17 DEF SeedUser
  <2>2. InsertUser(e, "admin", 0) => RowsTyped'
    BY <2>1, AccountsParts, InsertUserTyped DEF RowsTyped, tenantRows, Roles
  <2>3. UNCHANGED userRows => RowsTyped'
    BY <2>1, AccountsParts DEF RowsTyped, userRows, tenantRows
  <2> QED
    BY <2>1, <2>2, <2>3
<1>18. ASSUME NEW p \in Processes, SeedTenant(p)
      PROVE  RowsTyped'
  BY AccountsParts, CallParts, <1>18
     DEF SeedTenant, Goto, RowsTyped, AccountCallsTyped, userRows, tenantRows, NoSession, NoRequest,
         RequestSteps, Mutations
<1>19. ASSUME NEW p \in Processes, SeedTenantNew(p)
      PROVE  RowsTyped'
  BY AccountsParts, CallParts, <1>19
     DEF SeedTenantNew, InsertTenant, Unused, RowsTyped, AccountCallsTyped, userRows, tenantRows,
         NoSession, NoRequest, RequestSteps, Mutations
<1>20. ASSUME NEW p \in Processes, SeedMember(p)
      PROVE  RowsTyped'
  <2> DEFINE t == call[p].tenant
             e == call[p].user
             r == IF member[t][e] = "none" THEN "admin" ELSE member[t][e]
  <2>1. member' = [member EXCEPT ![t][e] = r] /\ UNCHANGED <<userRows, owner, session, request>>
    BY <1>20 DEF SeedMember
  <2>2. t \in Tenants /\ e \in Emails
    BY <1>20 DEF SeedMember, RefersToRows
  <2>3. r \in Roles \cup {"none"}
    BY <2>2, AccountsParts DEF RowsTyped, Roles
  <2> HIDE DEF r
  <2> QED
    BY <2>1, <2>3, AccountsParts, MemberTyped DEF RowsTyped, userRows
<1>21. ASSUME NEW p \in Processes, Kill(p)
      PROVE  RowsTyped'
  BY AccountsParts, CallParts, <1>21
     DEF Kill, Return, UnderWay, RowsTyped, AccountCallsTyped, userRows, tenantRows, NoSession, NoRequest,
         RequestSteps, Mutations
<1>22. ASSUME NEW k \in Tokens, DestroySession(k)
      PROVE  RowsTyped'
  BY AccountsParts, CallParts, <1>22
     DEF DestroySession, RowsTyped, AccountCallsTyped, userRows, tenantRows, NoSession, NoRequest,
         RequestSteps, Mutations
<1>23. ASSUME NEW k \in Tokens, NEW a \in Mutations, Admit(k, a)
      PROVE  RowsTyped'
  BY AccountsParts, CallParts, <1>23
     DEF Admit, SessionUser, Permitted, Can, UnderWay, RowsTyped, AccountCallsTyped, userRows, tenantRows,
         NoSession, NoRequest, RequestSteps, Mutations
<1>24. CASE Act
  <2>1. request' = [request EXCEPT !.step = "audit"] \/ request' = NoRequest
    BY <1>24 DEF Act
  <2>2. request' \in [step : RequestSteps, user : Emails \cup {Nobody}, action : Mutations]
    BY <2>1, AccountsParts DEF RowsTyped, NoRequest, RequestSteps, Mutations
  <2> QED
    BY <1>24, <2>2, AccountsParts DEF Act, RowsTyped, userRows, tenantRows
<1>25. CASE WriteAudit
  BY AccountsParts, CallParts, <1>25
     DEF WriteAudit, RowsTyped, AccountCallsTyped, userRows, tenantRows, NoSession, NoRequest,
         RequestSteps, Mutations
<1>26. CASE UNCHANGED accountVars
  BY AccountsParts, CallParts, <1>26
     DEF accountVars, RowsTyped, AccountCallsTyped, userRows, tenantRows, NoSession, NoRequest,
         RequestSteps, Mutations
<1> QED
  BY <1>1, <1>2, <1>3, <1>4, <1>5, <1>6, <1>7, <1>8, <1>9, <1>10, <1>11, <1>12, <1>13, <1>14,
     <1>15, <1>16, <1>17, <1>18, <1>19, <1>20, <1>21, <1>22, <1>23, <1>24, <1>25, <1>26
     DEF AccountsNext, Bootstrap, Login, CreateLocalUser, ChangeLocalUser, Seed, Processes

(* Every action keeps the types of the calls.                              *)
LEMMA CallStep ==
  AccountsTypeOK /\ [AccountsNext]_accountVars => AccountCallsTyped'
<1> SUFFICES ASSUME AccountsTypeOK, [AccountsNext]_accountVars
             PROVE  AccountCallsTyped'
  OBVIOUS
<1>1. ASSUME NEW p \in Processes, NEW e \in Emails, BootstrapCount(p, e)
      PROVE  AccountCallsTyped'
  BY AccountsParts, CallParts, NewCalls, <1>1
     DEF BootstrapCount, Start, NeedsBootstrap, AccountCallsTyped, RowsTyped, AccountSteps, Roles
<1>2. ASSUME NEW p \in Processes, BootstrapUser(p)
      PROVE  AccountCallsTyped'
  <2>1. CASE call' = [call EXCEPT ![p] = Resting]
    BY <2>1, AccountsParts, NewCalls DEF AccountCallsTyped
  <2>2. CASE call' = [call EXCEPT ![p].step = "firsttenant"]
    BY <2>2, AccountsParts DEF AccountCallsTyped, AccountCalls, AccountSteps
  <2> QED
    BY <1>2, <2>1, <2>2 DEF BootstrapUser, Return, Goto
<1>3. ASSUME NEW p \in Processes, BootstrapTenant(p)
      PROVE  AccountCallsTyped'
  <2>1. \E t \in Tenants : call' = [call EXCEPT ![p].tenant = t, ![p].step = "firstmember"]
    BY <1>3 DEF BootstrapTenant, InsertTenant, Unused
  <2> QED
    BY <2>1, AccountsParts, TenantTaken DEF AccountSteps
<1>4. ASSUME NEW p \in Processes, BootstrapMember(p)
      PROVE  AccountCallsTyped'
  BY AccountsParts, CallParts, NewCalls, <1>4
     DEF BootstrapMember, Goto, AccountCallsTyped, RowsTyped, AccountSteps, Roles
<1>5. ASSUME NEW p \in Processes, NEW e \in Emails, SignIn(p, e)
      PROVE  AccountCallsTyped'
  BY AccountsParts, CallParts, NewCalls, <1>5 DEF SignIn, AccountCallsTyped, RowsTyped, AccountSteps, Roles
<1>6. ASSUME NEW p \in Processes, CreateSession(p)
      PROVE  AccountCallsTyped'
  BY AccountsParts, CallParts, NewCalls, <1>6
     DEF CreateSession, Return, AccountCallsTyped, RowsTyped, AccountSteps, Roles
<1>7. ASSUME NEW p \in Processes, NEW e \in Emails, NEW r \in Roles, CreateUser(p, e, r)
      PROVE  AccountCallsTyped'
  BY AccountsParts, CallParts, NewCalls, <1>7
     DEF CreateUser, Start, InsertUser, AccountCallsTyped, RowsTyped, AccountSteps, Roles
<1>8. ASSUME NEW p \in Processes, DefaultTenant(p)
      PROVE  AccountCallsTyped'
  <2>1. CASE call' = [call EXCEPT ![p].step = "newtenant"]
    BY <2>1, AccountsParts DEF AccountCallsTyped, AccountCalls, AccountSteps
  <2>2. CASE \E t \in Tenants : call' = [call EXCEPT ![p].tenant = t, ![p].step = "member"]
    BY <2>2, AccountsParts, TenantTaken DEF AccountSteps
  <2> QED
    BY <1>8, <2>1, <2>2 DEF DefaultTenant, Goto
<1>9. ASSUME NEW p \in Processes, DefaultTenantNew(p)
      PROVE  AccountCallsTyped'
  <2>1. \E t \in Tenants : call' = [call EXCEPT ![p].tenant = t, ![p].step = "member"]
    BY <1>9 DEF DefaultTenantNew, InsertTenant, Unused
  <2> QED
    BY <2>1, AccountsParts, TenantTaken DEF AccountSteps
<1>10. ASSUME NEW p \in Processes, CreateMember(p)
      PROVE  AccountCallsTyped'
  BY AccountsParts, CallParts, NewCalls, <1>10
     DEF CreateMember, Return, AccountCallsTyped, RowsTyped, AccountSteps, Roles
<1>11. ASSUME NEW p \in Processes, NEW e \in Emails, NEW r \in Roles, SetRole(p, e, r)
      PROVE  AccountCallsTyped'
  BY AccountsParts, CallParts, NewCalls, <1>11
     DEF SetRole, Start, Command, AccountCallsTyped, RowsTyped, AccountSteps, Roles
<1>12. ASSUME NEW p \in Processes, NEW e \in Emails, NEW d \in BOOLEAN, SetDisabled(p, e, d)
      PROVE  AccountCallsTyped'
  <2>1. \/ call' = [call EXCEPT ![p] =
             [Resting EXCEPT !.step = "delete", !.user = e, !.role = "readonly"]]
        \/ UNCHANGED call
    BY <1>12 DEF SetDisabled, Command
  <2> QED
    BY <2>1, AccountsParts, NewCalls DEF AccountCallsTyped, AccountSteps, Roles
<1>13. ASSUME NEW p \in Processes, NEW e \in Emails, ResetPassword(p, e)
      PROVE  AccountCallsTyped'
  BY AccountsParts, CallParts, NewCalls, <1>13
     DEF ResetPassword, Start, Command, AccountCallsTyped, RowsTyped, AccountSteps, Roles
<1>14. ASSUME NEW p \in Processes, NEW e \in Emails, ClearSessions(p, e)
      PROVE  AccountCallsTyped'
  BY AccountsParts, CallParts, NewCalls, <1>14
     DEF ClearSessions, Start, Command, AccountCallsTyped, RowsTyped, AccountSteps, Roles
<1>15. ASSUME NEW p \in Processes, DeleteSessions(p)
      PROVE  AccountCallsTyped'
  BY AccountsParts, CallParts, NewCalls, <1>15
     DEF DeleteSessions, AccountCallsTyped, RowsTyped, AccountSteps, Roles
<1>16. ASSUME NEW p \in Processes, SetMemberRole(p)
      PROVE  AccountCallsTyped'
  BY AccountsParts, CallParts, NewCalls, <1>16
     DEF SetMemberRole, Return, AccountCallsTyped, RowsTyped, AccountSteps, Roles
<1>17. ASSUME NEW p \in Processes, NEW e \in Emails, SeedUser(p, e)
      PROVE  AccountCallsTyped'
  BY AccountsParts, CallParts, NewCalls, <1>17
     DEF SeedUser, InsertUser, Command, AccountCallsTyped, RowsTyped, AccountSteps, Roles
<1>18. ASSUME NEW p \in Processes, SeedTenant(p)
      PROVE  AccountCallsTyped'
  <2>1. CASE call' = [call EXCEPT ![p].step = "seednew"]
    BY <2>1, AccountsParts DEF AccountCallsTyped, AccountCalls, AccountSteps
  <2>2. CASE \E t \in Tenants : call' = [call EXCEPT ![p].tenant = t, ![p].step = "seedmember"]
    BY <2>2, AccountsParts, TenantTaken DEF AccountSteps
  <2> QED
    BY <1>18, <2>1, <2>2 DEF SeedTenant, Goto
<1>19. ASSUME NEW p \in Processes, SeedTenantNew(p)
      PROVE  AccountCallsTyped'
  <2>1. \E t \in Tenants : call' = [call EXCEPT ![p].tenant = t, ![p].step = "seedmember"]
    BY <1>19 DEF SeedTenantNew, InsertTenant, Unused
  <2> QED
    BY <2>1, AccountsParts, TenantTaken DEF AccountSteps
<1>20. ASSUME NEW p \in Processes, SeedMember(p)
      PROVE  AccountCallsTyped'
  BY AccountsParts, CallParts, NewCalls, <1>20
     DEF SeedMember, Return, AccountCallsTyped, RowsTyped, AccountSteps, Roles
<1>21. ASSUME NEW p \in Processes, Kill(p)
      PROVE  AccountCallsTyped'
  BY AccountsParts, CallParts, NewCalls, <1>21
     DEF Kill, Return, UnderWay, AccountCallsTyped, RowsTyped, AccountSteps, Roles
<1>22. ASSUME NEW k \in Tokens, DestroySession(k)
      PROVE  AccountCallsTyped'
  BY AccountsParts, CallParts, NewCalls, <1>22
     DEF DestroySession, AccountCallsTyped, RowsTyped, AccountSteps, Roles
<1>23. ASSUME NEW k \in Tokens, NEW a \in Mutations, Admit(k, a)
      PROVE  AccountCallsTyped'
  BY AccountsParts, CallParts, NewCalls, <1>23
     DEF Admit, SessionUser, Permitted, Can, UnderWay, AccountCallsTyped, RowsTyped, AccountSteps, Roles
<1>24. CASE Act
  BY AccountsParts, CallParts, NewCalls, <1>24 DEF Act, AccountCallsTyped, RowsTyped, AccountSteps, Roles
<1>25. CASE WriteAudit
  BY AccountsParts, CallParts, NewCalls, <1>25
     DEF WriteAudit, AccountCallsTyped, RowsTyped, AccountSteps, Roles
<1>26. CASE UNCHANGED accountVars
  BY AccountsParts, CallParts, NewCalls, <1>26
     DEF accountVars, AccountCallsTyped, RowsTyped, AccountSteps, Roles
<1> QED
  BY <1>1, <1>2, <1>3, <1>4, <1>5, <1>6, <1>7, <1>8, <1>9, <1>10, <1>11, <1>12, <1>13, <1>14,
     <1>15, <1>16, <1>17, <1>18, <1>19, <1>20, <1>21, <1>22, <1>23, <1>24, <1>25, <1>26
     DEF AccountsNext, Bootstrap, Login, CreateLocalUser, ChangeLocalUser, Seed, Processes

-----------------------------------------------------------------------------
(* What each action does to the calls and the tables, element by element.  *)

(* The other processes stay where they are.                                *)
Others(p) == \A q \in Processes : q # p => call'[q] = call[q]

(* p is at step s of a call on u; what else it holds is kept or new.       *)
Moves(p, s, u, r, n) ==
  /\ call'[p].step = s /\ call'[p].user = u /\ call'[p].role = r
  /\ call'[p].secret = n
  /\ Others(p)
Advances(p, s) ==
  Moves(p, s, call[p].user, call[p].role, call[p].secret) /\ call'[p].late = call[p].late
(* The call is over.                                                       *)
Rests(p) == call'[p].step = "idle" /\ call'[p].user = Nobody /\ Others(p)

(* A command on e begins: nobody is at work on e unless e is mixed now.    *)
Begins(p, e) ==
  /\ call[p].step = "idle"
  /\ mixed \subseteq mixed'
  /\ e \notin mixed' => \A q \in Processes : call[q].user = e => call[q].step \notin Changing

(* The row of e is new, the others stay.                                   *)
Inserts(e, r, n) ==
  \A x \in Emails : /\ role'[x] = (IF x = e THEN r ELSE role[x])
                    /\ secret'[x] = (IF x = e THEN n ELSE secret[x])
                    /\ IF x = e THEN ~disabled'[x] ELSE disabled'[x] = disabled[x]
(* e has role r in t, the other memberships stay.                          *)
Joins(t, e, r) ==
  \A u \in Tenants, x \in Emails :
    member'[u][x] = IF u = t /\ x = e THEN r ELSE member[u][x]

(* What the helpers of Accounts do, in these terms.                        *)
LEMMA GotoMoves ==
  ASSUME AccountsTypeOK, NEW p \in Processes, NEW s, Goto(p, s)
  PROVE  Advances(p, s) /\ call'[p].tenant = call[p].tenant
BY DEF AccountsTypeOK, Goto, Advances, Moves, Others

LEMMA ReturnRests ==
  ASSUME AccountsTypeOK, NEW p \in Processes, Return(p)
  PROVE  Rests(p)
BY DEF AccountsTypeOK, Return, Rests, Others, Resting

LEMMA TenantMoves ==
  ASSUME AccountsTypeOK, NEW p \in Processes, NEW s, NEW t,
         call' = [call EXCEPT ![p].tenant = t, ![p].step = s]
  PROVE  Advances(p, s) /\ call'[p].tenant = t
<1> DEFINE c == [call[p] EXCEPT !.tenant = t, !.step = s]
<1>1. call' = [q \in Processes |-> IF q = p THEN c ELSE call[q]]
  BY DEF AccountsTypeOK
<1>2. call[p] \in AccountCalls
  BY DEF AccountsTypeOK, AccountCalls
<1>3. /\ c.step = s /\ c.tenant = t /\ c.user = call[p].user /\ c.role = call[p].role
      /\ c.secret = call[p].secret /\ c.late = call[p].late
  BY <1>2 DEF AccountCalls
<1> HIDE DEF c
<1> QED
  BY <1>1, <1>3 DEF Advances, Moves, Others

LEMMA InsertTenantMoves ==
  ASSUME AccountsTypeOK, NEW p \in Processes, NEW s, InsertTenant(p, s)
  PROVE  /\ Advances(p, s)
         /\ \E t \in Tenants : /\ call'[p].tenant = t /\ owner[t] = Nobody
                               /\ \A u \in Tenants : owner'[u] = IF u = t THEN call[p].user ELSE owner[u]
<1>1. PICK t \in Unused : /\ owner' = [owner EXCEPT ![t] = call[p].user]
                          /\ call' = [call EXCEPT ![p].tenant = t, ![p].step = s]
  BY DEF InsertTenant
<1>2. t \in Tenants /\ owner[t] = Nobody
  BY DEF Unused
<1>3. \A u \in Tenants : owner'[u] = IF u = t THEN call[p].user ELSE owner[u]
  BY <1>1, <1>2 DEF AccountsTypeOK
<1> QED
  BY <1>1, <1>2, <1>3, TenantMoves

LEMMA StartBegins ==
  ASSUME AccountsTypeOK, NEW p \in Processes, NEW e \in Emails, NEW making, Start(p, e, making)
  PROVE  Begins(p, e)
BY DEF Start, Begins, Busy, Resting

LEMMA CommandMoves ==
  ASSUME AccountsTypeOK, NEW p \in Processes, NEW e, NEW s, NEW r, Command(p, e, s, r)
  PROVE  Moves(p, s, e, r, 0)
BY DEF AccountsTypeOK, Command, Moves, Others, Resting

LEMMA InsertUserInserts ==
  ASSUME AccountsTypeOK, NEW e, NEW r, NEW n, InsertUser(e, r, n)
  PROVE  Inserts(e, r, n)
BY DEF AccountsTypeOK, InsertUser, Inserts

LEMMA MemberJoins ==
  ASSUME AccountsTypeOK, NEW t, NEW e, NEW r, member' = [member EXCEPT ![t][e] = r]
  PROVE  Joins(t, e, r)
BY DEF AccountsTypeOK, Joins

(* What each action does, in these terms.                                  *)
LEMMA BootstrapCountEffect ==
  ASSUME AccountsTypeOK, NEW p \in Processes, NEW e \in Emails, BootstrapCount(p, e)
  PROVE  /\ Begins(p, e)
         /\ Moves(p, "firstuser", e, "admin", 1)
         /\ NeedsBootstrap
         /\ UNCHANGED <<userRows, tenantRows, session, request>>
BY StartBegins DEF BootstrapCount, AccountsTypeOK, Moves, Others, Resting

LEMMA BootstrapUserEffect ==
  ASSUME AccountsTypeOK, NEW p \in Processes, BootstrapUser(p)
  PROVE  /\ call[p].step = "firstuser"
         /\ UNCHANGED <<tenantRows, session, request, counts, mixed>>
         /\ \/ Exists(call[p].user) /\ Rests(p) /\ UNCHANGED userRows
            \/ ~Exists(call[p].user) /\ Inserts(call[p].user, "admin", 1) /\ Advances(p, "firsttenant")
BY GotoMoves, ReturnRests, InsertUserInserts DEF BootstrapUser

LEMMA BootstrapTenantEffect ==
  ASSUME AccountsTypeOK, NEW p \in Processes, BootstrapTenant(p)
  PROVE  /\ call[p].step = "firsttenant"
         /\ Advances(p, "firstmember")
         /\ UNCHANGED <<userRows, member, session, request, counts, mixed>>
         /\ \E t \in Tenants : /\ call'[p].tenant = t /\ owner[t] = Nobody
                               /\ \A u \in Tenants : owner'[u] = IF u = t THEN call[p].user ELSE owner[u]
BY InsertTenantMoves DEF BootstrapTenant

LEMMA BootstrapMemberEffect ==
  ASSUME AccountsTypeOK, NEW p \in Processes, BootstrapMember(p)
  PROVE  /\ call[p].step = "firstmember"
         /\ Advances(p, "session")
         /\ Joins(call[p].tenant, call[p].user, "admin")
         /\ UNCHANGED <<userRows, owner, session, request, counts, mixed>>
         /\ call'[p].tenant = call[p].tenant
BY GotoMoves, MemberJoins DEF BootstrapMember

LEMMA SignInEffect ==
  ASSUME AccountsTypeOK, NEW p \in Processes, NEW e \in Emails, SignIn(p, e)
  PROVE  /\ call[p].step = "idle" /\ Exists(e) /\ ~disabled[e]
         /\ Moves(p, "session", e, "readonly", secret[e])
         /\ UNCHANGED <<userRows, tenantRows, session, request, counts, mixed>>
BY DEF SignIn, AccountsTypeOK, Moves, Others, Resting

LEMMA CreateSessionEffect ==
  ASSUME AccountsTypeOK, NEW p \in Processes, CreateSession(p)
  PROVE  /\ call[p].step = "session"
         /\ Rests(p)
         /\ \E j \in Tokens :
              /\ session'[j].user = call[p].user /\ session'[j].secret = call[p].secret
              /\ session'[j].late = call[p].late
              /\ \A k \in Tokens : k # j => session'[k] = session[k]
         /\ UNCHANGED <<userRows, tenantRows, request, counts, mixed>>
BY ReturnRests DEF CreateSession, AccountsTypeOK

LEMMA CreateUserEffect ==
  ASSUME AccountsTypeOK, NEW p \in Processes, NEW e \in Emails, NEW r \in Roles, CreateUser(p, e, r)
  PROVE  /\ Begins(p, e)
         /\ ~Exists(e)
         /\ Inserts(e, r, 1)
         /\ Moves(p, "tenant", e, r, 0)
         /\ UNCHANGED <<tenantRows, session, request>>
BY StartBegins, InsertUserInserts DEF CreateUser, AccountsTypeOK, Moves, Others, Resting

LEMMA DefaultTenantNewEffect ==
  ASSUME AccountsTypeOK, NEW p \in Processes, DefaultTenantNew(p)
  PROVE  /\ call[p].step = "newtenant"
         /\ Advances(p, "member")
         /\ UNCHANGED <<userRows, member, session, request, counts, mixed>>
         /\ \E t \in Tenants : /\ call'[p].tenant = t /\ owner[t] = Nobody
                               /\ \A u \in Tenants : owner'[u] = IF u = t THEN call[p].user ELSE owner[u]
BY InsertTenantMoves DEF DefaultTenantNew

LEMMA DefaultTenantEffect ==
  ASSUME AccountsTypeOK, NEW p \in Processes, DefaultTenant(p)
  PROVE  /\ call[p].step = "tenant"
         /\ \/ Advances(p, "newtenant") /\ NoTenants
            \/ Advances(p, "member") /\ call'[p].tenant \in Tenants
         /\ UNCHANGED <<userRows, tenantRows, session, request, counts, mixed>>
<1>1. CASE NoTenants /\ Goto(p, "newtenant")
  BY <1>1, GotoMoves DEF DefaultTenant
<1>2. CASE \E t \in Tenants : call' = [call EXCEPT ![p].tenant = t, ![p].step = "member"]
  BY <1>2, TenantMoves DEF DefaultTenant
<1> QED
  BY <1>1, <1>2 DEF DefaultTenant, NoTenants

LEMMA CreateMemberEffect ==
  ASSUME AccountsTypeOK, NEW p \in Processes, CreateMember(p)
  PROVE  /\ call[p].step = "member"
         /\ Rests(p)
         /\ Joins(call[p].tenant, call[p].user, call[p].role)
         /\ UNCHANGED <<userRows, owner, session, request, counts, mixed>>
BY ReturnRests, MemberJoins DEF CreateMember

LEMMA SetRoleEffect ==
  ASSUME AccountsTypeOK, NEW p \in Processes, NEW e \in Emails, NEW r \in Roles, SetRole(p, e, r)
  PROVE  /\ Begins(p, e)
         /\ Exists(e)
         /\ \A x \in Emails : role'[x] = (IF x = e THEN r ELSE role[x])
         /\ Moves(p, "role", e, r, 0)
         /\ UNCHANGED <<secret, disabled, tenantRows, session, request>>
BY StartBegins, CommandMoves DEF SetRole, AccountsTypeOK

LEMMA SetDisabledEffect ==
  ASSUME AccountsTypeOK, NEW p \in Processes, NEW e \in Emails, NEW d \in BOOLEAN, SetDisabled(p, e, d)
  PROVE  /\ Begins(p, e)
         /\ Exists(e)
         /\ \A x \in Emails : disabled'[x] = (IF x = e THEN d ELSE disabled[x])
         /\ IF d THEN Moves(p, "delete", e, "readonly", 0) ELSE UNCHANGED call
         /\ UNCHANGED <<role, secret, tenantRows, session, request>>
BY StartBegins, CommandMoves DEF SetDisabled, AccountsTypeOK

LEMMA ResetPasswordEffect ==
  ASSUME AccountsTypeOK, NEW p \in Processes, NEW e \in Emails, ResetPassword(p, e)
  PROVE  /\ Begins(p, e)
         /\ Exists(e)
         /\ \A x \in Emails : x # e => secret'[x] = secret[x] /\ disabled'[x] = disabled[x]
         /\ Moves(p, "delete", e, "readonly", 0)
         /\ UNCHANGED <<role, tenantRows, session, request>>
BY StartBegins, CommandMoves DEF ResetPassword, AccountsTypeOK

LEMMA ClearSessionsEffect ==
  ASSUME AccountsTypeOK, NEW p \in Processes, NEW e \in Emails, ClearSessions(p, e)
  PROVE  /\ Begins(p, e)
         /\ Exists(e)
         /\ Moves(p, "delete", e, "readonly", 0)
         /\ UNCHANGED <<userRows, tenantRows, session, request>>
BY StartBegins, CommandMoves DEF ClearSessions

LEMMA DeleteSessionsEffect ==
  ASSUME AccountsTypeOK, NEW p \in Processes, DeleteSessions(p)
  PROVE  /\ call[p].step = "delete"
         /\ call'[p].step = "idle" /\ call'[p].user = Nobody
         /\ \A q \in Processes : q # p =>
              /\ call'[q].step = call[q].step /\ call'[q].user = call[q].user
              /\ call'[q].role = call[q].role
              /\ call'[q].tenant = call[q].tenant /\ call'[q].secret = call[q].secret
              /\ IF call[q].user = call[p].user THEN call'[q].late ELSE call'[q].late = call[q].late
         /\ \A k \in Tokens : session'[k] =
              (IF session[k].user = call[p].user THEN NoSession ELSE session[k])
         /\ UNCHANGED <<userRows, tenantRows, request, counts, mixed>>
BY DEF DeleteSessions, AccountsTypeOK, Resting

LEMMA SetMemberRoleEffect ==
  ASSUME AccountsTypeOK, NEW p \in Processes, SetMemberRole(p)
  PROVE  /\ call[p].step = "role"
         /\ Rests(p)
         /\ \A t \in Tenants, x \in Emails : member'[t][x] =
              IF x = call[p].user /\ member[t][x] # "none" THEN call[p].role ELSE member[t][x]
         /\ UNCHANGED <<userRows, owner, session, request, counts, mixed>>
BY ReturnRests DEF SetMemberRole, AccountsTypeOK

LEMMA SeedUserEffect ==
  ASSUME AccountsTypeOK, NEW p \in Processes, NEW e \in Emails, SeedUser(p, e)
  PROVE  /\ call[p].step = "idle" /\ mixed \subseteq mixed' /\ crowded'
         /\ e \notin mixed' => /\ role[e] # "readonly"
                            /\ \A q \in Processes : call[q].user = e => call[q].step \notin Changing
         /\ IF Exists(e) THEN UNCHANGED userRows ELSE Inserts(e, "admin", 0)
         /\ Moves(p, "seedtenant", e, "admin", 0)
         /\ UNCHANGED <<tenantRows, session, request>>
<1>1. e \notin mixed' => /\ role[e] # "readonly"
                        /\ \A q \in Processes : call[q].user = e => call[q].step \notin Changing
  BY DEF SeedUser, Busy
<1>2. Moves(p, "seedtenant", e, "admin", 0)
  BY CommandMoves DEF SeedUser
<1>3. IF Exists(e) THEN UNCHANGED userRows ELSE Inserts(e, "admin", 0)
  BY InsertUserInserts DEF SeedUser
<1>4. call[p].step = "idle" /\ mixed \subseteq mixed' /\ crowded'
  BY DEF SeedUser, Resting
<1> QED
  BY <1>1, <1>2, <1>3, <1>4 DEF SeedUser

LEMMA SeedTenantEffect ==
  ASSUME AccountsTypeOK, NEW p \in Processes, SeedTenant(p)
  PROVE  /\ call[p].step = "seedtenant"
         /\ \/ Advances(p, "seednew")
            \/ Advances(p, "seedmember") /\ call'[p].tenant \in Tenants
         /\ UNCHANGED <<userRows, tenantRows, session, request, counts, mixed>>
BY GotoMoves, TenantMoves DEF SeedTenant

LEMMA SeedTenantNewEffect ==
  ASSUME AccountsTypeOK, NEW p \in Processes, SeedTenantNew(p)
  PROVE  /\ call[p].step = "seednew"
         /\ Advances(p, "seedmember")
         /\ UNCHANGED <<userRows, member, session, request, counts, mixed>>
         /\ \E t \in Tenants : /\ call'[p].tenant = t /\ owner[t] = Nobody
                               /\ \A u \in Tenants : owner'[u] = IF u = t THEN call[p].user ELSE owner[u]
BY InsertTenantMoves DEF SeedTenantNew

LEMMA SeedMemberEffect ==
  ASSUME AccountsTypeOK, NEW p \in Processes, SeedMember(p)
  PROVE  /\ call[p].step = "seedmember"
         /\ Rests(p)
         /\ LET t == call[p].tenant  e == call[p].user IN
            Joins(t, e, IF member[t][e] = "none" THEN "admin" ELSE member[t][e])
         /\ UNCHANGED <<userRows, owner, session, request, counts, mixed>>
BY ReturnRests, MemberJoins DEF SeedMember

LEMMA KillEffect ==
  ASSUME AccountsTypeOK, NEW p \in Processes, Kill(p)
  PROVE  /\ Rests(p)
         /\ mixed \subseteq mixed'
         /\ call[p].step \in Changing /\ call[p].step # "firstuser" => call[p].user \in mixed'
         /\ UNCHANGED <<userRows, tenantRows, session, crowded>>
         /\ request' \in {request, NoRequest}
BY ReturnRests DEF Kill

(* AccountsTypeOK needs RefersToRows: a kill marks the account of the      *)
(* call.                                                                   *)
LEMMA TypeStep ==
  AccountsTypeOK /\ RefersToRows /\ [AccountsNext]_accountVars => AccountsTypeOK'
<1> SUFFICES ASSUME AccountsTypeOK, RefersToRows, [AccountsNext]_accountVars PROVE AccountsTypeOK'
  OBVIOUS
<1>1. RowsTyped' /\ CountsTyped' /\ AccountCallsTyped'
  BY CountsStep, RowsStep, CallStep
<1> QED
  BY <1>1 DEF AccountsTypeOK, RowsTyped, CountsTyped, AccountCallsTyped, AccountCalls

(* What the other parts of the invariant take for granted.                 *)
Inv == AccountsTypeOK /\ RefersToRows

(* No action refers to a row that is not there: rows of users are never    *)
(* deleted and each call looks its user up or makes it.                    *)
LEMMA RefersStep ==
  Inv /\ [AccountsNext]_accountVars => RefersToRows'
<1> SUFFICES ASSUME Inv, [AccountsNext]_accountVars
             PROVE  RefersToRows'
  OBVIOUS
<1> USE AccountsAssumption DEF Inv, Advances, Moves, Others, Rests, Changing, Making, Begins,
        Inserts, RefersToRows, Exists, NoSession, NoRequest, Roles, userRows, tenantRows, counts
<1>a. /\ \A t \in Tenants : owner[t] \in Emails \cup {Nobody}
      /\ \A k \in Tokens : session[k].user \in Emails \cup {Nobody}
  BY DEF AccountsTypeOK
<1>1. ASSUME NEW p \in Processes, NEW e \in Emails, BootstrapCount(p, e)
      PROVE  RefersToRows'
  BY <1>1, BootstrapCountEffect
<1>2. ASSUME NEW p \in Processes, BootstrapUser(p)
      PROVE  RefersToRows'
  BY <1>2, <1>a, BootstrapUserEffect
<1>3. ASSUME NEW p \in Processes, BootstrapTenant(p)
      PROVE  RefersToRows'
  BY <1>3, BootstrapTenantEffect
<1>4. ASSUME NEW p \in Processes, BootstrapMember(p)
      PROVE  RefersToRows'
  BY <1>4, BootstrapMemberEffect
<1>5. ASSUME NEW p \in Processes, NEW e \in Emails, SignIn(p, e)
      PROVE  RefersToRows'
  BY <1>5, SignInEffect
<1>6. ASSUME NEW p \in Processes, CreateSession(p)
      PROVE  RefersToRows'
  BY <1>6, CreateSessionEffect
<1>7. ASSUME NEW p \in Processes, NEW e \in Emails, NEW r \in Roles, CreateUser(p, e, r)
      PROVE  RefersToRows'
  BY <1>7, <1>a, CreateUserEffect
<1>8. ASSUME NEW p \in Processes, DefaultTenant(p)
      PROVE  RefersToRows'
  BY <1>8, DefaultTenantEffect
<1>9. ASSUME NEW p \in Processes, DefaultTenantNew(p)
      PROVE  RefersToRows'
  BY <1>9, DefaultTenantNewEffect
<1>10. ASSUME NEW p \in Processes, CreateMember(p)
      PROVE  RefersToRows'
  BY <1>10, CreateMemberEffect
<1>11. ASSUME NEW p \in Processes, NEW e \in Emails, NEW r \in Roles, SetRole(p, e, r)
      PROVE  RefersToRows'
  BY <1>11, <1>a, SetRoleEffect
<1>12. ASSUME NEW p \in Processes, NEW e \in Emails, NEW d \in BOOLEAN, SetDisabled(p, e, d)
      PROVE  RefersToRows'
  BY <1>12, SetDisabledEffect
<1>13. ASSUME NEW p \in Processes, NEW e \in Emails, ResetPassword(p, e)
      PROVE  RefersToRows'
  BY <1>13, ResetPasswordEffect
<1>14. ASSUME NEW p \in Processes, NEW e \in Emails, ClearSessions(p, e)
      PROVE  RefersToRows'
  BY <1>14, ClearSessionsEffect
<1>15. ASSUME NEW p \in Processes, DeleteSessions(p)
      PROVE  RefersToRows'
  BY <1>15, DeleteSessionsEffect
<1>16. ASSUME NEW p \in Processes, SetMemberRole(p)
      PROVE  RefersToRows'
  BY <1>16, SetMemberRoleEffect
<1>17. ASSUME NEW p \in Processes, NEW e \in Emails, SeedUser(p, e)
      PROVE  RefersToRows'
  BY <1>17, <1>a, SeedUserEffect
<1>18. ASSUME NEW p \in Processes, SeedTenant(p)
      PROVE  RefersToRows'
  BY <1>18, SeedTenantEffect
<1>19. ASSUME NEW p \in Processes, SeedTenantNew(p)
      PROVE  RefersToRows'
  BY <1>19, SeedTenantNewEffect
<1>20. ASSUME NEW p \in Processes, SeedMember(p)
      PROVE  RefersToRows'
  BY <1>20, SeedMemberEffect
<1>21. ASSUME NEW p \in Processes, Kill(p)
      PROVE  RefersToRows'
  BY <1>21, KillEffect
<1>22. ASSUME NEW k \in Tokens, DestroySession(k)
      PROVE  RefersToRows'
  BY <1>22 DEF DestroySession
<1>23. ASSUME NEW k \in Tokens, NEW a \in Mutations, Admit(k, a)
      PROVE  RefersToRows'
  BY <1>23, <1>a DEF Admit, SessionUser, Permitted, Can, UnderWay
<1>24. CASE Act
  <2>1. request'.step # "none" => request.step # "none" /\ request'.user = request.user
    BY <1>24 DEF Act, AccountsTypeOK
  <2> QED
    BY <1>24, <2>1 DEF Act
<1>25. CASE WriteAudit
  BY <1>25 DEF WriteAudit
<1>26. CASE UNCHANGED accountVars
  BY <1>26 DEF accountVars
<1> QED
  BY <1>1, <1>2, <1>3, <1>4, <1>5, <1>6, <1>7, <1>8, <1>9, <1>10, <1>11, <1>12, <1>13, <1>14,
     <1>15, <1>16, <1>17, <1>18, <1>19, <1>20, <1>21, <1>22, <1>23, <1>24, <1>25, <1>26
     DEF AccountsNext, Bootstrap, Login, CreateLocalUser, ChangeLocalUser, Seed, Processes

(* On an account that is not mixed one process at a time is at work.       *)
OneAtWork ==
  \A e \in Emails \ mixed : \A p, q \in Processes :
    /\ call[p].user = e /\ call[p].step \in Changing
    /\ call[q].user = e /\ call[q].step \in Changing
    => p = q

(* A second command on an account under work marks the account as mixed.   *)
LEMMA OneAtWorkStep ==
  Inv /\ OneAtWork /\ [AccountsNext]_accountVars => OneAtWork'
<1> SUFFICES ASSUME Inv, OneAtWork, [AccountsNext]_accountVars
             PROVE  OneAtWork'
  OBVIOUS
<1> USE AccountsAssumption DEF Inv, Advances, Moves, Others, Rests, Changing, Making, Begins,
        OneAtWork, userRows, tenantRows, counts
<1>1. ASSUME NEW p \in Processes, NEW e \in Emails, BootstrapCount(p, e)
      PROVE  OneAtWork'
  BY <1>1, BootstrapCountEffect
<1>2. ASSUME NEW p \in Processes, BootstrapUser(p)
      PROVE  OneAtWork'
  BY <1>2, BootstrapUserEffect
<1>3. ASSUME NEW p \in Processes, BootstrapTenant(p)
      PROVE  OneAtWork'
  BY <1>3, BootstrapTenantEffect
<1>4. ASSUME NEW p \in Processes, BootstrapMember(p)
      PROVE  OneAtWork'
  BY <1>4, BootstrapMemberEffect
<1>5. ASSUME NEW p \in Processes, NEW e \in Emails, SignIn(p, e)
      PROVE  OneAtWork'
  BY <1>5, SignInEffect
<1>6. ASSUME NEW p \in Processes, CreateSession(p)
      PROVE  OneAtWork'
  BY <1>6, CreateSessionEffect
<1>7. ASSUME NEW p \in Processes, NEW e \in Emails, NEW r \in Roles, CreateUser(p, e, r)
      PROVE  OneAtWork'
  BY <1>7, CreateUserEffect
<1>8. ASSUME NEW p \in Processes, DefaultTenant(p)
      PROVE  OneAtWork'
  BY <1>8, DefaultTenantEffect
<1>9. ASSUME NEW p \in Processes, DefaultTenantNew(p)
      PROVE  OneAtWork'
  BY <1>9, DefaultTenantNewEffect
<1>10. ASSUME NEW p \in Processes, CreateMember(p)
      PROVE  OneAtWork'
  BY <1>10, CreateMemberEffect
<1>11. ASSUME NEW p \in Processes, NEW e \in Emails, NEW r \in Roles, SetRole(p, e, r)
      PROVE  OneAtWork'
  BY <1>11, SetRoleEffect
<1>12. ASSUME NEW p \in Processes, NEW e \in Emails, NEW d \in BOOLEAN, SetDisabled(p, e, d)
      PROVE  OneAtWork'
  BY <1>12, SetDisabledEffect
<1>13. ASSUME NEW p \in Processes, NEW e \in Emails, ResetPassword(p, e)
      PROVE  OneAtWork'
  BY <1>13, ResetPasswordEffect
<1>14. ASSUME NEW p \in Processes, NEW e \in Emails, ClearSessions(p, e)
      PROVE  OneAtWork'
  BY <1>14, ClearSessionsEffect
<1>15. ASSUME NEW p \in Processes, DeleteSessions(p)
      PROVE  OneAtWork'
  BY <1>15, DeleteSessionsEffect
<1>16. ASSUME NEW p \in Processes, SetMemberRole(p)
      PROVE  OneAtWork'
  BY <1>16, SetMemberRoleEffect
<1>17. ASSUME NEW p \in Processes, NEW e \in Emails, SeedUser(p, e)
      PROVE  OneAtWork'
  BY <1>17, SeedUserEffect
<1>18. ASSUME NEW p \in Processes, SeedTenant(p)
      PROVE  OneAtWork'
  BY <1>18, SeedTenantEffect
<1>19. ASSUME NEW p \in Processes, SeedTenantNew(p)
      PROVE  OneAtWork'
  BY <1>19, SeedTenantNewEffect
<1>20. ASSUME NEW p \in Processes, SeedMember(p)
      PROVE  OneAtWork'
  BY <1>20, SeedMemberEffect
<1>21. ASSUME NEW p \in Processes, Kill(p)
      PROVE  OneAtWork'
  BY <1>21, KillEffect
<1>22. ASSUME NEW k \in Tokens, DestroySession(k)
      PROVE  OneAtWork'
  BY <1>22 DEF DestroySession
<1>23. ASSUME NEW k \in Tokens, NEW a \in Mutations, Admit(k, a)
      PROVE  OneAtWork'
  BY <1>23 DEF Admit, SessionUser, Permitted, Can, UnderWay
<1>24. CASE Act
  BY <1>24 DEF Act
<1>25. CASE WriteAudit
  BY <1>25 DEF WriteAudit
<1>26. CASE UNCHANGED accountVars
  BY <1>26 DEF accountVars
<1> QED
  BY <1>1, <1>2, <1>3, <1>4, <1>5, <1>6, <1>7, <1>8, <1>9, <1>10, <1>11, <1>12, <1>13, <1>14,
     <1>15, <1>16, <1>17, <1>18, <1>19, <1>20, <1>21, <1>22, <1>23, <1>24, <1>25, <1>26
     DEF AccountsNext, Bootstrap, Login, CreateLocalUser, ChangeLocalUser, Seed, Processes

(* On such an account the memberships have the role of the user but while  *)
(* a change of role is between its two statements, and a call that will    *)
(* write a membership holds that role.                                     *)
RolesInStep ==
  \A e \in Emails \ mixed :
    /\ (\A p \in Processes : call[p].user = e => call[p].step # "role") =>
         \A t \in Tenants : member[t][e] \in {"none", role[e]}
    /\ \A p \in Processes : call[p].user = e =>
         /\ call[p].step \in {"tenant", "newtenant", "member", "role"} => call[p].role = role[e]
         /\ call[p].step \in {"firsttenant", "firstmember", "seedtenant", "seednew", "seedmember"}
              => role[e] = "admin"
         /\ call[p].step = "firstuser" => ~Exists(e)

(* Every action keeps the roles in step.                                   *)
LEMMA RolesStep ==
  Inv /\ OneAtWork /\ RolesInStep /\ [AccountsNext]_accountVars => RolesInStep'
<1> SUFFICES ASSUME Inv, OneAtWork, RolesInStep, [AccountsNext]_accountVars
             PROVE  RolesInStep'
  OBVIOUS
<1> USE AccountsAssumption DEF Inv, Advances, Moves, Others, Rests, Changing, Making, Begins,
        Inserts, Joins, OneAtWork, RolesInStep, RefersToRows, Exists, Roles,
           NeedsBootstrap, userRows,
        tenantRows, counts
<1>1. ASSUME NEW p \in Processes, NEW e \in Emails, BootstrapCount(p, e)
      PROVE  RolesInStep'
  BY <1>1, BootstrapCountEffect
<1>2. ASSUME NEW p \in Processes, BootstrapUser(p)
      PROVE  RolesInStep'
  BY <1>2, BootstrapUserEffect
<1>3. ASSUME NEW p \in Processes, BootstrapTenant(p)
      PROVE  RolesInStep'
  BY <1>3, BootstrapTenantEffect
<1>4. ASSUME NEW p \in Processes, BootstrapMember(p)
      PROVE  RolesInStep'
  BY <1>4, BootstrapMemberEffect
<1>5. ASSUME NEW p \in Processes, NEW e \in Emails, SignIn(p, e)
      PROVE  RolesInStep'
  BY <1>5, SignInEffect
<1>6. ASSUME NEW p \in Processes, CreateSession(p)
      PROVE  RolesInStep'
  BY <1>6, CreateSessionEffect
<1>7. ASSUME NEW p \in Processes, NEW e \in Emails, NEW r \in Roles, CreateUser(p, e, r)
      PROVE  RolesInStep'
  BY <1>7, CreateUserEffect
<1>8. ASSUME NEW p \in Processes, DefaultTenant(p)
      PROVE  RolesInStep'
  BY <1>8, DefaultTenantEffect
<1>9. ASSUME NEW p \in Processes, DefaultTenantNew(p)
      PROVE  RolesInStep'
  BY <1>9, DefaultTenantNewEffect
<1>10. ASSUME NEW p \in Processes, CreateMember(p)
      PROVE  RolesInStep'
  BY <1>10, CreateMemberEffect
<1>11. ASSUME NEW p \in Processes, NEW e \in Emails, NEW r \in Roles, SetRole(p, e, r)
      PROVE  RolesInStep'
  BY <1>11, SetRoleEffect
<1>12. ASSUME NEW p \in Processes, NEW e \in Emails, NEW d \in BOOLEAN, SetDisabled(p, e, d)
      PROVE  RolesInStep'
  BY <1>12, SetDisabledEffect
<1>13. ASSUME NEW p \in Processes, NEW e \in Emails, ResetPassword(p, e)
      PROVE  RolesInStep'
  BY <1>13, ResetPasswordEffect
<1>14. ASSUME NEW p \in Processes, NEW e \in Emails, ClearSessions(p, e)
      PROVE  RolesInStep'
  BY <1>14, ClearSessionsEffect
<1>15. ASSUME NEW p \in Processes, DeleteSessions(p)
      PROVE  RolesInStep'
  BY <1>15, DeleteSessionsEffect
<1>16. ASSUME NEW p \in Processes, SetMemberRole(p)
      PROVE  RolesInStep'
  BY <1>16, SetMemberRoleEffect
<1>17. ASSUME NEW p \in Processes, NEW e \in Emails, SeedUser(p, e)
      PROVE  RolesInStep'
  <2>1. role[e] \in {"admin", "readonly", "none"}
    BY DEF AccountsTypeOK, Roles
  <2> QED
    BY <1>17, <2>1, SeedUserEffect
<1>18. ASSUME NEW p \in Processes, SeedTenant(p)
      PROVE  RolesInStep'
  BY <1>18, SeedTenantEffect
<1>19. ASSUME NEW p \in Processes, SeedTenantNew(p)
      PROVE  RolesInStep'
  BY <1>19, SeedTenantNewEffect
<1>20. ASSUME NEW p \in Processes, SeedMember(p)
      PROVE  RolesInStep'
  BY <1>20, SeedMemberEffect
<1>21. ASSUME NEW p \in Processes, Kill(p)
      PROVE  RolesInStep'
  BY <1>21, KillEffect
<1>22. ASSUME NEW k \in Tokens, DestroySession(k)
      PROVE  RolesInStep'
  BY <1>22 DEF DestroySession
<1>23. ASSUME NEW k \in Tokens, NEW a \in Mutations, Admit(k, a)
      PROVE  RolesInStep'
  BY <1>23 DEF Admit, SessionUser, Permitted, Can, UnderWay
<1>24. CASE Act
  BY <1>24 DEF Act
<1>25. CASE WriteAudit
  BY <1>25 DEF WriteAudit
<1>26. CASE UNCHANGED accountVars
  BY <1>26 DEF accountVars
<1> QED
  BY <1>1, <1>2, <1>3, <1>4, <1>5, <1>6, <1>7, <1>8, <1>9, <1>10, <1>11, <1>12, <1>13, <1>14,
     <1>15, <1>16, <1>17, <1>18, <1>19, <1>20, <1>21, <1>22, <1>23, <1>24, <1>25, <1>26
     DEF AccountsNext, Bootstrap, Login, CreateLocalUser, ChangeLocalUser, Seed, Processes

(* Such an account has a membership once its making is over.               *)
MadeToTheEnd ==
  \A e \in Emails \ mixed :
    Exists(e) /\ (\A p \in Processes : call[p].user = e => call[p].step \notin Making) =>
      \E t \in Tenants : member[t][e] # "none"

(* Only the last statement of a making ends it.                            *)
LEMMA MadeStep ==
  Inv /\ OneAtWork /\ RolesInStep /\ MadeToTheEnd /\ [AccountsNext]_accountVars => MadeToTheEnd'
<1> SUFFICES ASSUME Inv, OneAtWork, RolesInStep, MadeToTheEnd, [AccountsNext]_accountVars
             PROVE  MadeToTheEnd'
  OBVIOUS
<1> USE AccountsAssumption DEF Inv, Advances, Moves, Others, Rests, Changing, Making, Begins,
        Inserts, Joins, OneAtWork, RolesInStep, MadeToTheEnd, RefersToRows, Exists, Roles, userRows,
        tenantRows, counts
<1>1. ASSUME NEW p \in Processes, NEW e \in Emails, BootstrapCount(p, e)
      PROVE  MadeToTheEnd'
  BY <1>1, BootstrapCountEffect
<1>2. ASSUME NEW p \in Processes, BootstrapUser(p)
      PROVE  MadeToTheEnd'
  BY <1>2, BootstrapUserEffect
<1>3. ASSUME NEW p \in Processes, BootstrapTenant(p)
      PROVE  MadeToTheEnd'
  BY <1>3, BootstrapTenantEffect
<1>4. ASSUME NEW p \in Processes, BootstrapMember(p)
      PROVE  MadeToTheEnd'
  BY <1>4, BootstrapMemberEffect
<1>5. ASSUME NEW p \in Processes, NEW e \in Emails, SignIn(p, e)
      PROVE  MadeToTheEnd'
  BY <1>5, SignInEffect
<1>6. ASSUME NEW p \in Processes, CreateSession(p)
      PROVE  MadeToTheEnd'
  BY <1>6, CreateSessionEffect
<1>7. ASSUME NEW p \in Processes, NEW e \in Emails, NEW r \in Roles, CreateUser(p, e, r)
      PROVE  MadeToTheEnd'
  BY <1>7, CreateUserEffect
<1>8. ASSUME NEW p \in Processes, DefaultTenant(p)
      PROVE  MadeToTheEnd'
  BY <1>8, DefaultTenantEffect
<1>9. ASSUME NEW p \in Processes, DefaultTenantNew(p)
      PROVE  MadeToTheEnd'
  BY <1>9, DefaultTenantNewEffect
<1>10. ASSUME NEW p \in Processes, CreateMember(p)
      PROVE  MadeToTheEnd'
  BY <1>10, CreateMemberEffect
<1>11. ASSUME NEW p \in Processes, NEW e \in Emails, NEW r \in Roles, SetRole(p, e, r)
      PROVE  MadeToTheEnd'
  BY <1>11, SetRoleEffect
<1>12. ASSUME NEW p \in Processes, NEW e \in Emails, NEW d \in BOOLEAN, SetDisabled(p, e, d)
      PROVE  MadeToTheEnd'
  BY <1>12, SetDisabledEffect
<1>13. ASSUME NEW p \in Processes, NEW e \in Emails, ResetPassword(p, e)
      PROVE  MadeToTheEnd'
  BY <1>13, ResetPasswordEffect
<1>14. ASSUME NEW p \in Processes, NEW e \in Emails, ClearSessions(p, e)
      PROVE  MadeToTheEnd'
  BY <1>14, ClearSessionsEffect
<1>15. ASSUME NEW p \in Processes, DeleteSessions(p)
      PROVE  MadeToTheEnd'
  BY <1>15, DeleteSessionsEffect
<1>16. ASSUME NEW p \in Processes, SetMemberRole(p)
      PROVE  MadeToTheEnd'
  BY <1>16, SetMemberRoleEffect
<1>17. ASSUME NEW p \in Processes, NEW e \in Emails, SeedUser(p, e)
      PROVE  MadeToTheEnd'
  BY <1>17, SeedUserEffect
<1>18. ASSUME NEW p \in Processes, SeedTenant(p)
      PROVE  MadeToTheEnd'
  BY <1>18, SeedTenantEffect
<1>19. ASSUME NEW p \in Processes, SeedTenantNew(p)
      PROVE  MadeToTheEnd'
  BY <1>19, SeedTenantNewEffect
<1>20. ASSUME NEW p \in Processes, SeedMember(p)
      PROVE  MadeToTheEnd'
  BY <1>20, SeedMemberEffect
<1>21. ASSUME NEW p \in Processes, Kill(p)
      PROVE  MadeToTheEnd'
  BY <1>21, KillEffect
<1>22. ASSUME NEW k \in Tokens, DestroySession(k)
      PROVE  MadeToTheEnd'
  BY <1>22 DEF DestroySession
<1>23. ASSUME NEW k \in Tokens, NEW a \in Mutations, Admit(k, a)
      PROVE  MadeToTheEnd'
  BY <1>23 DEF Admit, SessionUser, Permitted, Can, UnderWay
<1>24. CASE Act
  BY <1>24 DEF Act
<1>25. CASE WriteAudit
  BY <1>25 DEF WriteAudit
<1>26. CASE UNCHANGED accountVars
  BY <1>26 DEF accountVars
<1> QED
  BY <1>1, <1>2, <1>3, <1>4, <1>5, <1>6, <1>7, <1>8, <1>9, <1>10, <1>11, <1>12, <1>13, <1>14,
     <1>15, <1>16, <1>17, <1>18, <1>19, <1>20, <1>21, <1>22, <1>23, <1>24, <1>25, <1>26
     DEF AccountsNext, Bootstrap, Login, CreateLocalUser, ChangeLocalUser, Seed, Processes

(* But while a DELETE FROM sessions is due, the sessions of such an        *)
(* account, and those about to be made that are not late, have its         *)
(* password and may sign in.                                               *)
Revoked ==
  /\ \A p \in Processes : call[p].step = "firstuser" => call[p].secret = 1
  /\ \A e \in Emails \ mixed :
       (\A p \in Processes : call[p].user = e => call[p].step # "delete") =>
         /\ \A k \in Tokens :
              session[k].user = e /\ ~session[k].late => ~disabled[e] /\ session[k].secret = secret[e]
         /\ \A p \in Processes :
              /\ call[p].user = e /\ ~call[p].late
              /\ call[p].step \in {"session", "firsttenant", "firstmember"}
              => ~disabled[e] /\ call[p].secret = secret[e]

(* Every change of a password and every disabling has its DELETE due.      *)
LEMMA RevokedStep ==
  Inv /\ OneAtWork /\ Revoked /\ [AccountsNext]_accountVars => Revoked'
<1> SUFFICES ASSUME Inv, OneAtWork, Revoked, [AccountsNext]_accountVars
             PROVE  Revoked'
  OBVIOUS
<1> USE AccountsAssumption DEF Inv, Advances, Moves, Others, Rests, Changing, Making, Begins,
        Inserts, OneAtWork, Revoked, RefersToRows, Exists, NoSession, userRows, tenantRows, counts
<1>1. ASSUME NEW p \in Processes, NEW e \in Emails, BootstrapCount(p, e)
      PROVE  Revoked'
  BY <1>1, BootstrapCountEffect
<1>2. ASSUME NEW p \in Processes, BootstrapUser(p)
      PROVE  Revoked'
  BY <1>2, BootstrapUserEffect
<1>3. ASSUME NEW p \in Processes, BootstrapTenant(p)
      PROVE  Revoked'
  BY <1>3, BootstrapTenantEffect
<1>4. ASSUME NEW p \in Processes, BootstrapMember(p)
      PROVE  Revoked'
  BY <1>4, BootstrapMemberEffect
<1>5. ASSUME NEW p \in Processes, NEW e \in Emails, SignIn(p, e)
      PROVE  Revoked'
  BY <1>5, SignInEffect
<1>6. ASSUME NEW p \in Processes, CreateSession(p)
      PROVE  Revoked'
  BY <1>6, CreateSessionEffect
<1>7. ASSUME NEW p \in Processes, NEW e \in Emails, NEW r \in Roles, CreateUser(p, e, r)
      PROVE  Revoked'
  BY <1>7, CreateUserEffect
<1>8. ASSUME NEW p \in Processes, DefaultTenant(p)
      PROVE  Revoked'
  BY <1>8, DefaultTenantEffect
<1>9. ASSUME NEW p \in Processes, DefaultTenantNew(p)
      PROVE  Revoked'
  BY <1>9, DefaultTenantNewEffect
<1>10. ASSUME NEW p \in Processes, CreateMember(p)
      PROVE  Revoked'
  BY <1>10, CreateMemberEffect
<1>11. ASSUME NEW p \in Processes, NEW e \in Emails, NEW r \in Roles, SetRole(p, e, r)
      PROVE  Revoked'
  BY <1>11, SetRoleEffect
<1>12. ASSUME NEW p \in Processes, NEW e \in Emails, NEW d \in BOOLEAN, SetDisabled(p, e, d)
      PROVE  Revoked'
  BY <1>12, SetDisabledEffect
<1>13. ASSUME NEW p \in Processes, NEW e \in Emails, ResetPassword(p, e)
      PROVE  Revoked'
  BY <1>13, ResetPasswordEffect
<1>14. ASSUME NEW p \in Processes, NEW e \in Emails, ClearSessions(p, e)
      PROVE  Revoked'
  BY <1>14, ClearSessionsEffect
<1>15. ASSUME NEW p \in Processes, DeleteSessions(p)
      PROVE  Revoked'
  BY <1>15, DeleteSessionsEffect
<1>16. ASSUME NEW p \in Processes, SetMemberRole(p)
      PROVE  Revoked'
  BY <1>16, SetMemberRoleEffect
<1>17. ASSUME NEW p \in Processes, NEW e \in Emails, SeedUser(p, e)
      PROVE  Revoked'
  BY <1>17, SeedUserEffect
<1>18. ASSUME NEW p \in Processes, SeedTenant(p)
      PROVE  Revoked'
  BY <1>18, SeedTenantEffect
<1>19. ASSUME NEW p \in Processes, SeedTenantNew(p)
      PROVE  Revoked'
  BY <1>19, SeedTenantNewEffect
<1>20. ASSUME NEW p \in Processes, SeedMember(p)
      PROVE  Revoked'
  BY <1>20, SeedMemberEffect
<1>21. ASSUME NEW p \in Processes, Kill(p)
      PROVE  Revoked'
  BY <1>21, KillEffect
<1>22. ASSUME NEW k \in Tokens, DestroySession(k)
      PROVE  Revoked'
  BY <1>22 DEF DestroySession
<1>23. ASSUME NEW k \in Tokens, NEW a \in Mutations, Admit(k, a)
      PROVE  Revoked'
  BY <1>23 DEF Admit, SessionUser, Permitted, Can, UnderWay
<1>24. CASE Act
  BY <1>24 DEF Act
<1>25. CASE WriteAudit
  BY <1>25 DEF WriteAudit
<1>26. CASE UNCHANGED accountVars
  BY <1>26 DEF accountVars
<1> QED
  BY <1>1, <1>2, <1>3, <1>4, <1>5, <1>6, <1>7, <1>8, <1>9, <1>10, <1>11, <1>12, <1>13, <1>14,
     <1>15, <1>16, <1>17, <1>18, <1>19, <1>20, <1>21, <1>22, <1>23, <1>24, <1>25, <1>26
     DEF AccountsNext, Bootstrap, Login, CreateLocalUser, ChangeLocalUser, Seed, Processes

(* Without a crowd one process at a time makes accounts, and it makes the  *)
(* only tenant.                                                            *)
AloneAtFirst ==
  ~crowded =>
    /\ \A p, q \in Processes : call[p].step \in Making /\ call[q].step \in Making => p = q
    /\ \A p \in Processes : call[p].step \in {"firstuser", "firsttenant", "newtenant"} => NoTenants
    /\ \A p \in Processes : call[p].step \notin {"seedtenant", "seednew", "seedmember"}
    /\ \A t, u \in Tenants : owner[t] # Nobody /\ owner[u] # Nobody => t = u

(* A second process that makes accounts makes a crowd.                     *)
LEMMA AloneStep ==
  Inv /\ AloneAtFirst /\ [AccountsNext]_accountVars => AloneAtFirst'
<1> SUFFICES ASSUME Inv, AloneAtFirst, [AccountsNext]_accountVars
             PROVE  AloneAtFirst'
  OBVIOUS
<1> USE AccountsAssumption DEF Inv, Advances, Moves, Others, Rests, Changing, Making, Begins,
        NoTenants, NeedsBootstrap, RefersToRows, Exists, AloneAtFirst, userRows, tenantRows, counts
<1>a. /\ \A t \in Tenants : owner[t] \in Emails \cup {Nobody}
      /\ \A k \in Tokens : session[k].user \in Emails \cup {Nobody}
  BY DEF AccountsTypeOK
<1>1. ASSUME NEW p \in Processes, NEW e \in Emails, BootstrapCount(p, e)
      PROVE  AloneAtFirst'
  <2>1. ~crowded' => ~crowded /\ \A q \in Processes : call[q].step \notin Making
    BY <1>1 DEF BootstrapCount, Start
  <2> QED
    BY <1>1, <2>1, <1>a, BootstrapCountEffect
<1>2. ASSUME NEW p \in Processes, BootstrapUser(p)
      PROVE  AloneAtFirst'
  BY <1>2, BootstrapUserEffect
<1>3. ASSUME NEW p \in Processes, BootstrapTenant(p)
      PROVE  AloneAtFirst'
  BY <1>3, BootstrapTenantEffect
<1>4. ASSUME NEW p \in Processes, BootstrapMember(p)
      PROVE  AloneAtFirst'
  BY <1>4, BootstrapMemberEffect
<1>5. ASSUME NEW p \in Processes, NEW e \in Emails, SignIn(p, e)
      PROVE  AloneAtFirst'
  BY <1>5, SignInEffect
<1>6. ASSUME NEW p \in Processes, CreateSession(p)
      PROVE  AloneAtFirst'
  BY <1>6, CreateSessionEffect
<1>7. ASSUME NEW p \in Processes, NEW e \in Emails, NEW r \in Roles, CreateUser(p, e, r)
      PROVE  AloneAtFirst'
  <2>1. ~crowded' => ~crowded /\ \A q \in Processes : call[q].step \notin Making
    BY <1>7 DEF CreateUser, Start
  <2> QED
    BY <1>7, <2>1, <1>a, CreateUserEffect
<1>8. ASSUME NEW p \in Processes, DefaultTenant(p)
      PROVE  AloneAtFirst'
  BY <1>8, DefaultTenantEffect
<1>9. ASSUME NEW p \in Processes, DefaultTenantNew(p)
      PROVE  AloneAtFirst'
  BY <1>9, DefaultTenantNewEffect
<1>10. ASSUME NEW p \in Processes, CreateMember(p)
      PROVE  AloneAtFirst'
  BY <1>10, CreateMemberEffect
<1>11. ASSUME NEW p \in Processes, NEW e \in Emails, NEW r \in Roles, SetRole(p, e, r)
      PROVE  AloneAtFirst'
  <2>1. ~crowded' => ~crowded
    BY <1>11 DEF SetRole, Start
  <2> QED
    BY <1>11, <2>1, <1>a, SetRoleEffect
<1>12. ASSUME NEW p \in Processes, NEW e \in Emails, NEW d \in BOOLEAN, SetDisabled(p, e, d)
      PROVE  AloneAtFirst'
  <2>1. ~crowded' => ~crowded
    BY <1>12 DEF SetDisabled, Start
  <2> QED
    BY <1>12, <2>1, <1>a, SetDisabledEffect
<1>13. ASSUME NEW p \in Processes, NEW e \in Emails, ResetPassword(p, e)
      PROVE  AloneAtFirst'
  <2>1. ~crowded' => ~crowded
    BY <1>13 DEF ResetPassword, Start
  <2> QED
    BY <1>13, <2>1, <1>a, ResetPasswordEffect
<1>14. ASSUME NEW p \in Processes, NEW e \in Emails, ClearSessions(p, e)
      PROVE  AloneAtFirst'
  <2>1. ~crowded' => ~crowded
    BY <1>14 DEF ClearSessions, Start
  <2> QED
    BY <1>14, <2>1, <1>a, ClearSessionsEffect
<1>15. ASSUME NEW p \in Processes, DeleteSessions(p)
      PROVE  AloneAtFirst'
  BY <1>15, DeleteSessionsEffect
<1>16. ASSUME NEW p \in Processes, SetMemberRole(p)
      PROVE  AloneAtFirst'
  BY <1>16, SetMemberRoleEffect
<1>17. ASSUME NEW p \in Processes, NEW e \in Emails, SeedUser(p, e)
      PROVE  AloneAtFirst'
  BY <1>17, SeedUserEffect
<1>18. ASSUME NEW p \in Processes, SeedTenant(p)
      PROVE  AloneAtFirst'
  BY <1>18, SeedTenantEffect
<1>19. ASSUME NEW p \in Processes, SeedTenantNew(p)
      PROVE  AloneAtFirst'
  BY <1>19, SeedTenantNewEffect
<1>20. ASSUME NEW p \in Processes, SeedMember(p)
      PROVE  AloneAtFirst'
  BY <1>20, SeedMemberEffect
<1>21. ASSUME NEW p \in Processes, Kill(p)
      PROVE  AloneAtFirst'
  BY <1>21, KillEffect
<1>22. ASSUME NEW k \in Tokens, DestroySession(k)
      PROVE  AloneAtFirst'
  BY <1>22 DEF DestroySession
<1>23. ASSUME NEW k \in Tokens, NEW a \in Mutations, Admit(k, a)
      PROVE  AloneAtFirst'
  BY <1>23 DEF Admit, SessionUser, Permitted, Can, UnderWay
<1>24. CASE Act
  BY <1>24 DEF Act
<1>25. CASE WriteAudit
  BY <1>25 DEF WriteAudit
<1>26. CASE UNCHANGED accountVars
  BY <1>26 DEF accountVars
<1> QED
  BY <1>1, <1>2, <1>3, <1>4, <1>5, <1>6, <1>7, <1>8, <1>9, <1>10, <1>11, <1>12, <1>13, <1>14,
     <1>15, <1>16, <1>17, <1>18, <1>19, <1>20, <1>21, <1>22, <1>23, <1>24, <1>25, <1>26
     DEF AccountsNext, Bootstrap, Login, CreateLocalUser, ChangeLocalUser, Seed, Processes

-----------------------------------------------------------------------------
(* The inductive invariant.                                                *)
AccountsInv ==
  /\ AccountsTypeOK /\ RefersToRows /\ OneAtWork
  /\ RolesInStep /\ MadeToTheEnd /\ Revoked /\ AloneAtFirst

(* The invariant holds of empty tables, and every action keeps it.         *)
LEMMA AccountsInvInit == AccountsInit => AccountsInv
<1> SUFFICES ASSUME AccountsInit PROVE AccountsInv
  OBVIOUS
<1> USE AccountsAssumption DEF AccountsInit, NoSession, Resting, NoRequest, Exists
<1>1. RowsTyped /\ CountsTyped
  BY DEF RowsTyped, CountsTyped, Roles, RequestSteps, Mutations
<1>2. AccountCallsTyped
  BY NewCalls DEF AccountCallsTyped
<1>3. RefersToRows
  BY DEF RefersToRows
<1>4. OneAtWork /\ RolesInStep /\ MadeToTheEnd /\ AloneAtFirst
  BY DEF OneAtWork, RolesInStep, MadeToTheEnd, AloneAtFirst, Changing, Making, NoTenants
<1>5. Revoked
  BY DEF Revoked
<1> QED
  BY <1>1, <1>2, <1>3, <1>4, <1>5, AccountsParts DEF AccountsInv

LEMMA AccountsInvStep == AccountsInv /\ [AccountsNext]_accountVars => AccountsInv'
<1> SUFFICES ASSUME AccountsInv, [AccountsNext]_accountVars PROVE AccountsInv'
  OBVIOUS
<1>1. Inv
  BY DEF AccountsInv, Inv
<1> QED
  BY <1>1, TypeStep, RefersStep, OneAtWorkStep, RolesStep, MadeStep, RevokedStep, AloneStep
     DEF AccountsInv, Inv

LEMMA AccountsInvHolds == AccountsSpec => []AccountsInv
BY AccountsInvInit, AccountsInvStep, PTL DEF AccountsSpec

(* Rows, calls and the request keep their types.                           *)
THEOREM AccountsTyped == AccountsSpec => []AccountsTypeOK
<1>1. AccountsInv => AccountsTypeOK
  BY DEF AccountsInv
<1> QED
  BY <1>1, AccountsInvHolds, PTL

(* However many processes change accounts, and wherever they are killed,   *)
(* users.role and tenant_users.role agree on every account no command was  *)
(* cut on or met another one on.                                           *)
THEOREM RolesAlwaysAgree == AccountsSpec => []RolesAgree
<1>1. AccountsInv => RolesAgree
  BY DEF AccountsInv, RolesInStep, RolesAgree, Settled, Half, Busy, Changing
<1> QED
  BY <1>1, AccountsInvHolds, PTL

(* No session outlives a reset or a disabling that is done, but that of a  *)
(* sign-in which had looked at the user before.                            *)
THEOREM SessionsAreRevoked == AccountsSpec => []RevokedSessionsGone
<1>1. AccountsInv => RevokedSessionsGone
  <2> SUFFICES ASSUME AccountsInv, NEW k \in Tokens, session[k].user # Nobody, ~session[k].late,
                      Settled(session[k].user)
               PROVE  ~disabled[session[k].user] /\ session[k].secret = secret[session[k].user]
    BY Zenon DEF RevokedSessionsGone
  <2>1. session[k].user \in Emails
    BY DEF AccountsInv, AccountsTypeOK
  <2>2. /\ session[k].user \in Emails \ mixed
        /\ \A p \in Processes : call[p].user = session[k].user => call[p].step # "delete"
    BY <2>1 DEF Settled, Half, Busy, Changing
  <2> QED
    BY <2>2 DEF AccountsInv, Revoked
<1> QED
  BY <1>1, AccountsInvHolds, PTL

(* There is one tenant unless the seed script ran or two commands that     *)
(* make accounts were under way together.                                  *)
THEOREM TenantIsOne == AccountsSpec => []OneTenant
<1>1. AccountsInv => OneTenant
  BY Zenon DEF AccountsInv, AloneAtFirst, OneTenant
<1> QED
  BY <1>1, AccountsInvHolds, PTL

(* Somebody whose account was made to the end belongs to a tenant.         *)
LEMMA RequestHasTenant ==
  ASSUME AccountsInv, request.step = "audit", Settled(request.user)
  PROVE  TenantsOf(request.user) # {}
<1>1. request.user \in Emails /\ Exists(request.user)
  BY DEF AccountsInv, RefersToRows
<1>2. /\ request.user \in Emails \ mixed
      /\ \A p \in Processes : call[p].user = request.user => call[p].step \notin Making
  BY <1>1 DEF Settled, Half, Busy, Changing
<1> QED
  BY <1>1, <1>2 DEF AccountsInv, MadeToTheEnd, TenantsOf

(* The audit entry of a change goes to a tenant the user belongs to.       *)
THEOREM AuditIsInOwnTenant == AccountsSpec => []AuditInOwnTenant
<1>1. AccountsInv => AuditInOwnTenant
  BY RequestHasTenant DEF AuditInOwnTenant, ResolveTenantId, TenantsOf
<1> QED
  BY <1>1, AccountsInvHolds, PTL

(* A change always finds a tenant for its audit entry.                     *)
THEOREM ActionsAlwaysLeaveTrace == AccountsSpec => []ActionsLeaveTrace
<1>1. AccountsInv => ActionsLeaveTrace
  BY RequestHasTenant DEF ActionsLeaveTrace, ResolveTenantId
<1> QED
  BY <1>1, AccountsInvHolds, PTL

-----------------------------------------------------------------------------
(* Migrations.                                                             *)

(* What the context migrations make.                                       *)
Late == {"ctx", "ver", "sig", "dlv"}

(* What a run of runMigrations has reached, step by step: the account      *)
(* tables it meets are complete before it makes the others, the journal is *)
(* empty until it seeds it, and it seeds what it has made.                 *)
UpgradeOnItsWay ==
  /\ upgrade.step \in {"columns", "file"} => journal = {}
  /\ upgrade.step = "file" =>
       /\ upgrade.file \in Baseline
       /\ "auth" \in have => "cols" \in have
       /\ \A i \in MigrationFiles : i < upgrade.file => Makes[i] \subseteq have
  /\ upgrade.step = "seed" =>
       /\ upgrade.file \in Baseline
       /\ \A i \in Baseline : Makes[i] \subseteq have

(* The journal is empty, seeded or complete unless a kill cut the seeding, *)
(* and the context tables are there only when it is complete or an older   *)
(* release made them.                                                      *)
JournalInOneOfThreeStates ==
  /\ upgrade.step = "seed" /\ ~cut => journal = {i \in MigrationFiles : i < upgrade.file}
  /\ upgrade.step # "seed" /\ ~cut => journal \in {{}, Baseline, MigrationFiles}
  /\ 6 \notin journal /\ "ctx" \notin legacy => have \cap Late = {}

MigrationsInv == MigrationsTypeOK /\ UpgradeOnItsWay /\ JournalIsTrue
MigrationsInvLate == MigrationsInv /\ JournalInOneOfThreeStates

-----------------------------------------------------------------------------
(* What each migration file makes (migrations/meta/_journal.json).         *)
LEMMA MakesValues ==
  /\ Makes[0] = {"auth", "cols"} /\ Makes[1] = {"audit"} /\ Makes[2] = {"sched"}
  /\ Makes[3] = {"ctx"} /\ Makes[4] = {"ver"} /\ Makes[5] = {"sig"} /\ Makes[6] = {"dlv"}
BY DEF Makes, MigrationFiles, RoundMorph, HeavySauron, FaultyRocketRacer, AromaticAnnihilus,
       RichNuke, ContextSignature, ContextDeliveryService

LEMMA MakesPieces == \A i \in MigrationFiles : Makes[i] \subseteq Pieces
BY MakesValues DEF MigrationFiles, Pieces

(* An older release that left anything late left the context tables.       *)
LEMMA LegacyValues ==
  ASSUME NEW l \in Legacy
  PROVE  l \subseteq Pieces /\ ("ctx" \notin l => l \cap Late = {})
<1>1. CASE l = {"auth"}
  BY <1>1 DEF Pieces, Late
<1>2. ASSUME NEW i \in MigrationFiles, l = UNION {Makes[j] : j \in 0..i}
      PROVE  l \subseteq Pieces /\ ("ctx" \notin l => l \cap Late = {})
  <2>1. \A j \in 0..i : j \in MigrationFiles
    BY DEF MigrationFiles
  <2>2. l \subseteq Pieces
    BY <1>2, <2>1, MakesPieces
  <2>3. CASE i < 3
    <3>1. \A j \in 0..i : j \in {0, 1, 2}
      BY <2>3 DEF MigrationFiles
    <3>2. \A j \in {0, 1, 2} : Makes[j] \cap Late = {}
      BY MakesValues DEF Late
    <3> QED
      BY <1>2, <2>2, <3>1, <3>2
  <2>4. CASE ~(i < 3)
    <3>1. 3 \in 0..i
      BY <2>4 DEF MigrationFiles
    <3>2. "ctx" \in Makes[3]
      BY MakesValues
    <3> QED
      BY <1>2, <2>2, <3>1, <3>2
  <2> QED
    BY <2>3, <2>4
<1> QED
  BY <1>1, <1>2 DEF Legacy

LEMMA BaselineFiles == Baseline \subseteq MigrationFiles
BY DEF Baseline, MigrationFiles

(* The invariant holds of an empty database.                               *)
LEMMA InvInit == MigrationsInit => MigrationsInvLate
<1> SUFFICES ASSUME MigrationsInit PROVE MigrationsInvLate
  OBVIOUS
<1>1. upgrade.step = "idle" /\ upgrade \in [step : UpgradeSteps, file : MigrationFiles]
  BY DEF MigrationsInit, NotUpgrading, UpgradeSteps, MigrationFiles
<1>2. have = {} /\ journal = {} /\ legacy = {} /\ cut = FALSE
  BY DEF MigrationsInit
<1>3. MigrationsTypeOK /\ UpgradeOnItsWay /\ JournalIsTrue
  BY <1>1, <1>2 DEF MigrationsTypeOK, UpgradeOnItsWay, JournalIsTrue
<1>4. JournalInOneOfThreeStates
  BY <1>1, <1>2 DEF JournalInOneOfThreeStates
<1> QED
  BY <1>3, <1>4 DEF MigrationsInvLate, MigrationsInv

(* Every statement of the three programs keeps the types, the progress of  *)
(* the upgrade and the truth of the journal.                               *)
LEMMA InvStep == MigrationsInv /\ [MigrationsNext]_migrationVars => MigrationsInv'
<1> SUFFICES ASSUME MigrationsInv, [MigrationsNext]_migrationVars
             PROVE  MigrationsInv'
  OBVIOUS
<1> USE DEF MigrationsInv, MigrationsTypeOK, UpgradeOnItsWay, JournalIsTrue
<1>1. CASE OlderRelease
  BY <1>1, LegacyValues DEF OlderRelease, NotUpgrading
<1>2. CASE EnsureAuthTables
  BY <1>2 DEF EnsureAuthTables, Pieces
<1>3. CASE UpgradeBegin
  BY <1>3 DEF UpgradeBegin, Proceed, NotUpgrading, UpgradeSteps, MigrationFiles
<1>4. CASE LegacyColumns
  BY <1>4 DEF LegacyColumns, Proceed, UpgradeSteps, MigrationFiles, Baseline, Pieces
<1>5. CASE LegacyFile
  <2>1. upgrade.file \in {0, 1, 2} /\ upgrade.file \in MigrationFiles
    BY <1>5 DEF LegacyFile, Baseline, MigrationFiles
  <2>2. have \subseteq have' /\ have' \subseteq Pieces
    BY <1>5, <2>1, MakesPieces DEF LegacyFile
  <2>3. Makes[upgrade.file] \subseteq have'
    BY <1>5, <2>1, MakesValues DEF LegacyFile
  <2>4. "auth" \in have' => "cols" \in have'
    BY <1>5, <2>1, MakesValues DEF LegacyFile
  <2>5. \A i \in MigrationFiles : i < upgrade.file + 1 => Makes[i] \subseteq have'
    BY <1>5, <2>1, <2>2, <2>3 DEF LegacyFile, MigrationFiles
  <2>6. \/ upgrade' = [step |-> "file", file |-> upgrade.file + 1] /\ upgrade.file + 1 \in Baseline
        \/ upgrade' = [step |-> "seed", file |-> 0] /\ upgrade.file + 1 \notin Baseline
    BY <1>5 DEF LegacyFile, Proceed
  <2>7. journal' = {} /\ UNCHANGED <<legacy, cut>>
    BY <1>5 DEF LegacyFile
  <2>8. CASE upgrade' = [step |-> "file", file |-> upgrade.file + 1] /\ upgrade.file + 1 \in Baseline
    BY <2>8, <2>1, <2>2, <2>4, <2>5, <2>7 DEF UpgradeSteps, Baseline, MigrationFiles
  <2>9. CASE upgrade' = [step |-> "seed", file |-> 0] /\ upgrade.file + 1 \notin Baseline
    <3>1. \A i \in Baseline : i < upgrade.file + 1 /\ i \in MigrationFiles
      BY <2>1, <2>9 DEF Baseline, MigrationFiles
    <3>2. \A i \in Baseline : Makes[i] \subseteq have'
      BY <3>1, <2>5
    <3> QED
      BY <2>9, <3>2, <2>2, <2>7 DEF UpgradeSteps, Baseline, MigrationFiles
  <2> QED
    BY <2>6, <2>8, <2>9
<1>6. CASE SeedJournal
  <2>1. upgrade.file \in {0, 1, 2} /\ upgrade.file \in MigrationFiles
    BY <1>6 DEF SeedJournal, Baseline, MigrationFiles
  <2>2. (\A i \in Baseline : Makes[i] \subseteq have) /\ UNCHANGED <<have, legacy, cut>>
    BY <1>6 DEF SeedJournal
  <2>3. journal' = journal \cup {upgrade.file} /\ Makes[upgrade.file] \subseteq have'
    BY <1>6, <2>2 DEF SeedJournal
  <2>4. \/ upgrade' = [step |-> "seed", file |-> upgrade.file + 1] /\ upgrade.file + 1 \in Baseline
        \/ upgrade' = [step |-> "drizzle", file |-> 0]
    BY <1>6 DEF SeedJournal, Proceed
  <2>5. upgrade' \in [step : UpgradeSteps, file : MigrationFiles]
    BY <2>1, <2>4 DEF UpgradeSteps, Baseline, MigrationFiles
  <2>6. JournalIsTrue' /\ journal' \subseteq MigrationFiles
    BY <2>1, <2>2, <2>3
  <2>7. UpgradeOnItsWay'
    BY <2>2, <2>4
  <2> QED
    BY <2>2, <2>5, <2>6, <2>7
<1>7. CASE Drizzle
  <2>1. Due \subseteq MigrationFiles /\ (\A i \in Due : Makes[i] \subseteq Pieces)
    BY MakesPieces DEF Due
  <2>2. CASE Clashes
    <3>1. UNCHANGED <<have, journal, legacy, cut>> /\ upgrade' = NotUpgrading
      BY <1>7, <2>2 DEF Drizzle
    <3>2. upgrade' \in [step : UpgradeSteps, file : MigrationFiles] /\ upgrade'.step = "idle"
      BY <3>1 DEF NotUpgrading, UpgradeSteps, MigrationFiles
    <3> QED
      BY <3>1, <3>2
  <2>3. CASE ~Clashes
    <3>1. have \subseteq have' /\ (\A i \in Due : Makes[i] \subseteq have')
      BY <1>7, <2>3 DEF Drizzle
    <3>2. have' \subseteq Pieces
      BY <1>7, <2>1, <2>3 DEF Drizzle
    <3>3. journal' = journal \cup Due /\ upgrade' = NotUpgrading /\ UNCHANGED <<legacy, cut>>
      BY <1>7, <2>3 DEF Drizzle
    <3> QED
      <4>1. upgrade' \in [step : UpgradeSteps, file : MigrationFiles] /\ upgrade'.step = "idle"
        BY <3>3 DEF NotUpgrading, UpgradeSteps, MigrationFiles
      <4>2. journal' \subseteq MigrationFiles /\ JournalIsTrue'
        BY <2>1, <3>1, <3>3
      <4> QED
        BY <3>2, <3>3, <4>1, <4>2
  <2> QED
    BY <2>2, <2>3
<1>8. CASE KillUpgrade
  BY <1>8 DEF KillUpgrade, NotUpgrading, UpgradeSteps, MigrationFiles
<1>9. CASE UNCHANGED migrationVars
  BY <1>9 DEF migrationVars
<1> QED
  BY <1>1, <1>2, <1>3, <1>4, <1>5, <1>6, <1>7, <1>8, <1>9 DEF MigrationsNext

(* No state of the schema, and no kill, brings the upgrade to a step or a  *)
(* file that does not exist (MigrationsTypeOK).                            *)
THEOREM UpgradeTyped == MigrationsSpec => []MigrationsTypeOK
<1>1. MigrationsInit => MigrationsInv
  BY InvInit DEF MigrationsInvLate
<1>2. MigrationsInv => MigrationsTypeOK
  BY DEF MigrationsInv
<1> QED
  BY <1>1, <1>2, InvStep, PTL DEF MigrationsSpec

(* Whatever the journal names is in the database: runMigrations marks no   *)
(* migration as applied that is not, whoever made the tables it meets and  *)
(* wherever earlier runs were killed.                                      *)
THEOREM JournalNeverLies == MigrationsSpec => []JournalIsTrue
<1>1. MigrationsInit => MigrationsInv
  BY InvInit DEF MigrationsInvLate
<1>2. MigrationsInv => JournalIsTrue
  BY DEF MigrationsInv
<1> QED
  BY <1>1, <1>2, InvStep, PTL DEF MigrationsSpec

-----------------------------------------------------------------------------
(* A migration newer than a journal with the baseline makes context tables *)
(* only, and none when the journal is complete.                            *)
LEMMA DueIsLate ==
  ASSUME MigrationsTypeOK, Baseline \subseteq journal
  PROVE  /\ \A i \in Due : Makes[i] \subseteq Late
         /\ 6 \in journal => Due = {}
<1>1. \A i \in Due : i \in {3, 4, 5, 6}
  BY DEF Due, Baseline, MigrationFiles
<1>2. \A i \in {3, 4, 5, 6} : Makes[i] \subseteq Late
  BY MakesValues DEF Late
<1>3. 6 \in journal => Due = {}
  BY DEF Due, MigrationFiles
<1> QED
  BY <1>1, <1>2, <1>3

(* The journal stays empty, seeded or complete.                            *)
LEMMA LateStep ==
  MigrationsInvLate /\ [MigrationsNext]_migrationVars => JournalInOneOfThreeStates'
<1> SUFFICES ASSUME MigrationsInvLate, [MigrationsNext]_migrationVars
             PROVE  JournalInOneOfThreeStates'
  OBVIOUS
<1> USE DEF MigrationsInvLate, MigrationsInv, MigrationsTypeOK, UpgradeOnItsWay,
   JournalInOneOfThreeStates
<1>1. CASE OlderRelease
  BY <1>1, LegacyValues DEF OlderRelease, NotUpgrading
<1>2. CASE EnsureAuthTables
  BY <1>2 DEF EnsureAuthTables, Late
<1>3. CASE UpgradeBegin
  BY <1>3 DEF UpgradeBegin, Proceed, NotUpgrading
<1>4. CASE LegacyColumns
  BY <1>4 DEF LegacyColumns, Proceed, Late
<1>5. CASE LegacyFile
  <2>1. upgrade.file \in {0, 1, 2}
    BY <1>5 DEF LegacyFile, Baseline
  <2>2. Makes[upgrade.file] \cap Late = {}
    BY <2>1, MakesValues DEF Late
  <2>3. have' \cap Late = have \cap Late
    BY <1>5, <2>2 DEF LegacyFile
  <2>4. upgrade'.step = "file" \/ (upgrade'.step = "seed" /\ upgrade'.file = 0)
    BY <1>5 DEF LegacyFile, Proceed
  <2>5. /\ journal' = {} /\ journal = {} /\ {i \in MigrationFiles : i < 0} = {}
        /\ UNCHANGED <<legacy, cut>>
    BY <1>5 DEF LegacyFile, MigrationFiles
  <2>6. upgrade'.step = "seed" => journal' = {i \in MigrationFiles : i < upgrade'.file}
    BY <2>4, <2>5
  <2> QED
    BY <2>3, <2>5, <2>6
<1>6. CASE SeedJournal
  <2>1. upgrade.file \in {0, 1, 2} /\ 6 # upgrade.file
    BY <1>6 DEF SeedJournal, Baseline
  <2>2. journal' = journal \cup {upgrade.file} /\ UNCHANGED <<have, legacy, cut>>
    BY <1>6 DEF SeedJournal
  <2>3. ~cut => journal' = {i \in MigrationFiles : i < upgrade.file + 1}
    BY <1>6, <2>1, <2>2 DEF SeedJournal, MigrationFiles
  <2>4. \/ upgrade' = [step |-> "seed", file |-> upgrade.file + 1] /\ upgrade.file + 1 \in Baseline
        \/ upgrade' = [step |-> "drizzle", file |-> 0] /\ upgrade.file + 1 \notin Baseline
    BY <1>6 DEF SeedJournal, Proceed
  <2>5. upgrade.file + 1 \notin Baseline => upgrade.file = 2
    BY <2>1 DEF Baseline
  <2>6. upgrade.file = 2 /\ ~cut => journal' = Baseline
    BY <2>3 DEF Baseline, MigrationFiles
  <2>7. CASE upgrade' = [step |-> "seed", file |-> upgrade.file + 1] /\ upgrade.file + 1 \in Baseline
    <3>1. upgrade'.step = "seed" /\ upgrade'.file = upgrade.file + 1
      BY <2>7
    <3> QED
      BY <2>1, <2>2, <2>3, <3>1
  <2>8. CASE upgrade' = [step |-> "drizzle", file |-> 0] /\ upgrade.file + 1 \notin Baseline
    <3>1. upgrade'.step = "drizzle" /\ upgrade.file = 2
      BY <2>5, <2>8
    <3> QED
      BY <2>1, <2>2, <2>6, <3>1
  <2> QED
    BY <2>4, <2>7, <2>8
<1>7. CASE Drizzle
  <2>1. upgrade'.step # "seed" /\ UNCHANGED <<legacy, cut>>
    BY <1>7 DEF Drizzle, NotUpgrading
  <2>2. CASE Clashes
    BY <1>7, <2>1, <2>2 DEF Drizzle
  <2>3. CASE ~Clashes
    <3>1. journal' = journal \cup Due /\ have' = have \cup UNION {Makes[i] : i \in Due}
      BY <1>7, <2>3 DEF Drizzle
    <3>2. 6 \in journal'
      BY <3>1 DEF Due, MigrationFiles
    <3>3. journal \in {{}, Baseline, MigrationFiles} => journal' = MigrationFiles
      <4>1. CASE journal = {}
        BY <3>1, <4>1 DEF Due
      <4>2. CASE journal = Baseline
        BY <3>1, <4>2 DEF Due, Baseline, MigrationFiles
      <4>3. CASE journal = MigrationFiles
        BY <3>1, <4>3 DEF Due
      <4> QED
        BY <4>1, <4>2, <4>3
    <3> QED
      BY <1>7, <2>1, <3>1, <3>2, <3>3 DEF Drizzle
  <2> QED
    BY <2>2, <2>3
<1>8. CASE KillUpgrade
  BY <1>8 DEF KillUpgrade, NotUpgrading
<1>9. CASE UNCHANGED migrationVars
  BY <1>9 DEF migrationVars
<1> QED
  BY <1>1, <1>2, <1>3, <1>4, <1>5, <1>6, <1>7, <1>8, <1>9 DEF MigrationsNext

(* An upgrade gets through: unless a kill cut the seeding of the journal,  *)
(* or the database had context tables without a journal, drizzle never     *)
(* meets a due migration whose tables exist; and in the latter case the    *)
(* journal has the baseline, so the clash is with the context tables.      *)
THEOREM UpgradeNeverClashes == MigrationsSpec => []UpgradeGetsThrough
<1>1. MigrationsInvLate => UpgradeGetsThrough
  <2> SUFFICES ASSUME MigrationsInvLate, journal # {}, Clashes, ~cut, upgrade.step # "seed"
               PROVE  "ctx" \in legacy /\ journal = Baseline
    BY DEF UpgradeGetsThrough
  <2>1. journal \in {Baseline, MigrationFiles} /\ MigrationsTypeOK
    BY DEF MigrationsInvLate, MigrationsInv, JournalInOneOfThreeStates
  <2>2. Baseline \subseteq journal
    BY <2>1, BaselineFiles
  <2>3. (\A i \in Due : Makes[i] \subseteq Late) /\ (6 \in journal => Due = {})
    BY <2>1, <2>2, DueIsLate
  <2>4. 6 \notin journal /\ have \cap Late # {}
    BY <2>3 DEF Clashes
  <2>5. "ctx" \in legacy
    BY <2>4 DEF MigrationsInvLate, JournalInOneOfThreeStates
  <2> QED
    BY <2>1, <2>4, <2>5 DEF MigrationFiles
<1>2. MigrationsInvLate /\ [MigrationsNext]_migrationVars => MigrationsInvLate'
  BY InvStep, LateStep DEF MigrationsInvLate
<1> QED
  BY <1>1, <1>2, InvInit, PTL DEF MigrationsSpec
=============================================================================
