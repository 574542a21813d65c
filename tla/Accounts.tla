-------------------------------- MODULE Accounts -------------------------------
(***************************************************************************)
(* Accounts, roles and sessions                                            *)
(* (apps/api/src/services/user.service.ts, external-account.service.ts,    *)
(* role.service.ts and auth.service.ts).                                   *)
(*                                                                         *)
(* Requests run side by side.  Each reads what it checks without a lock,   *)
(* then writes in a READ COMMITTED transaction: a written account row is   *)
(* locked until the end and seen by nobody else, the system role row is    *)
(* locked FOR UPDATE to count the administrators, and a row that refers to *)
(* a role keeps that role locked FOR KEY SHARE.  No request that holds the *)
(* system role goes on to lock an account, so nobody waits in a circle,    *)
(* and a write may take its two locks at once.                             *)
(*                                                                         *)
(* Abstracted: names, permissions other than those of the two fixed roles, *)
(* and a password, which is the number of times it was changed.  A session *)
(* that has run out is one that has ended.                                 *)
(***************************************************************************)
EXTENDS Naturals, FiniteSets

CONSTANTS
  Users,        \* accounts there may ever be
  FirstAdmins,  \* the administrators there are at first
  CustomRoles,  \* roles staff may create and delete
  Admin,        \* the system role
  External,     \* the role of external accounts
  Requests,     \* requests served at once
  Tokens,       \* session tokens
  MaxRequests,  \* bound: requests begun
  None          \* no such account, role or session

ASSUME ConstantsAssumption ==
  /\ FirstAdmins \subseteq Users /\ FirstAdmins # {}
  /\ Admin # External /\ {Admin, External} \cap CustomRoles = {}
  /\ None \notin Users \union CustomRoles \union {Admin, External} \union Tokens
  /\ None \notin [user : Users, password : Nat]
  /\ MaxRequests \in Nat

VARIABLES
  account,  \* users, as committed
  roles,    \* the custom roles, as committed
  session,  \* sessions, as committed
  request,  \* what each request has read and written
  begun     \* requests begun so far

vars == <<account, roles, session, request, begun>>

-----------------------------------------------------------------------------

AllRoles == CustomRoles \union {Admin, External}

Account == [role : AllRoles \union {None}, active : BOOLEAN, password : Nat]

NoAccount == [role |-> None, active |-> FALSE, password |-> 0]

\* A session and, for the properties, the password that the account had, or
\* was being given, when the session came to be or was last confirmed.
Session == [user : Users, password : Nat] \union {None}

Request ==
  [op : {"none", "set", "assign", "reset", "change", "create", "login", "delete"},
   pc : {"idle", "read", "written", "guarded", "counted", "swept"},
   user : Users \union {None},
   active : BOOLEAN,                \* for "set"
   role : AllRoles \union {None},   \* for "assign", "create" and "delete"
   token : Tokens \union {None},    \* for "change": the session of the caller
   row : Account,                   \* the account, as read, then as written
   doomed : SUBSET Tokens]          \* sessions deleted but not yet committed

Idle == [op |-> "none", pc |-> "idle", user |-> None, active |-> FALSE, role |-> None,
         token |-> None, row |-> NoAccount, doomed |-> {}]

Init ==
  /\ account = [u \in Users |->
                  IF u \in FirstAdmins
                  THEN [role |-> Admin, active |-> TRUE, password |-> 0]
                  ELSE NoAccount]
  /\ roles = CustomRoles
  /\ session = [t \in Tokens |-> None]
  /\ request = [q \in Requests |-> Idle]
  /\ begun = 0

Exists(u) == account[u].role # None

RoleRows == roles \union {Admin, External}

\* validateSession
Valid(t) == session[t] # None /\ account[session[t].user].active

-----------------------------------------------------------------------------
(* Locks. *)

InTransaction(q) == request[q].pc \in {"written", "guarded", "counted", "swept"}

RowFree(u) == ~\E q \in Requests : InTransaction(q) /\ request[q].user = u

\* Only what takes an administrator away counts those who are left.
Guards(q) ==
  \/ request[q].op = "set" /\ ~request[q].active /\ request[q].row.role = Admin
  \/ request[q].op = "assign" /\ request[q].role # Admin

HoldsSystemRole(q) == Guards(q) /\ request[q].pc \in {"guarded", "counted", "swept"}

\* FOR KEY SHARE on role r, taken by the foreign key of a written row.
RefersTo(q, r) == InTransaction(q) /\ request[q].op = "assign" /\ request[q].role = r

-----------------------------------------------------------------------------
(* What a request checks first. *)

Begin(q, op, u, active, r, t, row) ==
  /\ request[q].pc = "idle" /\ begun < MaxRequests
  /\ begun' = begun + 1
  /\ request' = [request EXCEPT ![q] =
       [op |-> op, pc |-> "read", user |-> u, active |-> active, role |-> r,
        token |-> t, row |-> row, doomed |-> {}]]
  /\ UNCHANGED <<account, roles, session>>

\* setUserActive, setExternalAccountActive: nobody disables himself.
BeginSet(q, t, u, active) ==
  /\ Valid(t) /\ Exists(u)
  /\ session[t].user = u => active
  /\ Begin(q, "set", u, active, None, None, account[u])

\* assignUserRole: internal accounts and roles only.
BeginAssign(q, u, r) ==
  /\ Exists(u) /\ account[u].role # External
  /\ r \in RoleRows \ {External}
  /\ Begin(q, "assign", u, FALSE, r, None, account[u])

\* updateUser, updateExternalAccount with a new password.
BeginReset(q, u) ==
  /\ Exists(u)
  /\ Begin(q, "reset", u, FALSE, None, None, account[u])

\* changeOwnPassword, the old password being right.
BeginChange(q, t) ==
  /\ Valid(t)
  /\ Begin(q, "change", session[t].user, FALSE, None, t, account[session[t].user])

\* createUser, createExternalAccount.
BeginCreate(q, u, r) ==
  /\ ~Exists(u) /\ r \in RoleRows
  /\ Begin(q, "create", u, FALSE, r, None, NoAccount)

\* authenticate, the password being right.
BeginLogin(q, u) ==
  /\ Exists(u) /\ account[u].active
  /\ Begin(q, "login", u, FALSE, None, None, account[u])

Holders(r) == {u \in Users : account[u].role = r}

\* deleteRole: a custom role that nobody has.
BeginDelete(q, r) ==
  /\ r \in roles /\ Holders(r) = {}
  /\ Begin(q, "delete", None, FALSE, r, None, NoAccount)

-----------------------------------------------------------------------------
(* The transaction that changes an account. *)

\* Faulty variant: the row read by the check is written back.
UpdatedAsRead(q) ==
  LET r == request[q] IN
  CASE r.op = "set"    -> [r.row EXCEPT !.active = r.active]
    [] r.op = "assign" -> [r.row EXCEPT !.role = r.role]
    [] OTHER           -> [r.row EXCEPT !.password = @ + 1]

\* The UPDATE finds the row as committed and sets its own column.
Updated(q) ==
  LET r == request[q] IN
  CASE r.op = "set"    -> [account[r.user] EXCEPT !.active = r.active]
    [] r.op = "assign" -> [account[r.user] EXCEPT !.role = r.role]
    [] OTHER           -> [account[r.user] EXCEPT !.password = @ + 1]

\* tx.user.update waits for the row, and for a role to refer to.
Write(q) ==
  /\ request[q].pc = "read" /\ request[q].op \in {"set", "assign", "reset", "change"}
  /\ RowFree(request[q].user)
  /\ request[q].op = "assign" =>
       /\ request[q].role \in RoleRows
       /\ request[q].role = Admin => ~\E p \in Requests : HoldsSystemRole(p)
  /\ request' = [request EXCEPT ![q].pc = "written", ![q].row = Updated(q)]
  /\ UNCHANGED <<account, roles, session, begun>>

\* Faulty variant: the administrators are counted without a lock.
SystemRoleFreeAlways(q) == q \in Requests

SystemRoleFree(q) ==
  \A p \in Requests \ {q} : ~HoldsSystemRole(p) /\ ~RefersTo(p, Admin)

\* assertEnabledAdminRemains: SELECT ... FOR UPDATE, ...
Guard(q) ==
  /\ request[q].pc = "written" /\ Guards(q)
  /\ SystemRoleFree(q)
  /\ request' = [request EXCEPT ![q].pc = "guarded"]
  /\ UNCHANGED <<account, roles, session, begun>>

EnabledAdmin(a) == a.active /\ a.role = Admin

\* What request q sees of account u.
Seen(q, u) == IF InTransaction(q) /\ request[q].user = u THEN request[q].row ELSE account[u]

\* ... then the count, which rolls back when nobody is left.
Count(q) ==
  /\ request[q].pc = "guarded"
  /\ IF \E u \in Users : EnabledAdmin(Seen(q, u))
     THEN request' = [request EXCEPT ![q].pc = "counted"]
     ELSE request' = [request EXCEPT ![q] = Idle]
  /\ UNCHANGED <<account, roles, session, begun>>

Sweeps(q) ==
  \/ request[q].op \in {"reset", "change"}
  \/ request[q].op = "set" /\ ~request[q].active

\* Faulty variant: only a disabled account loses its sessions.
DoomedWhenDisabled(q) ==
  {t \in Tokens : /\ request[q].op = "set" /\ session[t] # None
                  /\ session[t].user = request[q].user}

\* The sessions deleted: all of the account, but for the one of a caller who
\* changes his own password.
Doomed(q) ==
  {t \in Tokens \ {request[q].token} :
     session[t] # None /\ session[t].user = request[q].user}

\* tx.session.deleteMany
Sweep(q) ==
  /\ Sweeps(q)
  /\ request[q].pc = IF Guards(q) THEN "counted" ELSE "written"
  /\ request' = [request EXCEPT ![q].pc = "swept", ![q].doomed = Doomed(q)]
  /\ UNCHANGED <<account, roles, session, begun>>

Commit(q) ==
  /\ request[q].pc = IF Sweeps(q) THEN "swept"
                     ELSE IF Guards(q) THEN "counted" ELSE "written"
  /\ account' = [account EXCEPT ![request[q].user] = request[q].row]
  /\ session' = [t \in Tokens |->
                   IF t \in request[q].doomed THEN None
                   ELSE IF t = request[q].token /\ session[t] # None
                   THEN [session[t] EXCEPT !.password = request[q].row.password]
                   ELSE session[t]]
  /\ request' = [request EXCEPT ![q] = Idle]
  /\ UNCHANGED <<roles, begun>>

-----------------------------------------------------------------------------
(* Single statements. *)

Finish(q) == request' = [request EXCEPT ![q] = Idle]

NewAccount(r) == [role |-> r, active |-> TRUE, password |-> 0]

\* user.create, refused when the name is taken by now.
CreateAccount(q) ==
  /\ request[q].pc = "read" /\ request[q].op = "create"
  /\ request[q].role \in RoleRows /\ ~Exists(request[q].user)
  /\ request[q].role = Admin => ~\E p \in Requests : HoldsSystemRole(p)
  /\ account' = [account EXCEPT ![request[q].user] = NewAccount(request[q].role)]
  /\ Finish(q)
  /\ UNCHANGED <<roles, session, begun>>

\* The password that account u has, or is being given by a request that has
\* deleted its sessions already.
PasswordFor(u) ==
  IF \E p \in Requests : request[p].pc = "swept" /\ request[p].user = u
  THEN request[CHOOSE p \in Requests :
                 request[p].pc = "swept" /\ request[p].user = u].row.password
  ELSE account[u].password

\* createSession, under a token that nobody has had.
CreateSession(q) ==
  /\ request[q].pc = "read" /\ request[q].op = "login"
  /\ \E t \in Tokens :
       /\ session[t] = None /\ \A p \in Requests : request[p].token # t
       /\ session' = [session EXCEPT ![t] =
            [user |-> request[q].user, password |-> PasswordFor(request[q].user)]]
  /\ Finish(q)
  /\ UNCHANGED <<account, roles, begun>>

\* Faulty variant: the role is deleted on the strength of the count.
RestrictedNever(r) == r \notin AllRoles

\* ON DELETE RESTRICT
Restricted(r) == Holders(r) # {}

\* role.delete
DeleteRole(q) ==
  /\ request[q].pc = "read" /\ request[q].op = "delete"
  /\ ~\E p \in Requests : RefersTo(p, request[q].role)
  /\ request[q].role \in roles /\ ~Restricted(request[q].role)
  /\ roles' = roles \ {request[q].role}
  /\ Finish(q)
  /\ UNCHANGED <<account, session, begun>>

\* A statement that the database refuses: the role or the name is not there
\* to be had any more.
Refuse(q) ==
  /\ request[q].pc = "read"
  /\ \/ request[q].op \in {"assign", "create"} /\ request[q].role \notin RoleRows
     \/ request[q].op = "create" /\ Exists(request[q].user)
     \/ /\ request[q].op = "delete"
        /\ ~\E p \in Requests : RefersTo(p, request[q].role)
        /\ request[q].role \notin roles \/ Restricted(request[q].role)
  /\ Finish(q)
  /\ UNCHANGED <<account, roles, session, begun>>

\* createRole
CreateRole(r) ==
  /\ r \notin roles
  /\ roles' = roles \union {r}
  /\ UNCHANGED <<account, session, request, begun>>

\* deleteSession, cleanupExpiredSessions: waits for who has deleted it already.
EndSession(t) ==
  /\ session[t] # None
  /\ ~\E q \in Requests : t \in request[q].doomed
  /\ session' = [session EXCEPT ![t] = None]
  /\ UNCHANGED <<account, roles, request, begun>>

\* The process or its connection breaks: what was written is rolled back.
Abort(q) ==
  /\ InTransaction(q)
  /\ Finish(q)
  /\ UNCHANGED <<account, roles, session, begun>>

-----------------------------------------------------------------------------

Check(q) ==
  \/ \E t \in Tokens, u \in Users, b \in BOOLEAN : BeginSet(q, t, u, b)
  \/ \E u \in Users, r \in AllRoles : BeginAssign(q, u, r) \/ BeginCreate(q, u, r)
  \/ \E u \in Users : BeginReset(q, u) \/ BeginLogin(q, u)
  \/ \E t \in Tokens : BeginChange(q, t)
  \/ \E r \in CustomRoles : BeginDelete(q, r)

Next ==
  \/ \E q \in Requests :
       \/ Check(q)
       \/ Write(q) \/ Guard(q) \/ Count(q) \/ Sweep(q) \/ Commit(q) \/ Abort(q)
       \/ CreateAccount(q) \/ CreateSession(q) \/ DeleteRole(q) \/ Refuse(q)
  \/ \E r \in CustomRoles : CreateRole(r)
  \/ \E t \in Tokens : EndSession(t)

Spec == Init /\ [][Next]_vars

-----------------------------------------------------------------------------
(* Properties. *)

\* Only the deletion of a role is about no account.
Named(r) == r.op \notin {"none", "delete"} => r.user \in Users

TypeOK ==
  /\ account \in [Users -> Account]
  /\ roles \subseteq CustomRoles
  /\ session \in [Tokens -> Session]
  /\ request \in [Requests -> Request]
  /\ begun \in Nat
  /\ \A u \in Users : account[u].active => Exists(u)
  /\ \A q \in Requests : Named(request[q])

\* An enabled administrator remains, whatever disablings and demotions race
\* (user.service.ts assertEnabledAdminRemains: "the system's one hard
\* invariant").
EnabledAdminRemains == \E u \in Users : EnabledAdmin(account[u])

\* Every account has a role that exists: a role is not deleted while it is
\* being given to an account (role.service.ts deleteRole).
RolesOfAccountsExist == \A u \in Users : Exists(u) => account[u].role \in RoleRows

\* No session from before a change of password outlives it, except that of a
\* caller who changed his own: what comes later came from a login that was
\* under way (user.service.ts updateUser, auth.service.ts changeOwnPassword).
SessionsAreOfThePassword ==
  \A t \in Tokens :
    session[t] # None => session[t].password >= account[session[t].user].password

\* No change is lost: a commit changes one column of an account, so that a
\* role is not given with an old password or to an account enabled again.
OneColumnAtATime ==
  [][\A u \in Users :
       Exists(u) => \/ account'[u] = [account[u] EXCEPT !.role = account'[u].role]
                    \/ account'[u] = [account[u] EXCEPT !.active = account'[u].active]
                    \/ account'[u] = [account[u] EXCEPT !.password = account'[u].password]]_vars
=============================================================================
