---------------------------- MODULE AccountsProofs ----------------------------
(* Proofs about Accounts: for any number of accounts, roles, sessions and *)
(* requests at once.                                                      *)
EXTENDS Accounts, TLAPS

-----------------------------------------------------------------------------
(* The inductive invariant. *)

\* A written row is locked.
RowsAreExclusive ==
  \A p, q \in Requests :
    p # q /\ InTransaction(p) /\ InTransaction(q) => request[p].user # request[q].user

\* So is the system role, once it is taken.
SystemRoleIsExclusive ==
  \A p, q \in Requests : p # q => ~(HoldsSystemRole(p) /\ HoldsSystemRole(q))

Changes(q) == request[q].op \in {"set", "assign", "reset", "change"}

\* What the row of a transaction was made from is still what is committed.
RowsAreCurrent ==
  \A q \in Requests :
    /\ InTransaction(q) => Changes(q) /\ request[q].row = Updated(q)
    /\ request[q].pc # "idle" /\ Changes(q) => request[q].user \in Users /\ Exists(request[q].user)
    /\ request[q].pc \in {"guarded", "counted"} => Guards(q)
    /\ request[q].pc = "swept" => Sweeps(q)

Locked == RowsAreExclusive /\ SystemRoleIsExclusive /\ RowsAreCurrent

\* A transaction that counted still sees an administrator.
CountsHold ==
  \A q \in Requests :
    Guards(q) /\ request[q].pc \in {"counted", "swept"} =>
      \E u \in Users : EnabledAdmin(Seen(q, u))

\* A role that a written row refers to is there.
ReferencesHold ==
  \A q \in Requests : InTransaction(q) /\ request[q].op = "assign" => request[q].role \in RoleRows

\* A password change that has swept the sessions has left none that is older.
SweepsHold ==
  \A q \in Requests :
    /\ request[q].token \in Tokens /\ session[request[q].token] # None =>
         session[request[q].token].user = request[q].user
    /\ request[q].pc = "swept" =>
         \A t \in Tokens \ (request[q].doomed \union {request[q].token}) :
           session[t] # None /\ session[t].user = request[q].user =>
             session[t].password >= request[q].row.password

Consistent ==
  /\ TypeOK /\ Locked
  /\ CountsHold /\ EnabledAdminRemains
  /\ ReferencesHold /\ RolesOfAccountsExist
  /\ SweepsHold /\ SessionsAreOfThePassword

-----------------------------------------------------------------------------
(* The steps, as what they do to the requests. *)

Others(q) == \A p \in Requests \ {q} : request'[p] = request[p]

Moved(q, pc, row, doomed) ==
  /\ Others(q)
  /\ request' \in [Requests -> Request]
  /\ request'[q] = [request[q] EXCEPT !.pc = pc, !.row = row, !.doomed = doomed]

\* An updated row is an account row.
LEMMA UpdatedType ==
  ASSUME TypeOK, NEW q \in Requests, request[q].user \in Users
  PROVE  Updated(q) \in Account
<1>1. account[request[q].user] \in Account BY DEF TypeOK
<1>2. request[q] \in Request BY DEF TypeOK
<1>3. CASE request[q].op = "set" BY <1>1, <1>2, <1>3 DEF Updated, Account, Request
<1>4. CASE request[q].op = "assign" BY <1>1, <1>2, <1>4 DEF Updated, Account, Request
<1>5. CASE request[q].op \notin {"set", "assign"} BY <1>1, <1>2, <1>5 DEF Updated, Account, Request
<1> QED BY <1>3, <1>4, <1>5

LEMMA WriteMoves ==
  ASSUME TypeOK, Locked, NEW q \in Requests, Write(q)
  PROVE  /\ Moved(q, "written", Updated(q), request[q].doomed)
         /\ UNCHANGED <<account, roles, session, begun>>
         /\ Changes(q) /\ request[q].user \in Users
<1>1. Changes(q) /\ request[q].user \in Users BY DEF Write, Changes, Locked, RowsAreCurrent
<1>2. Updated(q) \in Account BY <1>1, UpdatedType
<1>3. request[q] \in Request /\ request \in [Requests -> Request] BY DEF TypeOK
<1>4. request' = [request EXCEPT ![q] = [request[q] EXCEPT !.pc = "written", !.row = Updated(q)]]
  BY <1>3 DEF Write
<1>5. [request[q] EXCEPT !.pc = "written", !.row = Updated(q)] \in Request
  BY <1>2, <1>3 DEF Request
<1>6. [request[q] EXCEPT !.pc = "written", !.row = Updated(q)]
        = [request[q] EXCEPT !.pc = "written", !.row = Updated(q), !.doomed = request[q].doomed]
  BY <1>3 DEF Request
<1> QED BY <1>1, <1>3, <1>4, <1>5, <1>6 DEF Moved, Others, Write

LEMMA GuardMoves ==
  ASSUME TypeOK, NEW q \in Requests, Guard(q)
  PROVE  /\ Moved(q, "guarded", request[q].row, request[q].doomed)
         /\ UNCHANGED <<account, roles, session, begun>>
<1>3. request[q] \in Request /\ request \in [Requests -> Request] BY DEF TypeOK
<1>4. request' = [request EXCEPT ![q] = [request[q] EXCEPT !.pc = "guarded"]]
  BY <1>3 DEF Guard
<1>5. [request[q] EXCEPT !.pc = "guarded"] \in Request BY <1>3 DEF Request
<1>6. [request[q] EXCEPT !.pc = "guarded"]
        = [request[q] EXCEPT !.pc = "guarded", !.row = request[q].row, !.doomed = request[q].doomed]
  BY <1>3 DEF Request
<1> QED BY <1>3, <1>4, <1>5, <1>6 DEF Moved, Others, Guard

LEMMA CountMoves ==
  ASSUME TypeOK, NEW q \in Requests, request' = [request EXCEPT ![q].pc = "counted"]
  PROVE  Moved(q, "counted", request[q].row, request[q].doomed)
<1>3. request[q] \in Request /\ request \in [Requests -> Request] BY DEF TypeOK
<1>4. request' = [request EXCEPT ![q] = [request[q] EXCEPT !.pc = "counted"]]
  BY <1>3
<1>5. [request[q] EXCEPT !.pc = "counted"] \in Request BY <1>3 DEF Request
<1>6. [request[q] EXCEPT !.pc = "counted"]
        = [request[q] EXCEPT !.pc = "counted", !.row = request[q].row, !.doomed = request[q].doomed]
  BY <1>3 DEF Request
<1> QED BY <1>3, <1>4, <1>5, <1>6 DEF Moved, Others

LEMMA SweepMoves ==
  ASSUME TypeOK, NEW q \in Requests, Sweep(q)
  PROVE  /\ Moved(q, "swept", request[q].row, Doomed(q))
         /\ UNCHANGED <<account, roles, session, begun>>
<1>1. Doomed(q) \subseteq Tokens BY DEF Doomed
<1>3. request[q] \in Request /\ request \in [Requests -> Request] BY DEF TypeOK
<1>4. request' = [request EXCEPT ![q] = [request[q] EXCEPT !.pc = "swept", !.doomed = Doomed(q)]]
  BY <1>3 DEF Sweep
<1>5. [request[q] EXCEPT !.pc = "swept", !.doomed = Doomed(q)] \in Request
  BY <1>1, <1>3 DEF Request
<1>6. [request[q] EXCEPT !.pc = "swept", !.doomed = Doomed(q)]
        = [request[q] EXCEPT !.pc = "swept", !.row = request[q].row, !.doomed = Doomed(q)]
  BY <1>3 DEF Request
<1> QED BY <1>3, <1>4, <1>5, <1>6 DEF Moved, Others, Sweep

LEMMA FinishMoves ==
  ASSUME TypeOK, NEW q \in Requests, request' = [request EXCEPT ![q] = Idle]
  PROVE  Others(q) /\ request' \in [Requests -> Request] /\ request'[q] = Idle
<1>1. Idle \in Request BY DEF Idle, Request, NoAccount, Account
<1> QED BY <1>1 DEF TypeOK, Others

\* What a request has read when it begins.
Fresh(r) ==
  /\ r \in Request /\ Named(r) /\ r.pc = "read"
  /\ r.op \in {"set", "assign", "reset", "change"} => r.user \in Users /\ Exists(r.user)
  /\ r.token \in Tokens => session[r.token] # None /\ session[r.token].user = r.user

\* A request begins with its checks done and nothing written.
LEMMA CheckMoves ==
  ASSUME TypeOK, NEW q \in Requests, Check(q)
  PROVE  /\ Others(q) /\ request' \in [Requests -> Request]
         /\ UNCHANGED <<account, roles, session>> /\ begun' \in Nat
         /\ \E r : Fresh(r) /\ request'[q] = r
<1>1. None \notin Tokens BY ConstantsAssumption
<1>2. \A u \in Users : account[u] \in Account BY DEF TypeOK
<1>3. NoAccount \in Account BY DEF NoAccount, Account
<1> DEFINE Goal ==
      \E op, u, active, r, t, row :
        /\ Fresh([op |-> op, pc |-> "read", user |-> u, active |-> active, role |-> r,
                  token |-> t, row |-> row, doomed |-> {}])
        /\ Begin(q, op, u, active, r, t, row)
<1>4. ASSUME NEW t \in Tokens, NEW u \in Users, NEW b \in BOOLEAN, BeginSet(q, t, u, b)
      PROVE  Goal
  <2> DEFINE r0 == [op |-> "set", pc |-> "read", user |-> u, active |-> b, role |-> None,
                    token |-> None, row |-> account[u], doomed |-> {}]
  <2>1. Begin(q, "set", u, b, None, None, account[u]) BY <1>4 DEF BeginSet
  <2>2. Exists(u) BY <1>4 DEF BeginSet
  <2>3. r0 \in Request BY <1>2, <1>3 DEF Request, AllRoles
  <2>4. Fresh(r0) BY <1>1, <2>2, <2>3 DEF Fresh, Named
  <2> QED BY <2>1, <2>4
<1>5. ASSUME NEW u \in Users, NEW r \in AllRoles, BeginAssign(q, u, r)
      PROVE  Goal
  <2> DEFINE r0 == [op |-> "assign", pc |-> "read", user |-> u, active |-> FALSE, role |-> r,
                    token |-> None, row |-> account[u], doomed |-> {}]
  <2>1. Begin(q, "assign", u, FALSE, r, None, account[u]) BY <1>5 DEF BeginAssign
  <2>2. Exists(u) BY <1>5 DEF BeginAssign
  <2>3. r0 \in Request BY <1>2, <1>3 DEF Request, AllRoles
  <2>4. Fresh(r0) BY <1>1, <2>2, <2>3 DEF Fresh, Named
  <2> QED BY <2>1, <2>4
<1>6. ASSUME NEW u \in Users, NEW r \in AllRoles, BeginCreate(q, u, r)
      PROVE  Goal
  <2> DEFINE r0 == [op |-> "create", pc |-> "read", user |-> u, active |-> FALSE, role |-> r,
                    token |-> None, row |-> NoAccount, doomed |-> {}]
  <2>1. Begin(q, "create", u, FALSE, r, None, NoAccount) BY <1>6 DEF BeginCreate
  <2>3. r0 \in Request BY <1>2, <1>3 DEF Request, AllRoles
  <2>4. Fresh(r0) BY <1>1, <2>3 DEF Fresh, Named
  <2> QED BY <2>1, <2>4
<1>7. ASSUME NEW u \in Users, BeginReset(q, u)
      PROVE  Goal
  <2> DEFINE r0 == [op |-> "reset", pc |-> "read", user |-> u, active |-> FALSE, role |-> None,
                    token |-> None, row |-> account[u], doomed |-> {}]
  <2>1. Begin(q, "reset", u, FALSE, None, None, account[u]) BY <1>7 DEF BeginReset
  <2>2. Exists(u) BY <1>7 DEF BeginReset
  <2>3. r0 \in Request BY <1>2, <1>3 DEF Request, AllRoles
  <2>4. Fresh(r0) BY <1>1, <2>2, <2>3 DEF Fresh, Named
  <2> QED BY <2>1, <2>4
<1>8. ASSUME NEW u \in Users, BeginLogin(q, u)
      PROVE  Goal
  <2> DEFINE r0 == [op |-> "login", pc |-> "read", user |-> u, active |-> FALSE, role |-> None,
                    token |-> None, row |-> account[u], doomed |-> {}]
  <2>1. Begin(q, "login", u, FALSE, None, None, account[u]) BY <1>8 DEF BeginLogin
  <2>3. r0 \in Request BY <1>2, <1>3 DEF Request, AllRoles
  <2>4. Fresh(r0) BY <1>1, <2>3 DEF Fresh, Named
  <2> QED BY <2>1, <2>4
<1>9. ASSUME NEW t \in Tokens, BeginChange(q, t)
      PROVE  Goal
  <2> DEFINE r0 == [op |-> "change", pc |-> "read", user |-> session[t].user, active |-> FALSE, role |-> None,
                    token |-> t, row |-> account[session[t].user], doomed |-> {}]
  <2>1. Begin(q, "change", session[t].user, FALSE, None, t, account[session[t].user]) BY <1>9 DEF BeginChange
  <2>2. session[t] # None /\ session[t].user \in Users /\ account[session[t].user].active
    BY <1>9 DEF BeginChange, Valid, TypeOK, Session
  <2>3. Exists(session[t].user) BY <2>2 DEF TypeOK
  <2>4. r0 \in Request BY <1>2, <2>2 DEF Request
  <2>5. Fresh(r0) BY <2>2, <2>3, <2>4 DEF Fresh, Named
  <2> QED BY <2>1, <2>5
<1>10. ASSUME NEW r \in CustomRoles, BeginDelete(q, r)
      PROVE  Goal
  <2> DEFINE r0 == [op |-> "delete", pc |-> "read", user |-> None, active |-> FALSE, role |-> r,
                    token |-> None, row |-> NoAccount, doomed |-> {}]
  <2>1. Begin(q, "delete", None, FALSE, r, None, NoAccount) BY <1>10 DEF BeginDelete
  <2>3. r0 \in Request BY <1>2, <1>3 DEF Request, AllRoles
  <2>4. Fresh(r0) BY <1>1, <2>3 DEF Fresh, Named
  <2> QED BY <2>1, <2>4
<1>11. Goal BY <1>4, <1>5, <1>6, <1>7, <1>8, <1>9, <1>10 DEF Check
<1>12. PICK op, u, active, r, t, row :
        /\ Fresh([op |-> op, pc |-> "read", user |-> u, active |-> active, role |-> r,
                  token |-> t, row |-> row, doomed |-> {}])
        /\ Begin(q, op, u, active, r, t, row)
  BY <1>11
<1> QED BY <1>12 DEF Begin, Fresh, TypeOK, Others

-----------------------------------------------------------------------------
(* What one request does leaves the others as they are. *)

LEMMA OthersKept ==
  ASSUME NEW q \in Requests, Others(q), NEW p \in Requests \ {q}
  PROVE  /\ InTransaction(p)' <=> InTransaction(p)
         /\ Guards(p)' <=> Guards(p)
         /\ HoldsSystemRole(p)' <=> HoldsSystemRole(p)
         /\ Sweeps(p)' <=> Sweeps(p)
         /\ Changes(p)' <=> Changes(p)
         /\ request'[p] = request[p]
BY DEF Others, InTransaction, Guards, HoldsSystemRole, Sweeps, Changes

LEMMA OthersSeeTheSame ==
  ASSUME NEW q \in Requests, Others(q), NEW p \in Requests \ {q}, UNCHANGED account
  PROVE  /\ Updated(p)' = Updated(p)
         /\ \A u \in Users : Seen(p, u)' = Seen(p, u)
BY DEF Others, Updated, Seen, InTransaction

\* A step that begins or ends a request and commits nothing.
LEMMA QuietStep ==
  ASSUME Consistent, NEW q \in Requests, Others(q), request' \in [Requests -> Request],
         UNCHANGED <<account, roles, session>>, begun' \in Nat,
         request'[q] = Idle \/ (\E r : Fresh(r) /\ request'[q] = r)
  PROVE  Consistent'
<1> USE DEF Consistent
<1>1. /\ request'[q].pc \in {"idle", "read"}
      /\ request'[q].pc # "idle" /\ Changes(q)' =>
           request'[q].user \in Users /\ Exists(request'[q].user)
      /\ request'[q].token \in Tokens =>
           session[request'[q].token] # None /\ session[request'[q].token].user = request'[q].user
  <2>1. CASE request'[q] = Idle BY <2>1, ConstantsAssumption DEF Idle
  <2>2. CASE \E r : Fresh(r) /\ request'[q] = r BY <2>2 DEF Fresh, Changes
  <2> QED BY <2>1, <2>2
<1>2. ~InTransaction(q)' /\ ~HoldsSystemRole(q)' BY <1>1 DEF InTransaction, HoldsSystemRole
<1>3. TypeOK'
  <2>1. Named(request'[q]) BY DEF Fresh, Idle, Named
  <2> QED BY <2>1 DEF TypeOK, Exists, Others
<1>4. RowsAreExclusive' BY <1>2, OthersKept DEF Locked, RowsAreExclusive
<1>5. SystemRoleIsExclusive' BY <1>2, OthersKept DEF Locked, SystemRoleIsExclusive
<1>6. RowsAreCurrent' BY <1>1, <1>2, OthersKept, OthersSeeTheSame DEF Locked, RowsAreCurrent, Exists
<1>7. CountsHold' BY <1>1, OthersKept, OthersSeeTheSame DEF CountsHold, EnabledAdmin
<1>8. EnabledAdminRemains' BY DEF EnabledAdminRemains, EnabledAdmin
<1>9. ReferencesHold' BY <1>2, OthersKept DEF ReferencesHold, RoleRows
<1>10. RolesOfAccountsExist' BY DEF RolesOfAccountsExist, RoleRows, Exists
<1>11. SweepsHold' BY <1>1, OthersKept DEF SweepsHold
<1>12. SessionsAreOfThePassword' BY DEF SessionsAreOfThePassword
<1> QED BY <1>3, <1>4, <1>5, <1>6, <1>7, <1>8, <1>9, <1>10, <1>11, <1>12 DEF Locked

-----------------------------------------------------------------------------
(* The steps of a transaction. *)

LEMMA WriteStep ==
  ASSUME Consistent, NEW q \in Requests, Write(q)
  PROVE  Consistent'
<1> USE DEF Consistent
<1>0. /\ RowFree(request[q].user) /\ request[q].pc = "read"
      /\ request[q].op = "assign" => request[q].role \in RoleRows
  BY DEF Write
<1>1. /\ Moved(q, "written", Updated(q), request[q].doomed)
      /\ UNCHANGED <<account, roles, session, begun>>
      /\ Changes(q) /\ request[q].user \in Users
  BY WriteMoves
<1>2. Others(q) BY <1>1 DEF Moved
<1>3. /\ request'[q].pc = "written" /\ request'[q].row = Updated(q)
      /\ request'[q].op = request[q].op /\ request'[q].user = request[q].user
      /\ request'[q].role = request[q].role /\ request'[q].token = request[q].token
      /\ request'[q].active = request[q].active
  BY <1>1 DEF Moved, TypeOK, Request
<1>4. InTransaction(q)' /\ ~HoldsSystemRole(q)' /\ Changes(q)'
  BY <1>1, <1>3 DEF InTransaction, HoldsSystemRole, Changes
<1>5. Updated(q)' = Updated(q) BY <1>1, <1>3 DEF Updated
<1>6. TypeOK' BY <1>1, <1>2, <1>3 DEF TypeOK, Moved, Exists, Others, Named
<1>7. RowsAreExclusive'
  <2>1. ASSUME NEW p \in Requests \ {q}, InTransaction(p)'
        PROVE  request'[p].user # request'[q].user
    BY <2>1, <1>0, <1>2, <1>3, OthersKept DEF RowFree
  <2> QED BY <2>1, <1>2, OthersKept DEF Locked, RowsAreExclusive
<1>8. SystemRoleIsExclusive' BY <1>2, <1>4, OthersKept DEF Locked, SystemRoleIsExclusive
<1>9. RowsAreCurrent'
  <2>1. ASSUME NEW p \in Requests
        PROVE  /\ InTransaction(p)' => Changes(p)' /\ request'[p].row = Updated(p)'
               /\ request'[p].pc # "idle" /\ Changes(p)' =>
                    request'[p].user \in Users /\ Exists(request[p].user)'
               /\ request'[p].pc \in {"guarded", "counted"} => Guards(p)'
               /\ request'[p].pc = "swept" => Sweeps(p)'
    <3>1. CASE p = q
      BY <3>1, <1>0, <1>1, <1>3, <1>4, <1>5 DEF Locked, RowsAreCurrent, Exists
    <3>2. CASE p # q
      BY <3>2, <1>1, <1>2, OthersKept, OthersSeeTheSame DEF Locked, RowsAreCurrent, Exists
    <3> QED BY <3>1, <3>2
  <2> QED BY <2>1 DEF RowsAreCurrent
<1>10. CountsHold' BY <1>1, <1>2, <1>3, OthersKept, OthersSeeTheSame DEF CountsHold, EnabledAdmin
<1>11. EnabledAdminRemains' BY <1>1 DEF EnabledAdminRemains, EnabledAdmin
<1>12. ReferencesHold' BY <1>1, <1>2, <1>3, <1>0, OthersKept DEF ReferencesHold, RoleRows
<1>13. RolesOfAccountsExist' BY <1>1 DEF RolesOfAccountsExist, RoleRows, Exists
<1>14. SweepsHold' BY <1>1, <1>2, <1>3, OthersKept DEF SweepsHold
<1>15. SessionsAreOfThePassword' BY <1>1 DEF SessionsAreOfThePassword
<1> QED BY <1>6, <1>7, <1>8, <1>9, <1>10, <1>11, <1>12, <1>13, <1>14, <1>15 DEF Locked

\* A transaction goes on, its row as written.
LEMMA OnwardStep ==
  ASSUME Consistent, NEW q \in Requests, NEW pc \in {"guarded", "counted", "swept"},
         NEW doomed \in SUBSET Tokens,
         Moved(q, pc, request[q].row, doomed),
         UNCHANGED <<account, roles, session, begun>>,
         InTransaction(q),
         pc # "swept" => Guards(q),
         pc = "swept" => Sweeps(q),
         Guards(q) => \A p \in Requests \ {q} : ~HoldsSystemRole(p),
         Guards(q) /\ pc # "guarded" => \E u \in Users : EnabledAdmin(Seen(q, u)),
         pc = "swept" =>
           \A t \in Tokens \ (doomed \union {request[q].token}) :
             session[t] # None /\ session[t].user = request[q].user =>
               session[t].password >= request[q].row.password
  PROVE  Consistent'
<1> USE DEF Consistent
<1>1. Others(q) BY DEF Moved
<1>2. /\ request'[q].pc = pc /\ request'[q].row = request[q].row /\ request'[q].doomed = doomed
      /\ request'[q].op = request[q].op /\ request'[q].user = request[q].user
      /\ request'[q].role = request[q].role /\ request'[q].token = request[q].token
      /\ request'[q].active = request[q].active
  BY DEF Moved, TypeOK, Request
<1>3. /\ InTransaction(q)'
      /\ Changes(q)' <=> Changes(q)
      /\ Guards(q)' <=> Guards(q)
      /\ Sweeps(q)' <=> Sweeps(q)
      /\ HoldsSystemRole(q)' <=> Guards(q)
      /\ Updated(q)' = Updated(q)
      /\ \A u \in Users : Seen(q, u)' = Seen(q, u)
  BY <1>2 DEF InTransaction, Changes, Guards, Sweeps, HoldsSystemRole, Updated, Seen
<1>4. TypeOK' BY <1>1, <1>2, <1>3 DEF TypeOK, Moved, Exists, Others, Named
<1>5. RowsAreExclusive' BY <1>1, <1>2, <1>3, OthersKept DEF Locked, RowsAreExclusive
<1>6. SystemRoleIsExclusive' BY <1>1, <1>3, OthersKept DEF Locked, SystemRoleIsExclusive
<1>7. RowsAreCurrent'
  <2>1. ASSUME NEW p \in Requests
        PROVE  /\ InTransaction(p)' => Changes(p)' /\ request'[p].row = Updated(p)'
               /\ request'[p].pc # "idle" /\ Changes(p)' =>
                    request'[p].user \in Users /\ Exists(request[p].user)'
               /\ request'[p].pc \in {"guarded", "counted"} => Guards(p)'
               /\ request'[p].pc = "swept" => Sweeps(p)'
    <3>1. CASE p = q
      BY <3>1, <1>2, <1>3 DEF Locked, RowsAreCurrent, Exists, InTransaction
    <3>2. CASE p # q
      BY <3>2, <1>1, OthersKept, OthersSeeTheSame DEF Locked, RowsAreCurrent, Exists
    <3> QED BY <3>1, <3>2
  <2> QED BY <2>1 DEF RowsAreCurrent
<1>8. CountsHold' BY <1>1, <1>2, <1>3, OthersKept, OthersSeeTheSame DEF CountsHold, EnabledAdmin
<1>9. EnabledAdminRemains' BY DEF EnabledAdminRemains, EnabledAdmin
<1>10. ReferencesHold' BY <1>1, <1>2, OthersKept DEF ReferencesHold, RoleRows
<1>11. RolesOfAccountsExist' BY DEF RolesOfAccountsExist, RoleRows, Exists
<1>12. SweepsHold' BY <1>1, <1>2, OthersKept DEF SweepsHold
<1>13. SessionsAreOfThePassword' BY DEF SessionsAreOfThePassword
<1> QED BY <1>4, <1>5, <1>6, <1>7, <1>8, <1>9, <1>10, <1>11, <1>12, <1>13 DEF Locked

LEMMA GuardStep ==
  ASSUME Consistent, NEW q \in Requests, Guard(q)
  PROVE  Consistent'
<1>1. InTransaction(q) /\ Guards(q) /\ \A p \in Requests \ {q} : ~HoldsSystemRole(p)
  BY DEF Guard, SystemRoleFree, InTransaction
<1>2. request[q].doomed \in SUBSET Tokens BY DEF Consistent, TypeOK, Request
<1> QED BY <1>1, <1>2, GuardMoves, OnwardStep DEF Consistent

LEMMA CountStep ==
  ASSUME Consistent, NEW q \in Requests, Count(q)
  PROVE  Consistent'
<1>1. InTransaction(q) /\ Guards(q) /\ HoldsSystemRole(q)
  BY DEF Count, InTransaction, Consistent, Locked, RowsAreCurrent, HoldsSystemRole
<1>2. \A p \in Requests \ {q} : ~HoldsSystemRole(p)
  BY <1>1 DEF Consistent, Locked, SystemRoleIsExclusive
<1>3. request[q].doomed \in SUBSET Tokens BY DEF Consistent, TypeOK, Request
<1>4. UNCHANGED <<account, roles, session, begun>> BY DEF Count
<1>5. CASE \E u \in Users : EnabledAdmin(Seen(q, u))
  <2>1. request' = [request EXCEPT ![q].pc = "counted"] BY <1>5 DEF Count
  <2> QED BY <2>1, <1>1, <1>2, <1>3, <1>4, <1>5, CountMoves, OnwardStep DEF Consistent
<1>6. CASE ~\E u \in Users : EnabledAdmin(Seen(q, u))
  <2>1. request' = [request EXCEPT ![q] = Idle] BY <1>6 DEF Count
  <2> QED BY <2>1, <1>4, FinishMoves, QuietStep DEF Consistent, TypeOK
<1> QED BY <1>5, <1>6

LEMMA SweepStep ==
  ASSUME Consistent, NEW q \in Requests, Sweep(q)
  PROVE  Consistent'
<1>1. InTransaction(q) /\ Sweeps(q) BY DEF Sweep, InTransaction
<1>2. Guards(q) => /\ \E u \in Users : EnabledAdmin(Seen(q, u))
                   /\ \A p \in Requests \ {q} : ~HoldsSystemRole(p)
  BY DEF Sweep, Consistent, CountsHold, Locked, SystemRoleIsExclusive, HoldsSystemRole
<1>3. Doomed(q) \in SUBSET Tokens BY DEF Doomed
<1>4. \A t \in Tokens \ (Doomed(q) \union {request[q].token}) :
        ~(session[t] # None /\ session[t].user = request[q].user)
  BY DEF Doomed
<1> QED BY <1>1, <1>2, <1>3, <1>4, SweepMoves, OnwardStep DEF Consistent

-----------------------------------------------------------------------------
(* The commit. *)

\* What the committed row is, of the account that is locked.
LEMMA RowWritten ==
  ASSUME Consistent, NEW q \in Requests, InTransaction(q)
  PROVE  /\ request[q].user \in Users /\ Exists(request[q].user)
         /\ request[q].row \in Account
         /\ request[q].op = "set" => request[q].row = [account[request[q].user] EXCEPT !.active = request[q].active]
         /\ request[q].op = "assign" => request[q].row = [account[request[q].user] EXCEPT !.role = request[q].role]
         /\ request[q].op \in {"reset", "change"} =>
              request[q].row = [account[request[q].user] EXCEPT !.password = @ + 1]
         /\ request[q].op \in {"set", "assign", "reset", "change"}
BY DEF Consistent, Locked, RowsAreCurrent, Changes, Updated, InTransaction, TypeOK, Request

LEMMA OtherColumns ==
  ASSUME NEW a \in Account, NEW x
  PROVE  /\ [a EXCEPT !.active = x].password = a.password
         /\ [a EXCEPT !.role = x].password = a.password
         /\ [a EXCEPT !.password = x].password = x
BY DEF Account

LEMMA PasswordWritten ==
  ASSUME Consistent, NEW q \in Requests, InTransaction(q)
  PROVE  request[q].row.password = IF request[q].op \in {"reset", "change"}
                                   THEN account[request[q].user].password + 1
                                   ELSE account[request[q].user].password
<1> DEFINE a == account[request[q].user]
<1>1. a \in Account BY RowWritten DEF Consistent, TypeOK
<1>2. CASE request[q].op = "set"
  <2>1. PICK x : request[q].row = [a EXCEPT !.active = x] BY <1>2, RowWritten
  <2> HIDE DEF a
  <2>2. request[q].row.password = a.password BY <1>1, <2>1, OtherColumns
  <2> QED BY <1>2, <2>2 DEF a
<1>3. CASE request[q].op = "assign"
  <2>1. PICK x : request[q].row = [a EXCEPT !.role = x] BY <1>3, RowWritten
  <2> HIDE DEF a
  <2>2. request[q].row.password = a.password BY <1>1, <2>1, OtherColumns
  <2> QED BY <1>3, <2>2 DEF a
<1>4. CASE request[q].op \in {"reset", "change"}
  <2>1. PICK x : x = a.password + 1 /\ request[q].row = [a EXCEPT !.password = x] BY <1>4, RowWritten
  <2> HIDE DEF a
  <2>2. request[q].row.password = x BY <1>1, <2>1, OtherColumns
  <2> QED BY <1>4, <2>1, <2>2 DEF a
<1> QED BY <1>2, <1>3, <1>4, RowWritten

\* Without a count, no administrator is taken away.
LEMMA UncountedKeepsAdmins ==
  ASSUME Consistent, NEW q \in Requests, InTransaction(q), ~Guards(q),
         EnabledAdmin(account[request[q].user])
  PROVE  EnabledAdmin(request[q].row)
<1>1. account[request[q].user] \in Account /\ request[q] \in Request
  BY RowWritten DEF Consistent, TypeOK
<1>2. CASE request[q].op = "set"
  BY ZenonT(60), <1>1, <1>2, RowWritten DEF Guards, EnabledAdmin, Account, Request
<1>3. CASE request[q].op = "assign"
  BY ZenonT(60), <1>1, <1>3, RowWritten DEF Guards, EnabledAdmin, Account, Request
<1>4. CASE request[q].op \in {"reset", "change"}
  BY ZenonT(60), <1>1, <1>4, RowWritten DEF EnabledAdmin, Account
<1> QED BY <1>2, <1>3, <1>4, RowWritten

LEMMA CommitStep ==
  ASSUME Consistent, NEW q \in Requests, Commit(q)
  PROVE  Consistent'
<1> USE DEF Consistent
<1>1. InTransaction(q) BY DEF Commit, InTransaction
<1>2. Others(q) /\ request' \in [Requests -> Request] /\ request'[q] = Idle
  BY FinishMoves DEF Commit
<1>3. ~InTransaction(q)' /\ ~HoldsSystemRole(q)'
  BY <1>2 DEF InTransaction, HoldsSystemRole, Idle
<1>4. /\ account'[request[q].user] = request[q].row
      /\ \A u \in Users \ {request[q].user} : account'[u] = account[u]
      /\ account' \in [Users -> Account]
      /\ roles' = roles /\ begun' = begun
  BY <1>1, RowWritten DEF Commit, TypeOK
<1>5. request[q].row.role # None
  <2>1. account[request[q].user] \in Account /\ request[q] \in Request
    BY <1>1, RowWritten DEF TypeOK
  <2>2. request[q].op = "assign" => request[q].role # None
    BY <1>1, ConstantsAssumption DEF ReferencesHold, RoleRows, TypeOK
  <2> QED BY ZenonT(60), <1>1, <2>1, <2>2, RowWritten DEF Exists, Account
<1>6. \A u \in Users : Exists(u) => Exists(u)' BY <1>4, <1>5 DEF Exists
<1>7. ASSUME NEW p \in Requests \ {q}, InTransaction(p)
      PROVE  request[p].user \in Users /\ request[p].user # request[q].user
             /\ account'[request[p].user] = account[request[p].user]
  BY <1>1, <1>4, <1>7, RowWritten DEF Locked, RowsAreExclusive
<1>8. \A p \in Requests \ {q} : InTransaction(p) => Updated(p)' = Updated(p)
  BY <1>2, <1>7 DEF Updated, Others
<1>9. RowsAreExclusive' BY <1>2, <1>3, OthersKept DEF Locked, RowsAreExclusive
<1>10. SystemRoleIsExclusive' BY <1>2, <1>3, OthersKept DEF Locked, SystemRoleIsExclusive
<1>11. RowsAreCurrent'
  <2>1. ASSUME NEW p \in Requests
        PROVE  /\ InTransaction(p)' => Changes(p)' /\ request'[p].row = Updated(p)'
               /\ request'[p].pc # "idle" /\ Changes(p)' =>
                    request'[p].user \in Users /\ Exists(request[p].user)'
               /\ request'[p].pc \in {"guarded", "counted"} => Guards(p)'
               /\ request'[p].pc = "swept" => Sweeps(p)'
    <3>1. CASE p = q BY <3>1, <1>2, <1>3 DEF Idle
    <3>2. CASE p # q
      <4>1. p \in Requests \ {q} BY <3>2
      <4>2. /\ InTransaction(p)' <=> InTransaction(p)
            /\ Guards(p)' <=> Guards(p)
            /\ Sweeps(p)' <=> Sweeps(p)
            /\ Changes(p)' <=> Changes(p)
            /\ request'[p] = request[p]
        BY <1>2, <4>1, OthersKept
      <4>3. InTransaction(p) => Updated(p)' = Updated(p) BY <1>8, <4>1
      <4>4. request[p].pc # "idle" /\ Changes(p) =>
              request[p].user \in Users /\ Exists(request[p].user)
        BY DEF Locked, RowsAreCurrent
      <4>5. Exists(request[p].user)' <=> account'[request'[p].user].role # None BY DEF Exists
      <4>6. request[p].pc # "idle" /\ Changes(p) => Exists(request[p].user)'
        BY <1>6, <4>2, <4>4, <4>5 DEF Exists
      <4> QED BY <4>2, <4>3, <4>4, <4>6 DEF Locked, RowsAreCurrent
    <3> QED BY <3>1, <3>2
  <2> QED BY <2>1 DEF RowsAreCurrent
<1>12. ASSUME NEW t \in Tokens
       PROVE  /\ session'[t] \in Session
              /\ session'[t] # None =>
                   /\ t \notin request[q].doomed
                   /\ session[t] # None /\ session'[t].user = session[t].user
                   /\ session[t].user \in Users
                   /\ t # request[q].token => session'[t] = session[t]
                   /\ t = request[q].token =>
                        session[t].user = request[q].user /\ session'[t].password = request[q].row.password
  <2>1. session[t] \in Session /\ request[q].row \in Account BY <1>1, RowWritten DEF TypeOK
  <2>2. session'[t] = IF t \in request[q].doomed THEN None
                      ELSE IF t = request[q].token /\ session[t] # None
                      THEN [session[t] EXCEPT !.password = request[q].row.password]
                      ELSE session[t]
    BY DEF Commit
  <2>3. CASE t \in request[q].doomed BY <2>2, <2>3 DEF Session
  <2>4. CASE t \notin request[q].doomed /\ t = request[q].token /\ session[t] # None
    <3>1. session[t] \in [user : Users, password : Nat] BY <2>1, <2>4 DEF Session
    <3>2. session'[t] = [session[t] EXCEPT !.password = request[q].row.password] BY <2>2, <2>4
    <3>3. request[q].row.password \in Nat BY <2>1 DEF Account
    <3>4. session[t].user = request[q].user BY <2>4 DEF SweepsHold
    <3> QED BY <3>1, <3>2, <3>3, <3>4, <2>4 DEF Session
  <2>5. CASE t \notin request[q].doomed /\ ~(t = request[q].token /\ session[t] # None)
    BY <2>1, <2>2, <2>5 DEF Session
  <2> QED BY <2>3, <2>4, <2>5
<1>13. session' \in [Tokens -> Session]
  <2>1. session' = [t \in Tokens |-> session'[t]] BY DEF Commit
  <2> QED BY <1>12, <2>1
<1>14. TypeOK'
  <2>1. \A u \in Users : account'[u].active => account'[u].role # None
    BY <1>4, <1>5 DEF TypeOK, Exists
  <2> QED BY <1>2, <1>4, <1>13, <2>1 DEF TypeOK, Exists, Others, Idle, Named
<1>15. ~Guards(q) => \A u \in Users : EnabledAdmin(account[u]) => EnabledAdmin(account'[u])
  BY <1>1, <1>4, UncountedKeepsAdmins
<1>16. EnabledAdminRemains'
  <2>1. CASE Guards(q)
    <3>1. PICK u \in Users : EnabledAdmin(Seen(q, u))
      BY <2>1 DEF Commit, CountsHold
    <3>2. account'[u] = Seen(q, u) BY <1>1, <1>4 DEF Seen
    <3> QED BY <3>1, <3>2 DEF EnabledAdminRemains, EnabledAdmin
  <2>2. CASE ~Guards(q)
    <3>1. PICK u \in Users : EnabledAdmin(account[u]) BY DEF EnabledAdminRemains
    <3>2. EnabledAdmin(account'[u]) BY <1>15, <2>2, <3>1
    <3> QED BY <3>2 DEF EnabledAdminRemains, EnabledAdmin
  <2> QED BY <2>1, <2>2
<1>17. CountsHold'
  <2>1. ASSUME NEW p \in Requests \ {q}, Guards(p), request[p].pc \in {"counted", "swept"}
        PROVE  \E u \in Users : EnabledAdmin(Seen(p, u)')
    <3>1. HoldsSystemRole(p) /\ InTransaction(p) BY <2>1 DEF HoldsSystemRole, InTransaction
    <3>2. ~Guards(q)
      BY <3>1 DEF Locked, SystemRoleIsExclusive, HoldsSystemRole, Commit
    <3>3. PICK u \in Users : EnabledAdmin(Seen(p, u)) BY <2>1 DEF CountsHold
    <3>4. CASE u = request[p].user
      BY <3>1, <3>3, <3>4, <1>2, OthersKept DEF Seen
    <3>5. CASE u # request[p].user
      <4>1. EnabledAdmin(account[u]) BY <3>3, <3>5 DEF Seen
      <4>2. EnabledAdmin(account'[u]) BY <1>15, <3>2, <4>1
      <4>3. Seen(p, u)' = account'[u] BY <3>5, <1>2, OthersKept DEF Seen
      <4> QED BY <4>2, <4>3
    <3> QED BY <3>4, <3>5
  <2>2. request'[q].pc \notin {"counted", "swept"} BY <1>2 DEF Idle
  <2> QED BY <2>1, <2>2, <1>2, OthersKept DEF CountsHold, EnabledAdmin
<1>18. ReferencesHold' BY <1>2, <1>3, <1>4, OthersKept DEF ReferencesHold, RoleRows
<1>19. RolesOfAccountsExist'
  <2>1. request[q].row.role \in RoleRows
    <3>1. account[request[q].user] \in Account /\ request[q] \in Request
      BY <1>1, RowWritten DEF TypeOK
    <3>2. account[request[q].user].role \in RoleRows BY <1>1, RowWritten DEF RolesOfAccountsExist
    <3>3. CASE request[q].op = "assign"
      <4>1. request[q].row.role = request[q].role BY <1>1, <3>1, <3>3, RowWritten DEF Account
      <4> QED BY <1>1, <3>3, <4>1 DEF ReferencesHold
    <3>4. CASE request[q].op = "set"
      <4>1. request[q].row.role = account[request[q].user].role BY ZenonT(60), <1>1, <3>1, <3>4, RowWritten DEF Account
      <4> QED BY <3>2, <4>1
    <3>5. CASE request[q].op \in {"reset", "change"}
      <4>1. request[q].row.role = account[request[q].user].role BY ZenonT(60), <1>1, <3>1, <3>5, RowWritten DEF Account
      <4> QED BY <3>2, <4>1
    <3> QED BY <1>1, <3>3, <3>4, <3>5, RowWritten
  <2> QED BY <1>4, <2>1 DEF RolesOfAccountsExist, RoleRows, Exists
<1>20. SweepsHold'
  <2>1. ASSUME NEW p \in Requests \ {q}, request[p].pc = "swept",
               NEW t \in Tokens \ (request[p].doomed \union {request[p].token}),
               session'[t] # None, session'[t].user = request[p].user
        PROVE  session'[t].password >= request[p].row.password
    <3>1. request[p].user # request[q].user
      BY <2>1, <1>7 DEF InTransaction
    <3>2. session'[t] = session[t] BY <2>1, <3>1, <1>12
    <3> QED BY <2>1, <3>2 DEF SweepsHold
  <2>2. ASSUME NEW p \in Requests \ {q}, request[p].token \in Tokens, session'[request[p].token] # None
        PROVE  session'[request[p].token].user = request[p].user
    BY <2>2, <1>12 DEF SweepsHold
  <2>3. request'[q].token \notin Tokens /\ request'[q].pc # "swept"
    BY <1>2, ConstantsAssumption DEF Idle
  <2> QED BY <1>2, <2>1, <2>2, <2>3, OthersKept DEF SweepsHold
<1>21. SessionsAreOfThePassword'
  <2>1. ASSUME NEW t \in Tokens, session'[t] # None
        PROVE  session'[t].password >= account'[session'[t].user].password
    <3>1. CASE session[t].user # request[q].user
      BY <2>1, <3>1, <1>4, <1>12 DEF SessionsAreOfThePassword
    <3>2. CASE session[t].user = request[q].user
      <4>1. account'[session'[t].user] = request[q].row BY <2>1, <3>2, <1>4, <1>12
      <4>2. CASE t = request[q].token
        <5>1. session'[t].password = request[q].row.password /\ request[q].row.password \in Nat
          BY <2>1, <4>2, <1>1, <1>12, RowWritten DEF Account
        <5> QED BY <4>1, <5>1
      <4>3. CASE t # request[q].token /\ request[q].pc = "swept"
        <5>1. session'[t] = session[t] /\ t \notin request[q].doomed BY <2>1, <4>3, <1>12
        <5> QED BY <2>1, <3>2, <4>1, <4>3, <5>1 DEF SweepsHold
      <4>4. CASE t # request[q].token /\ request[q].pc # "swept"
        <5>1. session'[t] = session[t] BY <2>1, <4>4, <1>12
        <5>2. request[q].op \in {"set", "assign"}
          BY <4>4, <1>1, RowWritten DEF Commit, Sweeps
        <5>4. request[q].row.password = account[request[q].user].password
          BY <1>1, <5>2, PasswordWritten
        <5> QED BY <2>1, <3>2, <4>1, <5>1, <5>4 DEF SessionsAreOfThePassword
      <4> QED BY <4>2, <4>3, <4>4
    <3> QED BY <3>1, <3>2
  <2> QED BY <2>1 DEF SessionsAreOfThePassword
<1> QED BY <1>9, <1>10, <1>11, <1>14, <1>16, <1>17, <1>18, <1>19, <1>20, <1>21 DEF Locked

-----------------------------------------------------------------------------
(* Single statements. *)

\* A request ends; accounts that exist stay as they are.
LEMMA CreateAccountStep ==
  ASSUME Consistent, NEW q \in Requests, CreateAccount(q)
  PROVE  Consistent'
<1> USE DEF Consistent
<1>1. Others(q) /\ request' \in [Requests -> Request] /\ request'[q] = Idle
  BY FinishMoves DEF CreateAccount, Finish
<1>2. ~InTransaction(q)' /\ ~HoldsSystemRole(q)'
  BY <1>1 DEF InTransaction, HoldsSystemRole, Idle
<1>3. /\ \A u \in Users : Exists(u) => account'[u] = account[u]
      /\ \A u \in Users : account'[u] = account[u] \/ account'[u] = NewAccount(request[q].role)
      /\ roles' = roles /\ session' = session /\ begun' = begun
  BY DEF CreateAccount, TypeOK
<1>4. /\ request[q].role \in RoleRows /\ request[q].role # None
      /\ NewAccount(request[q].role) \in Account
  BY ConstantsAssumption DEF CreateAccount, RoleRows, TypeOK, NewAccount, Account, AllRoles
<1>5. account' \in [Users -> Account] BY <1>4 DEF CreateAccount, TypeOK
<1>6. \A u \in Users : EnabledAdmin(account[u]) => Exists(u) /\ account'[u] = account[u]
  BY <1>3, ConstantsAssumption DEF EnabledAdmin, Exists
<1>7. \A p \in Requests \ {q} :
        request[p].pc # "idle" /\ Changes(p) =>
          Exists(request[p].user) /\ request[p].user \in Users
          /\ account'[request[p].user] = account[request[p].user]
  BY <1>3 DEF Locked, RowsAreCurrent
<1>8. \A p \in Requests \ {q} : InTransaction(p) => request[p].pc # "idle" /\ Changes(p)
  BY DEF InTransaction, Locked, RowsAreCurrent
<1>9. \A p \in Requests \ {q} : InTransaction(p) => Updated(p)' = Updated(p)
  BY <1>1, <1>7, <1>8 DEF Updated, Others
<1>10. TypeOK'
  <2>1. \A u \in Users : account'[u].active => account'[u].role # None
    BY <1>3, <1>4 DEF TypeOK, Exists, NewAccount
  <2> QED BY <1>1, <1>3, <1>5, <2>1 DEF TypeOK, Exists, Others, Idle, Named
<1>11. RowsAreExclusive' BY <1>1, <1>2, OthersKept DEF Locked, RowsAreExclusive
<1>12. SystemRoleIsExclusive' BY <1>1, <1>2, OthersKept DEF Locked, SystemRoleIsExclusive
<1>13. RowsAreCurrent'
  <2>1. ASSUME NEW p \in Requests
        PROVE  /\ InTransaction(p)' => Changes(p)' /\ request'[p].row = Updated(p)'
               /\ request'[p].pc # "idle" /\ Changes(p)' =>
                    request'[p].user \in Users /\ Exists(request[p].user)'
               /\ request'[p].pc \in {"guarded", "counted"} => Guards(p)'
               /\ request'[p].pc = "swept" => Sweeps(p)'
    <3>1. CASE p = q BY <3>1, <1>1, <1>2 DEF Idle
    <3>2. CASE p # q
      <4>1. p \in Requests \ {q} BY <3>2
      <4>2. /\ InTransaction(p)' <=> InTransaction(p)
            /\ Guards(p)' <=> Guards(p)
            /\ Sweeps(p)' <=> Sweeps(p)
            /\ Changes(p)' <=> Changes(p)
            /\ request'[p] = request[p]
        BY <1>1, <4>1, OthersKept
      <4>3. InTransaction(p) => Updated(p)' = Updated(p) BY <1>9, <4>1
      <4>4. request[p].pc # "idle" /\ Changes(p) => Exists(request[p].user)'
        BY <1>7, <4>1, <4>2 DEF Exists
      <4> QED BY <4>2, <4>3, <4>4 DEF Locked, RowsAreCurrent
    <3> QED BY <3>1, <3>2
  <2> QED BY <2>1 DEF RowsAreCurrent
<1>14. CountsHold'
  <2>1. ASSUME NEW p \in Requests \ {q}, Guards(p), request[p].pc \in {"counted", "swept"}
        PROVE  \E u \in Users : EnabledAdmin(Seen(p, u)')
    <3>1. PICK u \in Users : EnabledAdmin(Seen(p, u)) BY <2>1 DEF CountsHold
    <3>2. Seen(p, u)' = Seen(p, u)
      <4>1. request'[p] = request[p] BY <1>1 DEF Others
      <4>2. CASE u = request[p].user BY <2>1, <4>1, <4>2 DEF Seen, InTransaction
      <4>3. CASE u # request[p].user
        <5>1. EnabledAdmin(account[u]) BY <3>1, <4>3 DEF Seen
        <5> QED BY <5>1, <4>1, <4>3, <1>6 DEF Seen
      <4> QED BY <4>2, <4>3
    <3> QED BY <3>1, <3>2
  <2>2. request'[q].pc \notin {"counted", "swept"} BY <1>1 DEF Idle
  <2> QED BY <2>1, <2>2, <1>1, OthersKept DEF CountsHold, EnabledAdmin
<1>15. EnabledAdminRemains' BY <1>6 DEF EnabledAdminRemains, EnabledAdmin
<1>16. ReferencesHold' BY <1>1, <1>2, <1>3, OthersKept DEF ReferencesHold, RoleRows
<1>17. RolesOfAccountsExist' BY <1>3, <1>4 DEF RolesOfAccountsExist, RoleRows, Exists, NewAccount
<1>18. SweepsHold' BY <1>1, <1>3, ConstantsAssumption, OthersKept DEF SweepsHold, Idle
<1>19. SessionsAreOfThePassword'
  <2>1. ASSUME NEW t \in Tokens, session[t] # None
        PROVE  session[t].password >= account'[session[t].user].password
    <3>1. session[t].user \in Users /\ session[t].password \in Nat BY <2>1 DEF TypeOK, Session
    <3> QED BY <2>1, <3>1, <1>3 DEF SessionsAreOfThePassword, NewAccount
  <2> QED BY <2>1, <1>3 DEF SessionsAreOfThePassword
<1> QED BY <1>10, <1>11, <1>12, <1>13, <1>14, <1>15, <1>16, <1>17, <1>18, <1>19 DEF Locked

LEMMA CreateSessionStep ==
  ASSUME Consistent, NEW q \in Requests, CreateSession(q)
  PROVE  Consistent'
<1> USE DEF Consistent
<1>1. Others(q) /\ request' \in [Requests -> Request] /\ request'[q] = Idle
  BY FinishMoves DEF CreateSession, Finish
<1>2. ~InTransaction(q)' /\ ~HoldsSystemRole(q)'
  BY <1>1 DEF InTransaction, HoldsSystemRole, Idle
<1>3. UNCHANGED <<account, roles, begun>> BY DEF CreateSession
<1> DEFINE u == request[q].user
<1> DEFINE pw == PasswordFor(u)
<1>4. PICK t \in Tokens :
        /\ session[t] = None /\ \A p \in Requests : request[p].token # t
        /\ session' = [session EXCEPT ![t] = [user |-> u, password |-> pw]]
  BY DEF CreateSession
<1>5. u \in Users BY DEF CreateSession, TypeOK, Named
<1>6. pw \in Nat
  <2> DEFINE P(p) == request[p].pc = "swept" /\ request[p].user = u
  <2>1. CASE \E p \in Requests : P(p)
    <3>1. (CHOOSE p \in Requests : P(p)) \in Requests BY <2>1
    <3>2. pw = request[CHOOSE p \in Requests : P(p)].row.password BY <2>1 DEF PasswordFor
    <3> QED BY <3>1, <3>2 DEF TypeOK, Request, Account
  <2>2. CASE ~\E p \in Requests : P(p) BY <2>2, <1>5 DEF TypeOK, Account, PasswordFor
  <2> QED BY <2>1, <2>2
<1>7. /\ session'[t] # None /\ session'[t].user = u /\ session'[t].password = pw
      /\ \A s \in Tokens \ {t} : session'[s] = session[s]
      /\ session' \in [Tokens -> Session]
  <2>1. [user |-> u, password |-> pw] \in Session BY <1>5, <1>6 DEF Session
  <2>2. [user |-> u, password |-> pw] # None BY <1>5, <1>6, ConstantsAssumption
  <2> QED BY <1>4, <2>1, <2>2 DEF TypeOK
<1> HIDE DEF pw
<1>8. ASSUME NEW p \in Requests, request[p].pc = "swept", request[p].user = u
      PROVE  pw = request[p].row.password
  <2> DEFINE o == CHOOSE o \in Requests : request[o].pc = "swept" /\ request[o].user = u
  <2>1. o \in Requests /\ request[o].pc = "swept" /\ request[o].user = u BY <1>8
  <2>2. pw = request[o].row.password BY <1>8 DEF pw, PasswordFor
  <2> HIDE DEF o
  <2>3. o = p BY <1>8, <2>1 DEF Locked, RowsAreExclusive, InTransaction
  <2> QED BY <2>2, <2>3
<1>9. pw >= account[u].password
  <2>1. CASE \E p \in Requests : request[p].pc = "swept" /\ request[p].user = u
    <3>1. PICK p \in Requests : request[p].pc = "swept" /\ request[p].user = u BY <2>1
    <3>2. pw = request[p].row.password BY <1>8, <3>1
    <3>3. InTransaction(p) BY <3>1 DEF InTransaction
    <3>4. account[u].password \in Nat BY <1>5 DEF TypeOK, Account
    <3> QED BY <3>1, <3>2, <3>3, <3>4, PasswordWritten
  <2>2. CASE ~\E p \in Requests : request[p].pc = "swept" /\ request[p].user = u
    <3>1. account[u].password \in Nat BY <1>5 DEF TypeOK, Account
    <3> QED BY <2>2, <3>1 DEF pw, PasswordFor
  <2> QED BY <2>1, <2>2
<1>10. TypeOK' BY <1>1, <1>3, <1>7 DEF TypeOK, Exists, Others, Idle, Named
<1>11. RowsAreExclusive' BY <1>1, <1>2, OthersKept DEF Locked, RowsAreExclusive
<1>12. SystemRoleIsExclusive' BY <1>1, <1>2, OthersKept DEF Locked, SystemRoleIsExclusive
<1>13. RowsAreCurrent'
  BY <1>1, <1>2, <1>3, OthersKept, OthersSeeTheSame DEF Locked, RowsAreCurrent, Exists, Idle
<1>14. CountsHold' BY <1>1, <1>3, OthersKept, OthersSeeTheSame DEF CountsHold, EnabledAdmin, Idle
<1>15. EnabledAdminRemains' BY <1>3 DEF EnabledAdminRemains, EnabledAdmin
<1>16. ReferencesHold' BY <1>1, <1>2, <1>3, OthersKept DEF ReferencesHold, RoleRows
<1>17. RolesOfAccountsExist' BY <1>3 DEF RolesOfAccountsExist, RoleRows, Exists
<1>18. SweepsHold'
  <2>1. ASSUME NEW p \in Requests \ {q}, request[p].token \in Tokens, session'[request[p].token] # None
        PROVE  session'[request[p].token].user = request[p].user
    BY <2>1, <1>4, <1>7 DEF SweepsHold
  <2>2. ASSUME NEW p \in Requests \ {q}, request[p].pc = "swept",
               NEW s \in Tokens \ (request[p].doomed \union {request[p].token}),
               session'[s] # None, session'[s].user = request[p].user
        PROVE  session'[s].password >= request[p].row.password
    <3>1. CASE s = t
      <4>1. session'[s].password = request[p].row.password BY <2>2, <3>1, <1>7, <1>8
      <4>2. request[p].row.password \in Nat BY DEF TypeOK, Request, Account
      <4> QED BY <4>1, <4>2
    <3>2. CASE s # t BY <2>2, <3>2, <1>7 DEF SweepsHold
    <3> QED BY <3>1, <3>2
  <2>3. request'[q].token \notin Tokens /\ request'[q].pc # "swept"
    BY <1>1, ConstantsAssumption DEF Idle
  <2> QED BY <1>1, <2>1, <2>2, <2>3, OthersKept DEF SweepsHold
<1>19. SessionsAreOfThePassword'
  <2>1. ASSUME NEW s \in Tokens, session'[s] # None
        PROVE  session'[s].password >= account[session'[s].user].password
    <3>1. CASE s = t BY <3>1, <1>7, <1>9
    <3>2. CASE s # t BY <2>1, <3>2, <1>7 DEF SessionsAreOfThePassword
    <3> QED BY <3>1, <3>2
  <2> QED BY <2>1, <1>3 DEF SessionsAreOfThePassword
<1> QED BY <1>10, <1>11, <1>12, <1>13, <1>14, <1>15, <1>16, <1>17, <1>18, <1>19 DEF Locked

\* A role is deleted: no account has it, as committed or as written.
LEMMA DeleteRoleStep ==
  ASSUME Consistent, NEW q \in Requests, DeleteRole(q)
  PROVE  Consistent'
<1> USE DEF Consistent
<1>1. Others(q) /\ request' \in [Requests -> Request] /\ request'[q] = Idle
  BY FinishMoves DEF DeleteRole, Finish
<1>2. ~InTransaction(q)' /\ ~HoldsSystemRole(q)'
  BY <1>1 DEF InTransaction, HoldsSystemRole, Idle
<1> DEFINE r == request[q].role
<1>3. /\ UNCHANGED <<account, session, begun>>
      /\ roles' = roles \ {r}
      /\ \A p \in Requests : ~RefersTo(p, r)
      /\ Holders(r) = {}
      /\ r \in roles
  BY DEF DeleteRole, Restricted
<1>4. RoleRows' = RoleRows \ {r} BY <1>3, ConstantsAssumption DEF RoleRows, TypeOK
<1>5. TypeOK' BY <1>1, <1>3 DEF TypeOK, Exists, Others, Idle, Named
<1>6. RowsAreExclusive' BY <1>1, <1>2, OthersKept DEF Locked, RowsAreExclusive
<1>7. SystemRoleIsExclusive' BY <1>1, <1>2, OthersKept DEF Locked, SystemRoleIsExclusive
<1>8. RowsAreCurrent'
  BY <1>1, <1>2, <1>3, OthersKept, OthersSeeTheSame DEF Locked, RowsAreCurrent, Exists, Idle
<1>9. CountsHold' BY <1>1, <1>3, OthersKept, OthersSeeTheSame DEF CountsHold, EnabledAdmin, Idle
<1>10. EnabledAdminRemains' BY <1>3 DEF EnabledAdminRemains, EnabledAdmin
<1>11. ReferencesHold'
  <2>1. \A p \in Requests : InTransaction(p) /\ request[p].op = "assign" =>
          request[p].role \in RoleRows /\ request[p].role # r
    BY <1>3 DEF ReferencesHold, RefersTo
  <2> QED BY <1>1, <1>2, <1>4, <2>1, OthersKept DEF ReferencesHold
<1>12. RolesOfAccountsExist'
  <2>1. \A u \in Users : account[u].role # r BY <1>3 DEF Holders
  <2> QED BY <1>3, <1>4, <2>1 DEF RolesOfAccountsExist, Exists
<1>13. SweepsHold' BY <1>1, <1>3, ConstantsAssumption, OthersKept DEF SweepsHold, Idle
<1>14. SessionsAreOfThePassword' BY <1>3 DEF SessionsAreOfThePassword
<1> QED BY <1>5, <1>6, <1>7, <1>8, <1>9, <1>10, <1>11, <1>12, <1>13, <1>14 DEF Locked

LEMMA CreateRoleStep ==
  ASSUME Consistent, NEW r \in CustomRoles, CreateRole(r)
  PROVE  Consistent'
<1> USE DEF Consistent
<1>1. UNCHANGED <<account, session, request, begun>> /\ roles' = roles \union {r}
  BY DEF CreateRole
<1>2. RoleRows \subseteq RoleRows' BY <1>1 DEF RoleRows
<1>3. TypeOK' BY <1>1 DEF TypeOK, Exists
<1>4. Locked'
  BY <1>1 DEF Locked, RowsAreExclusive, SystemRoleIsExclusive, RowsAreCurrent, InTransaction,
              HoldsSystemRole, Guards, Sweeps, Changes, Updated, Exists
<1>5. CountsHold' /\ EnabledAdminRemains'
  BY <1>1 DEF CountsHold, EnabledAdminRemains, EnabledAdmin, Guards, Seen, InTransaction
<1>6. ReferencesHold' BY <1>1, <1>2 DEF ReferencesHold, InTransaction
<1>7. RolesOfAccountsExist' BY <1>1, <1>2 DEF RolesOfAccountsExist, Exists
<1>8. SweepsHold' /\ SessionsAreOfThePassword' BY <1>1 DEF SweepsHold, SessionsAreOfThePassword
<1> QED BY <1>3, <1>4, <1>5, <1>6, <1>7, <1>8

LEMMA EndSessionStep ==
  ASSUME Consistent, NEW t \in Tokens, EndSession(t)
  PROVE  Consistent'
<1> USE DEF Consistent
<1>1. UNCHANGED <<account, roles, request, begun>> BY DEF EndSession
<1>2. session'[t] = None /\ \A s \in Tokens \ {t} : session'[s] = session[s]
  BY DEF EndSession, TypeOK
<1>3. session' \in [Tokens -> Session] BY DEF EndSession, TypeOK, Session
<1>4. TypeOK' BY <1>1, <1>3 DEF TypeOK, Exists
<1>5. Locked'
  BY <1>1 DEF Locked, RowsAreExclusive, SystemRoleIsExclusive, RowsAreCurrent, InTransaction,
              HoldsSystemRole, Guards, Sweeps, Changes, Updated, Exists
<1>6. CountsHold' /\ EnabledAdminRemains'
  BY <1>1 DEF CountsHold, EnabledAdminRemains, EnabledAdmin, Guards, Seen, InTransaction
<1>7. ReferencesHold' /\ RolesOfAccountsExist'
  BY <1>1 DEF ReferencesHold, RolesOfAccountsExist, RoleRows, InTransaction, Exists
<1>8. SweepsHold' BY <1>1, <1>2 DEF SweepsHold
<1>9. SessionsAreOfThePassword' BY <1>1, <1>2 DEF SessionsAreOfThePassword
<1> QED BY <1>4, <1>5, <1>6, <1>7, <1>8, <1>9

-----------------------------------------------------------------------------
(* The theorems. *)

LEMMA InitConsistent == Init => Consistent
<1> SUFFICES ASSUME Init PROVE Consistent OBVIOUS
<1> USE ConstantsAssumption
<1>1. \A q \in Requests : request[q] = Idle BY DEF Init
<1>2. \A q \in Requests : /\ ~InTransaction(q) /\ ~HoldsSystemRole(q)
                           /\ request[q].pc = "idle" /\ request[q].token = None
                           /\ request[q].op = "none"
  BY <1>1 DEF InTransaction, HoldsSystemRole, Idle
<1>3. TypeOK
  <2>1. Idle \in Request BY DEF Idle, Request, NoAccount, Account
  <2>2. [role |-> Admin, active |-> TRUE, password |-> 0] \in Account BY DEF Account, AllRoles
  <2>3. NoAccount \in Account BY DEF NoAccount, Account
  <2>4. account \in [Users -> Account] BY <2>2, <2>3 DEF Init
  <2>5. \A u \in Users : account[u].active => account[u].role # None
    BY DEF Init, NoAccount
  <2>6. request \in [Requests -> Request] BY <2>1 DEF Init
  <2>7. session \in [Tokens -> Session] BY DEF Init, Session
  <2>8. roles \subseteq CustomRoles /\ begun \in Nat BY DEF Init
  <2> QED BY <1>2, <2>4, <2>5, <2>6, <2>7, <2>8 DEF TypeOK, Named, Exists
<1>4. Locked BY <1>2 DEF Locked, RowsAreExclusive, SystemRoleIsExclusive, RowsAreCurrent
<1>5. CountsHold BY <1>2 DEF CountsHold
<1>6. EnabledAdminRemains
  <2>1. PICK u \in Users : u \in FirstAdmins OBVIOUS
  <2>2. account[u] = [role |-> Admin, active |-> TRUE, password |-> 0] BY <2>1 DEF Init
  <2> QED BY <2>2 DEF EnabledAdminRemains, EnabledAdmin
<1>7. ReferencesHold BY <1>2 DEF ReferencesHold
<1>8. RolesOfAccountsExist BY DEF Init, RolesOfAccountsExist, Exists, RoleRows, NoAccount
<1>9. SweepsHold BY <1>2 DEF SweepsHold
<1>10. SessionsAreOfThePassword BY DEF Init, SessionsAreOfThePassword
<1> QED BY <1>3, <1>4, <1>5, <1>6, <1>7, <1>8, <1>9, <1>10 DEF Consistent

LEMMA StepConsistent == Consistent /\ [Next]_vars => Consistent'
<1> SUFFICES ASSUME Consistent, [Next]_vars PROVE Consistent' OBVIOUS
<1>1. ASSUME NEW q \in Requests, Check(q) PROVE Consistent'
  BY <1>1, CheckMoves, QuietStep DEF Consistent
<1>2. ASSUME NEW q \in Requests, Abort(q) \/ Refuse(q) PROVE Consistent'
  <2>1. request' = [request EXCEPT ![q] = Idle] /\ UNCHANGED <<account, roles, session, begun>>
    BY <1>2 DEF Abort, Refuse, Finish
  <2> QED BY <2>1, FinishMoves, QuietStep DEF Consistent, TypeOK
<1>3. CASE UNCHANGED vars
  BY <1>3 DEF vars, Consistent, TypeOK, Locked, RowsAreExclusive, SystemRoleIsExclusive,
              RowsAreCurrent, CountsHold, EnabledAdminRemains, ReferencesHold,
              RolesOfAccountsExist, SweepsHold, SessionsAreOfThePassword, InTransaction,
              HoldsSystemRole, Guards, Sweeps, Changes, Updated, Exists, EnabledAdmin, Seen,
              RoleRows
<1> QED
  BY <1>1, <1>2, <1>3, WriteStep, GuardStep, CountStep, SweepStep, CommitStep, CreateAccountStep,
     CreateSessionStep, DeleteRoleStep, CreateRoleStep, EndSessionStep DEF Next

\* The inductive invariant: rows and the system role are locked by one request
\* at a time, what was written or counted under a lock still holds, and so do
\* the properties (user.service.ts, role.service.ts, auth.service.ts).
THEOREM AlwaysConsistent == Spec => []Consistent
<1>1. Init => Consistent BY InitConsistent
<1>2. Consistent /\ [Next]_vars => Consistent' BY StepConsistent
<1> QED BY <1>1, <1>2, PTL DEF Spec

\* Accounts, roles, sessions and requests keep their types.
THEOREM TypeCorrect == Spec => []TypeOK
<1>1. Consistent => TypeOK BY DEF Consistent
<1> QED BY <1>1, AlwaysConsistent, PTL

\* An enabled administrator remains, whatever requests race
\* (user.service.ts assertEnabledAdminRemains).
THEOREM AdminRemains == Spec => []EnabledAdminRemains
<1>1. Consistent => EnabledAdminRemains BY DEF Consistent
<1> QED BY <1>1, AlwaysConsistent, PTL

\* No account is left with a role that was deleted (role.service.ts deleteRole).
THEOREM RolesExist == Spec => []RolesOfAccountsExist
<1>1. Consistent => RolesOfAccountsExist BY DEF Consistent
<1> QED BY <1>1, AlwaysConsistent, PTL

\* A change of password ends the sessions that were there
\* (user.service.ts updateUser, auth.service.ts changeOwnPassword).
THEOREM SessionsEnd == Spec => []SessionsAreOfThePassword
<1>1. Consistent => SessionsAreOfThePassword BY DEF Consistent
<1> QED BY <1>1, AlwaysConsistent, PTL

\* Concurrent requests never undo what another has changed in an account
\* (user.service.ts updateUser, setUserActive, assignUserRole).
THEOREM NoChangeLost == Spec => OneColumnAtATime
<1> DEFINE Kept(u) ==
       Exists(u) => \/ account'[u] = [account[u] EXCEPT !.role = account'[u].role]
                    \/ account'[u] = [account[u] EXCEPT !.active = account'[u].active]
                    \/ account'[u] = [account[u] EXCEPT !.password = account'[u].password]
<1>1. Consistent /\ [Next]_vars => [\A u \in Users : Kept(u)]_vars
  <2> SUFFICES ASSUME Consistent, Next, NEW u \in Users, Exists(u) PROVE Kept(u)
    OBVIOUS
  <2>1. account[u] \in Account BY DEF Consistent, TypeOK
  <2>2. CASE account'[u] = account[u]
    <3>1. [account[u] EXCEPT !.active = account[u].active] = account[u] BY <2>1 DEF Account
    <3> QED BY <2>2, <3>1
  <2>3. CASE account'[u] # account[u]
    <3>1. PICK q \in Requests : Commit(q) \/ CreateAccount(q)
      BY ZenonT(60), <2>3 DEF Next, Check, BeginSet, BeginAssign, BeginCreate, BeginReset, BeginLogin, BeginChange,
         BeginDelete, Begin, Write, Guard, Count, Sweep, Abort, CreateSession, DeleteRole, Refuse,
         CreateRole, EndSession
    <3>2. ~CreateAccount(q) BY <2>3 DEF CreateAccount, Consistent, TypeOK
    <3>3. Commit(q) /\ InTransaction(q) BY <3>1, <3>2 DEF Commit, InTransaction
    <3>4. u = request[q].user /\ account'[u] = request[q].row
      BY <2>3, <3>3 DEF Commit, Consistent, TypeOK
    <3> DEFINE a == account[u]
    <3>8. /\ request[q].op = "set" => request[q].row = [account[request[q].user] EXCEPT !.active = request[q].active]
          /\ request[q].op = "assign" => request[q].row = [account[request[q].user] EXCEPT !.role = request[q].role]
          /\ request[q].op \in {"reset", "change"} =>
               request[q].row = [account[request[q].user] EXCEPT !.password = @ + 1]
          /\ request[q].op \in {"set", "assign", "reset", "change"}
      BY <3>3, RowWritten
    <3>5. CASE request[q].op = "set"
      <4> DEFINE x == request[q].active
      <4>1. account'[u] = [a EXCEPT !.active = x] BY <3>4, <3>8, <3>5
      <4>2. [a EXCEPT !.active = x].active = x BY <2>1 DEF Account
      <4> HIDE DEF x
      <4> QED BY <4>1, <4>2
    <3>6. CASE request[q].op = "assign"
      <4> DEFINE x == request[q].role
      <4>1. account'[u] = [a EXCEPT !.role = x] BY <3>4, <3>8, <3>6
      <4>2. [a EXCEPT !.role = x].role = x BY <2>1 DEF Account
      <4> HIDE DEF x
      <4> QED BY <4>1, <4>2
    <3>7. CASE request[q].op \in {"reset", "change"}
      <4> DEFINE x == a.password + 1
      <4>1. account'[u] = [a EXCEPT !.password = x] BY <3>4, <3>8, <3>7
      <4>2. [a EXCEPT !.password = x].password = x BY <2>1 DEF Account
      <4> HIDE DEF x
      <4> QED BY <4>1, <4>2
    <3> QED BY <3>5, <3>6, <3>7, <3>8
  <2> QED BY <2>2, <2>3
<1> QED BY <1>1, AlwaysConsistent, PTL DEF OneColumnAtATime, Spec
=============================================================================
