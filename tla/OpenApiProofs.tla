---------------------------- MODULE OpenApiProofs ----------------------------
(* Proofs about ApiKeys and OpenApi: for any number of keys, owners, *)
(* addresses, requests and calls at once.                            *)
EXTENDS OpenApi, FiniteSetTheorems, TLAPS

-----------------------------------------------------------------------------
(* Keys. *)

\* Revoked rows are locked, and active until the commit.
RowsHeld ==
  /\ \A q \in Requests : request[q].revoked # {} => request[q].pc = "revoke"
  /\ \A q \in Requests : \A k \in request[q].revoked : key[k].status = "active"
  /\ \A p, q \in Requests : p # q => request[p].revoked \cap request[q].revoked = {}

\* One request at a time counts the keys of an owner, and its count holds.
CountsHold ==
  /\ \A q \in Requests :
       request[q].pc \in {"create", "locked", "counted"} => request[q].owner \in Owners
  /\ \A p, q \in Requests :
       /\ p # q /\ request[p].owner = request[q].owner
       /\ request[p].pc \in {"locked", "counted"}
       => request[q].pc \notin {"locked", "counted"}
  /\ \A q \in Requests :
       request[q].pc = "counted" => Cardinality(Active(request[q].owner)) < KeyLimit

KeysConsistent == KeysTypeOK /\ AuditTellsKeys /\ RowsHeld /\ CountsHold /\ KeyLimitHolds

LEMMA ActiveFinite ==
  ASSUME NEW u
  PROVE  IsFiniteSet(Active(u)) /\ Cardinality(Active(u)) \in Nat
<1>1. Active(u) \subseteq Keys BY DEF Active
<1>2. IsFiniteSet(Active(u)) BY <1>1, FS_Subset, KeysAssumption
<1> QED BY <1>2, FS_CardinalityType

\* A request that changes no row: what it may become.
LEMMA RequestStep ==
  ASSUME KeysConsistent, NEW q \in Requests, NEW r \in Request,
         request' = [request EXCEPT ![q] = r], UNCHANGED <<key, audit>>,
         r.revoked # {} => r.pc = "revoke",
         \A k \in r.revoked : key[k].status = "active",
         \A p \in Requests \ {q} : request[p].revoked \cap r.revoked = {},
         r.pc \in {"create", "locked", "counted"} => r.owner \in Owners,
         r.pc \in {"locked", "counted"} =>
           \A p \in Requests \ {q} :
             request[p].owner = r.owner => request[p].pc \notin {"locked", "counted"},
         r.pc = "counted" => Cardinality(Active(r.owner)) < KeyLimit
  PROVE  KeysConsistent'
<1> USE DEF KeysConsistent
<1>1. /\ request'[q] = r /\ \A p \in Requests \ {q} : request'[p] = request[p]
      /\ request' \in [Requests -> Request]
  BY DEF KeysTypeOK
<1>2. \A u : Active(u)' = Active(u) BY DEF Active
<1>3. KeysTypeOK' BY <1>1 DEF KeysTypeOK
<1>4. AuditTellsKeys' BY DEF AuditTellsKeys
<1>5. RowsHeld' BY <1>1 DEF RowsHeld
<1>6. CountsHold'
  <2>1. \A p \in Requests :
          request'[p].pc \in {"create", "locked", "counted"} => request'[p].owner \in Owners
    BY <1>1 DEF CountsHold
  <2>2. ASSUME NEW p \in Requests, NEW o \in Requests, p # o, request'[p].owner = request'[o].owner,
               request'[p].pc \in {"locked", "counted"}
        PROVE  request'[o].pc \notin {"locked", "counted"}
    <3>1. CASE p = q BY <3>1, <2>2, <1>1
    <3>2. CASE o = q BY <3>2, <2>2, <1>1
    <3>3. CASE p # q /\ o # q BY <3>3, <2>2, <1>1 DEF CountsHold
    <3> QED BY <3>1, <3>2, <3>3
  <2>3. ASSUME NEW p \in Requests, request'[p].pc = "counted"
        PROVE  Cardinality(Active(request'[p].owner)) < KeyLimit
    BY <2>3, <1>1 DEF CountsHold
  <2> QED BY <1>2, <2>1, <2>2, <2>3 DEF CountsHold
<1>7. KeyLimitHolds' BY <1>2 DEF KeyLimitHolds
<1> QED BY <1>3, <1>4, <1>5, <1>6, <1>7

LEMMA EndStep ==
  ASSUME KeysConsistent, NEW q \in Requests, Ends(q), UNCHANGED <<key, audit>>
  PROVE  KeysConsistent'
<1>1. NoRequest \in Request BY DEF NoRequest, Request
<1>2. /\ NoRequest.revoked = {} /\ NoRequest.pc = "idle" BY DEF NoRequest
<1> QED BY <1>1, <1>2, RequestStep DEF Ends

\* Every step of a request on its own row of the bookkeeping.
LEMMA QuietKeysStep ==
  ASSUME KeysConsistent, NEW q \in Requests,
         \/ \E u \in Owners : AskKey(q, u)
         \/ LockOwner(q) \/ CountKeys(q) \/ AskRevoke(q) \/ AbortRequest(q)
         \/ \E k \in Keys : Revoke(q, k)
  PROVE  KeysConsistent'
<1> USE DEF KeysConsistent
<1>1. request \in [Requests -> Request] /\ request[q] \in Request BY DEF KeysTypeOK
<1>2. request[q].revoked # {} => request[q].pc = "revoke" BY DEF RowsHeld
<1>3. ASSUME NEW u \in Owners, AskKey(q, u) PROVE KeysConsistent'
  <2> DEFINE r == [NoRequest EXCEPT !.pc = "create", !.owner = u]
  <2>1. r \in Request /\ r.revoked = {} /\ r.pc = "create" /\ r.owner = u
    BY DEF NoRequest, Request
  <2>2. request' = [request EXCEPT ![q] = r] /\ UNCHANGED <<key, audit>> BY <1>3 DEF AskKey
  <2> HIDE DEF r
  <2> QED BY <2>1, <2>2, RequestStep
<1>4. ASSUME LockOwner(q) PROVE KeysConsistent'
  <2> DEFINE r == [request[q] EXCEPT !.pc = "locked"]
  <2>1. /\ r \in Request /\ r.revoked = {} /\ r.pc = "locked" /\ r.owner = request[q].owner
        /\ r.owner \in Owners
    BY <1>1, <1>2, <1>4 DEF LockOwner, Request, CountsHold
  <2>2. request' = [request EXCEPT ![q] = r] /\ UNCHANGED <<key, audit>> BY <1>4 DEF LockOwner
  <2>3. \A p \in Requests \ {q} :
          request[p].owner = r.owner => request[p].pc \notin {"locked", "counted"}
    BY <1>4, <2>1 DEF LockOwner, OwnerFree
  <2> HIDE DEF r
  <2> QED BY <2>1, <2>2, <2>3, RequestStep
<1>5. ASSUME CountKeys(q) PROVE KeysConsistent'
  <2>1. CASE Cardinality(Active(request[q].owner)) >= KeyLimit
    BY <1>5, <2>1, EndStep DEF CountKeys
  <2>2. CASE ~(Cardinality(Active(request[q].owner)) >= KeyLimit)
    <3> DEFINE r == [request[q] EXCEPT !.pc = "counted"]
    <3>1. /\ r \in Request /\ r.revoked = {} /\ r.pc = "counted" /\ r.owner = request[q].owner
          /\ r.owner \in Owners
      BY <1>1, <1>2, <1>5 DEF CountKeys, Request, CountsHold
    <3>2. request' = [request EXCEPT ![q] = r] /\ UNCHANGED <<key, audit>>
      BY <1>5, <2>2 DEF CountKeys
    <3>3. \A p \in Requests \ {q} :
            request[p].owner = r.owner => request[p].pc \notin {"locked", "counted"}
      BY <1>5, <3>1 DEF CountKeys, CountsHold
    <3>4. Cardinality(Active(r.owner)) < KeyLimit
      BY <2>2, <3>1, ActiveFinite, KeysAssumption
    <3> HIDE DEF r
    <3> QED BY <3>1, <3>2, <3>3, <3>4, RequestStep
  <2> QED BY <2>1, <2>2
<1>6. ASSUME AskRevoke(q) PROVE KeysConsistent'
  <2>1. PICK todo \in {{k} : k \in {j \in Keys : key[j].status = "active"}}
                      \union {Active(u) : u \in Owners} :
          request' = [request EXCEPT ![q] = [NoRequest EXCEPT !.pc = "revoke", !.todo = todo]]
    BY <1>6 DEF AskRevoke
  <2> DEFINE r == [NoRequest EXCEPT !.pc = "revoke", !.todo = todo]
  <2>0. todo \subseteq Keys /\ UNCHANGED <<key, audit>>
    BY <1>6 DEF AskRevoke, Active
  <2>2. r \in Request /\ r.revoked = {} /\ r.pc = "revoke" BY <2>0 DEF NoRequest, Request
  <2>3. request' = [request EXCEPT ![q] = r] /\ UNCHANGED <<key, audit>> BY <2>0, <2>1
  <2> HIDE DEF r
  <2> QED BY <2>2, <2>3, RequestStep
<1>7. ASSUME NEW k \in Keys, Revoke(q, k) PROVE KeysConsistent'
  <2> DEFINE got == IF Revocable(k) THEN request[q].revoked \union {k} ELSE request[q].revoked
  <2> DEFINE r == [request[q] EXCEPT !.todo = request[q].todo \ {k}, !.revoked = got]
  <2>1. got \subseteq Keys BY <1>1 DEF Request
  <2>2. r \in Request /\ r.pc = "revoke" /\ r.revoked = got
    BY <1>1, <1>7, <2>1 DEF Revoke, Request
  <2>3. request' = [request EXCEPT ![q] = r] /\ UNCHANGED <<key, audit>>
    BY <1>1, <1>7 DEF Revoke
  <2>4. \A j \in got : key[j].status = "active" BY DEF RowsHeld, Revocable
  <2>5. \A p \in Requests \ {q} : request[p].revoked \cap got = {}
    BY <1>7 DEF RowsHeld, Revoke
  <2> HIDE DEF r, got
  <2> QED BY <2>2, <2>3, <2>4, <2>5, RequestStep
<1>8. ASSUME AbortRequest(q) PROVE KeysConsistent' BY <1>8, EndStep DEF AbortRequest
<1> QED BY <1>3, <1>4, <1>5, <1>6, <1>7, <1>8

\* What every other request has is what it had.
LEMMA Others ==
  ASSUME KeysTypeOK, NEW q \in Requests, Ends(q)
  PROVE  /\ request' \in [Requests -> Request]
         /\ request'[q] = NoRequest
         /\ \A p \in Requests \ {q} : request'[p] = request[p]
         /\ NoRequest.pc = "idle" /\ NoRequest.revoked = {}
<1>1. NoRequest \in Request BY DEF NoRequest, Request
<1> QED BY <1>1 DEF KeysTypeOK, Ends, NoRequest

LEMMA InsertStep ==
  ASSUME KeysConsistent, NEW q \in Requests, InsertKey(q)
  PROVE  KeysConsistent'
<1> USE DEF KeysConsistent
<1>0. Ends(q) /\ request[q].pc = "counted" BY DEF InsertKey
<1>1. PICK k \in Keys :
        /\ key[k].status = "absent"
        /\ key' = [key EXCEPT ![k] = [owner |-> request[q].owner, status |-> "active"]]
        /\ audit' = [audit EXCEPT ![k].create = @ + 1]
  BY DEF InsertKey
<1>2. PICK u \in Owners : u = request[q].owner /\ Cardinality(Active(u)) < KeyLimit
  BY <1>0 DEF CountsHold
<1>3. /\ key'[k] = [owner |-> u, status |-> "active"]
      /\ \A j \in Keys \ {k} : key'[j] = key[j]
      /\ key' \in [Keys -> Key]
  <2>1. [owner |-> u, status |-> "active"] \in Key BY <1>2 DEF Key
  <2> QED BY <1>1, <1>2, <2>1 DEF KeysTypeOK
<1>4. /\ audit' \in [Keys -> Audit]
      /\ audit'[k].create = audit[k].create + 1 /\ audit'[k].revoke = audit[k].revoke
      /\ \A j \in Keys \ {k} : audit'[j] = audit[j]
  BY <1>1 DEF KeysTypeOK, Audit
<1>5. Active(u)' = Active(u) \union {k} /\ k \notin Active(u) BY <1>1, <1>3 DEF Active
<1>6. \A v : v # u => Active(v)' = Active(v)
  <2> SUFFICES ASSUME NEW v, v # u PROVE Active(v)' = Active(v) OBVIOUS
  <2> QED BY <1>1, <1>3 DEF Active
<1>7. Cardinality(Active(u)') = Cardinality(Active(u)) + 1
  BY <1>5, ActiveFinite, FS_AddElement
<1>8. KeysTypeOK' BY <1>0, <1>3, <1>4, Others DEF KeysTypeOK
<1>9. AuditTellsKeys'
  <2>1. audit[k].create = 0 /\ audit[k].revoke = 0 BY <1>1 DEF AuditTellsKeys
  <2> QED BY <2>1, <1>3, <1>4 DEF AuditTellsKeys
<1>10. RowsHeld'
  <2>1. \A p \in Requests : k \notin request[p].revoked BY <1>1 DEF RowsHeld
  <2>2. \A p \in Requests : request'[p].revoked \subseteq Keys
    BY <1>0, Others DEF Request
  <2> QED BY <1>0, <1>3, <2>1, <2>2, Others DEF RowsHeld
<1>11. CountsHold'
  <2>1. ASSUME NEW p \in Requests, request'[p].pc = "counted"
        PROVE  (Cardinality(Active(request[p].owner)) < KeyLimit)'
    <3>1. p # q /\ request'[p] = request[p] BY <1>0, <2>1, Others
    <3>2. request[p].owner # u BY <1>0, <1>2, <2>1, <3>1 DEF CountsHold
    <3> QED BY <3>1, <3>2, <2>1, <1>6 DEF CountsHold
  <2>2. \A p \in Requests :
          request'[p].pc \in {"create", "locked", "counted"} => request'[p].owner \in Owners
    BY <1>0, Others DEF CountsHold
  <2>3. \A p, o \in Requests :
          /\ p # o /\ request'[p].owner = request'[o].owner
          /\ request'[p].pc \in {"locked", "counted"}
          => request'[o].pc \notin {"locked", "counted"}
    BY <1>0, Others DEF CountsHold
  <2> QED BY <2>1, <2>2, <2>3 DEF CountsHold
<1>12. KeyLimitHolds'
  BY <1>2, <1>6, <1>7, ActiveFinite, KeysAssumption DEF KeyLimitHolds
<1> QED BY <1>8, <1>9, <1>10, <1>11, <1>12

LEMMA CommitStep ==
  ASSUME KeysConsistent, NEW q \in Requests, CommitRevoke(q)
  PROVE  KeysConsistent'
<1> USE DEF KeysConsistent
<1>0. Ends(q) BY DEF CommitRevoke
<1> DEFINE gone == request[q].revoked
<1>1. gone \subseteq Keys /\ \A k \in gone : key[k].status = "active"
  BY DEF KeysTypeOK, Request, RowsHeld
<1>2. /\ key' \in [Keys -> Key]
      /\ \A k \in gone : key'[k].status = "revoked" /\ key'[k].owner = key[k].owner
      /\ \A k \in Keys \ gone : key'[k] = key[k]
  BY <1>1 DEF CommitRevoke, KeysTypeOK, Key
<1>3. /\ audit' \in [Keys -> Audit]
      /\ \A k \in gone : /\ audit'[k].create = audit[k].create
                        /\ audit'[k].revoke = audit[k].revoke + 1
      /\ \A k \in Keys \ gone : audit'[k] = audit[k]
  BY <1>1 DEF CommitRevoke, KeysTypeOK, Audit
<1>4. ASSUME NEW u
      PROVE  /\ Cardinality(Active(u)') <= Cardinality(Active(u))
             /\ Cardinality(Active(u)') \in Nat
  <2>1. Active(u)' \subseteq Active(u) BY <1>1, <1>2 DEF Active
  <2> QED BY <2>1, ActiveFinite, FS_Subset, FS_CardinalityType
<1>5. KeysTypeOK' BY <1>0, <1>2, <1>3, Others DEF KeysTypeOK
<1>6. AuditTellsKeys'
  <2>1. \A k \in gone : audit[k].create = 1 /\ audit[k].revoke = 0
    BY <1>1 DEF AuditTellsKeys
  <2>2. \A k \in gone : audit'[k].create = 1 /\ audit'[k].revoke = 1 BY <2>1, <1>3
  <2> QED BY <2>2, <1>1, <1>2, <1>3 DEF AuditTellsKeys
<1>7. RowsHeld'
  <2>1. \A p \in Requests \ {q} : request[p].revoked \subseteq Keys \ gone
    BY DEF KeysTypeOK, Request, RowsHeld
  <2> QED BY <1>0, <1>2, <2>1, Others DEF RowsHeld
<1>8. CountsHold'
  <2>1. ASSUME NEW p \in Requests, request'[p].pc = "counted"
        PROVE  (Cardinality(Active(request[p].owner)) < KeyLimit)'
    <3>1. p # q /\ request'[p] = request[p] BY <1>0, <2>1, Others
    <3>2. Cardinality(Active(request[p].owner)) < KeyLimit BY <2>1, <3>1 DEF CountsHold
    <3> QED BY <3>1, <3>2, <1>4, ActiveFinite, KeysAssumption
  <2>2. \A p \in Requests :
          request'[p].pc \in {"create", "locked", "counted"} => request'[p].owner \in Owners
    BY <1>0, Others DEF CountsHold
  <2>3. \A p, o \in Requests :
          /\ p # o /\ request'[p].owner = request'[o].owner
          /\ request'[p].pc \in {"locked", "counted"}
          => request'[o].pc \notin {"locked", "counted"}
    BY <1>0, Others DEF CountsHold
  <2> QED BY <2>1, <2>2, <2>3 DEF CountsHold
<1>9. KeyLimitHolds' BY <1>4, ActiveFinite, KeysAssumption DEF KeyLimitHolds
<1> QED BY <1>5, <1>6, <1>7, <1>8, <1>9

LEMMA KeysInitially == KeysInit => KeysConsistent
<1> SUFFICES ASSUME KeysInit PROVE KeysConsistent OBVIOUS
<1>1. NoRequest \in Request /\ NoRequest.pc = "idle" /\ NoRequest.revoked = {}
  BY DEF NoRequest, Request
<1>2. KeysTypeOK BY <1>1 DEF KeysInit, KeysTypeOK, Key, Audit
<1>3. AuditTellsKeys BY DEF KeysInit, AuditTellsKeys
<1>4. RowsHeld BY <1>1 DEF KeysInit, RowsHeld
<1>5. CountsHold BY <1>1 DEF KeysInit, CountsHold
<1>6. KeyLimitHolds
  <2>1. \A u \in Owners : Active(u) = {} BY DEF KeysInit, Active
  <2> QED BY <2>1, FS_EmptySet, KeysAssumption DEF KeyLimitHolds
<1> QED BY <1>2, <1>3, <1>4, <1>5, <1>6 DEF KeysConsistent

LEMMA KeysPreserved == KeysConsistent /\ [KeysNext]_keyVars => KeysConsistent'
<1> SUFFICES ASSUME KeysConsistent, [KeysNext]_keyVars PROVE KeysConsistent' OBVIOUS
<1>1. ASSUME NEW q \in Requests,
             \/ \E u \in Owners : AskKey(q, u)
             \/ LockOwner(q) \/ CountKeys(q) \/ AskRevoke(q) \/ AbortRequest(q)
             \/ \E k \in Keys : Revoke(q, k)
      PROVE  KeysConsistent'
  BY <1>1, QuietKeysStep
<1>2. ASSUME NEW q \in Requests, InsertKey(q) PROVE KeysConsistent' BY <1>2, InsertStep
<1>3. ASSUME NEW q \in Requests, CommitRevoke(q) PROVE KeysConsistent' BY <1>3, CommitStep
<1>4. CASE UNCHANGED keyVars
  BY <1>4 DEF keyVars, KeysConsistent, KeysTypeOK, AuditTellsKeys, RowsHeld, CountsHold,
              KeyLimitHolds, Active
<1> QED BY <1>1, <1>2, <1>3, <1>4 DEF KeysNext

\* What holds of the keys, whatever the calls do (api-key.service.ts).
THEOREM KeysAlwaysConsistent == Spec => []KeysConsistent
<1>1. Init => KeysConsistent BY KeysInitially DEF Init
<1>2. KeysConsistent /\ [Next]_vars => KeysConsistent'
  BY KeysPreserved DEF Next, DeskStep, vars
<1> QED BY <1>1, <1>2, PTL DEF Spec

\* No user has more keys than the limit (createApiKey).
THEOREM KeysLimited == Spec => []KeyLimitHolds
BY KeysAlwaysConsistent, PTL DEF KeysConsistent

\* The audit log tells the life of each key (revokeApiKey).
THEOREM AuditIsTrue == Spec => []AuditTellsKeys
BY KeysAlwaysConsistent, PTL DEF KeysConsistent

-----------------------------------------------------------------------------
(* A limiter: what each operation does to the levels. *)

IsLimiter(l, S, n) ==
  /\ l \in [buckets : {l.buckets}, ops : Nat]
  /\ DOMAIN l.buckets \subseteq S
  /\ l.buckets \in [DOMAIN l.buckets -> [tokens : 0..Full, at : 0..n]]

LEMMA FullIsNat == Full \in Nat /\ Share \in Nat \ {0} /\ Full >= Share
<1>1. Capacity \in Nat /\ Capacity >= 1 /\ Share \in Nat /\ Share >= 1
  BY LimiterAssumption
<1>2. Capacity * Share >= Share BY <1>1
<1> QED BY <1>1, <1>2 DEF Full

LEMMA RefilledRange ==
  ASSUME NEW S, NEW n \in Nat, NEW l, IsLimiter(l, S, n), NEW k \in DOMAIN l.buckets
  PROVE  Refilled(l.buckets[k], n) \in 0..Full
<1>1. l.buckets[k].tokens \in 0..Full /\ l.buckets[k].at \in 0..n BY DEF IsLimiter
<1> QED BY <1>1, FullIsNat DEF Refilled

LEMMA LevelRange ==
  ASSUME NEW S, NEW n \in Nat, NEW l, IsLimiter(l, S, n), NEW k
  PROVE  Level(l, k, n) \in 0..Full
BY RefilledRange, FullIsNat DEF Level

\* Buckets that are full may go.
LEMMA WithoutLevel ==
  ASSUME NEW S, NEW n \in Nat, NEW l, IsLimiter(l, S, n), NEW ks
  PROVE  /\ IsLimiter(Without(l, ks), S, n)
         /\ DOMAIN Without(l, ks).buckets = DOMAIN l.buckets \ ks
         /\ \A j : Level(Without(l, ks), j, n) = IF j \in ks THEN Full ELSE Level(l, j, n)
<1> DEFINE w == [k \in DOMAIN l.buckets \ ks |-> l.buckets[k]]
<1>1. Without(l, ks) = [buckets |-> w, ops |-> l.ops]
  BY DEF Without, IsLimiter
<1>2. w \in [DOMAIN l.buckets \ ks -> [tokens : 0..Full, at : 0..n]] BY DEF IsLimiter
<1>3. /\ DOMAIN w = DOMAIN l.buckets \ ks
      /\ \A k \in DOMAIN l.buckets \ ks : w[k] = l.buckets[k]
  OBVIOUS
<1> HIDE DEF w
<1>4. IsLimiter(Without(l, ks), S, n) BY <1>1, <1>2, <1>3 DEF IsLimiter
<1>5. \A j : Level(Without(l, ks), j, n) = IF j \in ks THEN Full ELSE Level(l, j, n)
  BY <1>1, <1>3 DEF Level
<1> QED BY <1>1, <1>3, <1>4, <1>5

LEMMA WithLevel ==
  ASSUME NEW S, NEW n \in Nat, NEW l, IsLimiter(l, S, n), NEW k \in S, NEW v \in 0..Full
  PROVE  /\ IsLimiter(With(l, k, v, n), S, n)
         /\ \A j : Level(With(l, k, v, n), j, n) = IF j = k THEN v ELSE Level(l, j, n)
<1> DEFINE D == DOMAIN l.buckets \union {k}
           w == [j \in D |-> IF j = k THEN [tokens |-> v, at |-> n] ELSE l.buckets[j]]
<1>1. With(l, k, v, n) = [buckets |-> w, ops |-> l.ops] BY DEF With, IsLimiter
<1>2. w \in [D -> [tokens : 0..Full, at : 0..n]]
  <2>1. [tokens |-> v, at |-> n] \in [tokens : 0..Full, at : 0..n] OBVIOUS
  <2> QED BY <2>1 DEF IsLimiter
<1>3. /\ DOMAIN w = D /\ w[k] = [tokens |-> v, at |-> n]
      /\ \A j \in D \ {k} : w[j] = l.buckets[j]
  OBVIOUS
<1>4. D \subseteq S BY DEF IsLimiter
<1>5. \A j : j # k => (j \in D <=> j \in DOMAIN l.buckets) OBVIOUS
<1>6. k \in D OBVIOUS
<1> HIDE DEF w, D
<1>7. IsLimiter(With(l, k, v, n), S, n) BY <1>1, <1>2, <1>3, <1>4 DEF IsLimiter
<1>8. Level(With(l, k, v, n), k, n) = v
  <2>1. Refilled([tokens |-> v, at |-> n], n) = v BY FullIsNat DEF Refilled
  <2> QED BY <2>1, <1>1, <1>3, <1>6 DEF Level
<1>9. \A j : j # k => Level(With(l, k, v, n), j, n) = Level(l, j, n)
  BY <1>1, <1>3, <1>5 DEF Level
<1> QED BY <1>7, <1>8, <1>9

\* A sweep takes full buckets only.
LEMMA TickedLevel ==
  ASSUME NEW S, NEW n \in Nat, NEW l, IsLimiter(l, S, n)
  PROVE  /\ IsLimiter(Ticked(l, n), S, n)
         /\ \A j : Level(Ticked(l, n), j, n) = Level(l, j, n)
<1>1. CASE l.ops + 1 >= SweepEvery
  <2> DEFINE w == Without(l, Stale(l, n))
  <2>1. Ticked(l, n) = [w EXCEPT !.ops = 0] BY <1>1 DEF Ticked
  <2>2. IsLimiter(w, S, n) BY WithoutLevel
  <2>3. \A j : Level(w, j, n) = IF j \in Stale(l, n) THEN Full ELSE Level(l, j, n)
    BY WithoutLevel
  <2>4. \A j \in Stale(l, n) : Level(l, j, n) = Full
    BY RefilledRange, FullIsNat DEF Stale, Level
  <2>5. \A j : Level(w, j, n) = Level(l, j, n) BY <2>3, <2>4
  <2> HIDE DEF w
  <2>6. /\ [w EXCEPT !.ops = 0].buckets = w.buckets
        /\ [w EXCEPT !.ops = 0] \in [buckets : {w.buckets}, ops : Nat]
    BY <2>2 DEF IsLimiter
  <2> QED BY <2>1, <2>2, <2>5, <2>6 DEF IsLimiter, Level
<1>2. CASE ~(l.ops + 1 >= SweepEvery)
  <2>1. Ticked(l, n) = [l EXCEPT !.ops = l.ops + 1] BY <1>2 DEF Ticked
  <2>2. /\ [l EXCEPT !.ops = l.ops + 1].buckets = l.buckets
        /\ [l EXCEPT !.ops = l.ops + 1] \in [buckets : {l.buckets}, ops : Nat]
    BY DEF IsLimiter
  <2> QED BY <2>1, <2>2 DEF IsLimiter, Level
<1> QED BY <1>1, <1>2

LEMMA ConsumeLevel ==
  ASSUME NEW S, NEW n \in Nat, NEW l, IsLimiter(l, S, n), NEW k \in S
  PROVE  /\ IsLimiter(Consume(l, k, n), S, n)
         /\ Allows(l, k, n) <=> Level(l, k, n) >= Share
         /\ Level(Consume(l, k, n), k, n) =
              IF Allows(l, k, n) THEN Level(l, k, n) - Share ELSE Level(l, k, n)
         /\ \A j : j # k => Level(Consume(l, k, n), j, n) = Level(l, j, n)
<1> DEFINE t == Ticked(l, n)
           v == IF Level(t, k, n) >= Share THEN Level(t, k, n) - Share ELSE Level(t, k, n)
<1>1. IsLimiter(t, S, n) /\ \A j : Level(t, j, n) = Level(l, j, n) BY TickedLevel
<1>2. Level(t, k, n) \in 0..Full BY <1>1, LevelRange
<1>3. v \in 0..Full BY <1>2, FullIsNat
<1>4. Consume(l, k, n) = With(t, k, v, n) BY DEF Consume
<1>5. Allows(l, k, n) <=> Level(t, k, n) >= Share BY DEF Allows
<1>6. v = IF Allows(l, k, n) THEN Level(l, k, n) - Share ELSE Level(l, k, n)
  BY <1>1, <1>5
<1> HIDE DEF t, v
<1>7. /\ IsLimiter(With(t, k, v, n), S, n)
      /\ \A j : Level(With(t, k, v, n), j, n) = IF j = k THEN v ELSE Level(t, j, n)
  BY <1>1, <1>3, WithLevel
<1> QED BY <1>1, <1>4, <1>5, <1>6, <1>7

LEMMA RefundLevel ==
  ASSUME NEW S, NEW n \in Nat, NEW l, IsLimiter(l, S, n), NEW k \in S
  PROVE  /\ IsLimiter(Refund(l, k, n), S, n)
         /\ Level(Refund(l, k, n), k, n) =
              IF Level(l, k, n) + Share >= Full THEN Full ELSE Level(l, k, n) + Share
         /\ \A j : j # k => Level(Refund(l, k, n), j, n) = Level(l, j, n)
<1> DEFINE t == Ticked(l, n)
           v == Level(t, k, n) + Share
<1>1. IsLimiter(t, S, n) /\ \A j : Level(t, j, n) = Level(l, j, n) BY TickedLevel
<1>2. Level(t, k, n) \in 0..Full BY <1>1, LevelRange
<1>3. Refund(l, k, n) = IF k \notin DOMAIN t.buckets THEN t
                        ELSE IF v >= Full THEN Without(t, {k}) ELSE With(t, k, v, n)
  BY DEF Refund
<1>4. k \notin DOMAIN t.buckets => Level(t, k, n) = Full BY DEF Level
<1>5. v = Level(t, k, n) + Share /\ v = Level(l, k, n) + Share BY <1>1
<1> HIDE DEF t, v
<1>6. CASE k \notin DOMAIN t.buckets BY <1>1, <1>3, <1>4, <1>5, <1>6, FullIsNat
<1>7. CASE k \in DOMAIN t.buckets /\ v >= Full
  <2> DEFINE w == Without(t, {k})
  <2>1. IsLimiter(w, S, n) BY <1>1, WithoutLevel
  <2>2. \A j : Level(w, j, n) = IF j \in {k} THEN Full ELSE Level(t, j, n)
    BY <1>1, WithoutLevel
  <2>3. Refund(l, k, n) = w BY <1>3, <1>7
  <2> HIDE DEF w
  <2> QED BY <2>1, <2>2, <2>3, <1>1, <1>5, <1>7
<1>8. CASE k \in DOMAIN t.buckets /\ ~(v >= Full)
  <2>1. v \in 0..Full BY <1>2, <1>5, <1>8, FullIsNat
  <2>2. /\ IsLimiter(With(t, k, v, n), S, n)
        /\ \A j : Level(With(t, k, v, n), j, n) = IF j = k THEN v ELSE Level(t, j, n)
    BY <1>1, <2>1, WithLevel
  <2> QED BY <2>2, <1>1, <1>3, <1>5, <1>8
<1> QED BY <1>6, <1>7, <1>8

\* In a tick of the clock a level rises by one at most.
LEMMA TimeLevel ==
  ASSUME NEW S, NEW n \in Nat, NEW l, IsLimiter(l, S, n)
  PROVE  /\ IsLimiter(l, S, n + 1)
         /\ \A j : /\ Level(l, j, n) <= Level(l, j, n + 1)
                   /\ Level(l, j, n + 1) <= Level(l, j, n) + 1
<1>1. IsLimiter(l, S, n + 1)
  <2>1. \A b \in [tokens : 0..Full, at : 0..n] : b \in [tokens : 0..Full, at : 0..(n + 1)]
    OBVIOUS
  <2> QED BY <2>1 DEF IsLimiter
<1>2. ASSUME NEW j
      PROVE  /\ Level(l, j, n) <= Level(l, j, n + 1)
             /\ Level(l, j, n + 1) <= Level(l, j, n) + 1
  <2>1. CASE j \in DOMAIN l.buckets
    <3>1. l.buckets[j].tokens \in 0..Full /\ l.buckets[j].at \in 0..n
      BY <2>1 DEF IsLimiter
    <3> QED BY <2>1, <3>1, FullIsNat DEF Level, Refilled
  <2>2. CASE j \notin DOMAIN l.buckets BY <2>2, FullIsNat DEF Level
  <2> QED BY <2>1, <2>2
<1> QED BY <1>1, <1>2

-----------------------------------------------------------------------------
(* Calls. *)

Call == [pc : {"free", "check", "limit"}, from : Addresses \union {""}, key : Keys \union {""}]

ApiTypeOK ==
  /\ now \in Nat
  /\ IsLimiter(gate, Addresses, now) /\ IsLimiter(limiter, Keys, now)
  /\ call \in [Calls -> Call]
  /\ \A c \in Calls : call[c].pc # "free" => call[c].from \in Addresses /\ call[c].key \in Keys
  /\ failed \in [Addresses -> Nat] /\ passed \in [Keys -> Nat]

CallsConsistent == ApiTypeOK /\ OnlyFailuresDrain /\ LimitsHold

\* What an address has taken from its bucket.
Spent(a) == failed[a] + Cardinality(Pending(a))

\* The two properties of the gate, of one address.
Balanced(level, spent, time) == level + Share * spent >= Full /\ level + Share * spent <= Full + time

LEMMA PendingFinite ==
  ASSUME NEW a
  PROVE  IsFiniteSet(Pending(a)) /\ Cardinality(Pending(a)) \in Nat
<1>1. Pending(a) \subseteq Calls BY DEF Pending
<1> QED BY <1>1, FS_Subset, FS_CardinalityType, CallsAssumption

LEMMA SpentIsNat == ASSUME ApiTypeOK, NEW a \in Addresses PROVE Spent(a) \in Nat
BY PendingFinite DEF Spent, ApiTypeOK

LEMMA Balances ==
  CallsConsistent <=> /\ ApiTypeOK
                      /\ \A a \in Addresses : Balanced(Level(gate, a, now), Spent(a), now)
                      /\ \A k \in Keys : Level(limiter, k, now) + Share * passed[k] <= Full + now
BY DEF CallsConsistent, OnlyFailuresDrain, LimitsHold, Balanced, Spent

\* A token taken and one given back.
LEMMA Taking ==
  ASSUME NEW x \in 0..Full, NEW s \in Nat, NEW t \in Nat, Balanced(x, s, t), x >= Share
  PROVE  Balanced(x - Share, s + 1, t)
<1>1. Share * (s + 1) = Share * s + Share BY FullIsNat
<1>2. Share * s \in Nat BY FullIsNat
<1> QED BY <1>1, <1>2, FullIsNat DEF Balanced

LEMMA Giving ==
  ASSUME NEW x \in 0..Full, NEW s \in Nat, NEW t \in Nat, Balanced(x, s + 1, t)
  PROVE  Balanced(IF x + Share >= Full THEN Full ELSE x + Share, s, t)
<1>1. Share * (s + 1) = Share * s + Share BY FullIsNat
<1>2. Share * s \in Nat BY FullIsNat
<1> QED BY <1>1, <1>2, FullIsNat DEF Balanced

\* A call begins or ends its check: what is pending.
LEMMA PendingMore ==
  ASSUME ApiTypeOK, NEW c \in Calls, NEW a \in Addresses, NEW k \in Keys, call[c].pc # "check",
         call' = [call EXCEPT ![c] = [pc |-> "check", from |-> a, key |-> k]]
  PROVE  /\ Cardinality(Pending(a)') = Cardinality(Pending(a)) + 1
         /\ \A b : b # a => Pending(b)' = Pending(b)
<1>1. /\ call'[c] = [pc |-> "check", from |-> a, key |-> k]
      /\ \A d \in Calls \ {c} : call'[d] = call[d]
  BY DEF ApiTypeOK
<1>2. Pending(a)' = Pending(a) \union {c} /\ c \notin Pending(a) BY <1>1 DEF Pending
<1>3. \A b : b # a => Pending(b)' = Pending(b) BY <1>1 DEF Pending
<1> QED BY <1>2, <1>3, PendingFinite, FS_AddElement

LEMMA PendingLess ==
  ASSUME ApiTypeOK, NEW c \in Calls, call[c].pc = "check", NEW r \in Call, r.pc # "check",
         NEW a, a = call[c].from, call' = [call EXCEPT ![c] = r]
  PROVE  /\ Cardinality(Pending(a)) = Cardinality(Pending(a)') + 1
         /\ Cardinality(Pending(a)') \in Nat
         /\ \A b : b # a => Pending(b)' = Pending(b)
<1>1. call'[c] = r /\ \A d \in Calls \ {c} : call'[d] = call[d] BY DEF ApiTypeOK
<1>2. Pending(a)' = Pending(a) \ {c} /\ c \in Pending(a) BY <1>1 DEF Pending
<1>3. \A b : b # a => Pending(b)' = Pending(b) BY <1>1 DEF Pending
<1>4. /\ Cardinality(Pending(a)') = Cardinality(Pending(a)) - 1
      /\ IsFiniteSet(Pending(a)')
  BY <1>2, PendingFinite, FS_RemoveElement
<1> QED BY <1>3, <1>4, PendingFinite, FS_CardinalityType

LEMMA BalancesNext ==
  ASSUME ApiTypeOK',
         \A a \in Addresses : Balanced(Level(gate, a, now)', Spent(a)', now'),
         \A k \in Keys : Level(limiter, k, now)' + Share * passed'[k] <= Full + now'
  PROVE  CallsConsistent'
BY DEF CallsConsistent, OnlyFailuresDrain, LimitsHold, Balanced, Spent

LEMMA TakeUpStep ==
  ASSUME CallsConsistent, NEW c \in Calls, NEW a \in Addresses, NEW k \in Keys, TakeUp(c, a, k)
  PROVE  CallsConsistent'
<1>1. ApiTypeOK BY DEF CallsConsistent
<1>2. /\ IsLimiter(gate', Addresses, now)
      /\ Allows(gate, a, now) <=> Level(gate, a, now) >= Share
      /\ Level(gate', a, now) =
           IF Allows(gate, a, now) THEN Level(gate, a, now) - Share ELSE Level(gate, a, now)
      /\ \A b : b # a => Level(gate', b, now) = Level(gate, b, now)
  BY <1>1, ConsumeLevel DEF TakeUp, ApiTypeOK
<1>3. Level(gate, a, now) \in 0..Full BY <1>1, LevelRange DEF ApiTypeOK
<1>4. UNCHANGED <<limiter, now, failed, passed>> BY DEF TakeUp
<1>5. ApiTypeOK'
  <2>1. [pc |-> "check", from |-> a, key |-> k] \in Call BY DEF Call
  <2>2. /\ call' \in [Calls -> Call]
        /\ \A d \in Calls :
             call'[d].pc # "free" => call'[d].from \in Addresses /\ call'[d].key \in Keys
    BY <1>1, <2>1 DEF TakeUp, ApiTypeOK
  <2> QED BY <1>1, <1>2, <1>4, <2>2 DEF ApiTypeOK
<1>6. /\ \A b \in Addresses \ {a} : Spent(b)' = Spent(b)
      /\ Spent(a)' = IF Allows(gate, a, now) THEN Spent(a) + 1 ELSE Spent(a)
  <2>1. CASE Allows(gate, a, now)
    <3>1. /\ call[c].pc # "check"
          /\ call' = [call EXCEPT ![c] = [pc |-> "check", from |-> a, key |-> k]]
      BY <2>1 DEF TakeUp
    <3>2. /\ Cardinality(Pending(a)') = Cardinality(Pending(a)) + 1
          /\ \A b : b # a => Pending(b)' = Pending(b)
      BY <1>1, <3>1, PendingMore
    <3>3. failed' = failed /\ failed[a] \in Nat BY <1>1, <1>4 DEF ApiTypeOK
    <3> QED BY <2>1, <3>2, <3>3, PendingFinite DEF Spent
  <2>2. CASE ~Allows(gate, a, now) BY <1>4, <2>2 DEF TakeUp, Spent, Pending
  <2> QED BY <2>1, <2>2
<1>7. \A b \in Addresses : Balanced(Level(gate, b, now)', Spent(b)', now')
  <2>1. Balanced(Level(gate, a, now)', Spent(a)', now')
    <3>1. Balanced(Level(gate, a, now), Spent(a), now) BY Balances
    <3>2. now \in Nat /\ Spent(a) \in Nat BY <1>1, SpentIsNat DEF ApiTypeOK
    <3> QED BY <1>2, <1>3, <1>4, <1>6, <3>1, <3>2, Taking
  <2> QED BY <1>2, <1>4, <1>6, <2>1, Balances
<1>8. \A j \in Keys : Level(limiter, j, now)' + Share * passed'[j] <= Full + now'
  BY <1>4, Balances
<1> QED BY <1>5, <1>7, <1>8, BalancesNext

LEMMA TakeUpBareStep ==
  ASSUME CallsConsistent, NEW a \in Addresses, TakeUpBare(a)
  PROVE  CallsConsistent'
<1>1. ApiTypeOK BY DEF CallsConsistent
<1>2. /\ IsLimiter(gate', Addresses, now)
      /\ Allows(gate, a, now) <=> Level(gate, a, now) >= Share
      /\ Level(gate', a, now) =
           IF Allows(gate, a, now) THEN Level(gate, a, now) - Share ELSE Level(gate, a, now)
      /\ \A b : b # a => Level(gate', b, now) = Level(gate, b, now)
  <2>1. IsLimiter(gate, Addresses, now) /\ now \in Nat BY <1>1 DEF ApiTypeOK
  <2>2. gate' = Consume(gate, a, now) BY DEF TakeUpBare
  <2> QED BY ZenonT(60), <2>1, <2>2, ConsumeLevel
<1>3. Level(gate, a, now) \in 0..Full BY <1>1, LevelRange DEF ApiTypeOK
<1>4. UNCHANGED <<limiter, call, now, passed>> BY DEF TakeUpBare
<1>5. /\ failed' \in [Addresses -> Nat]
      /\ \A b \in Addresses \ {a} : failed'[b] = failed[b]
      /\ failed'[a] = IF Allows(gate, a, now) THEN failed[a] + 1 ELSE failed[a]
  BY <1>1 DEF TakeUpBare, ApiTypeOK
<1>6. ApiTypeOK' BY <1>1, <1>2, <1>4, <1>5 DEF ApiTypeOK
<1>7. /\ \A b \in Addresses \ {a} : Spent(b)' = Spent(b)
      /\ Spent(a)' = IF Allows(gate, a, now) THEN Spent(a) + 1 ELSE Spent(a)
  <2>1. \A b : Pending(b)' = Pending(b) BY <1>4 DEF Pending
  <2>2. failed[a] \in Nat BY <1>1 DEF ApiTypeOK
  <2> QED BY <1>5, <2>1, <2>2, PendingFinite DEF Spent
<1>8. \A b \in Addresses : Balanced(Level(gate, b, now)', Spent(b)', now')
  <2>1. Balanced(Level(gate, a, now)', Spent(a)', now')
    <3>1. Balanced(Level(gate, a, now), Spent(a), now) BY Balances
    <3>2. now \in Nat /\ Spent(a) \in Nat BY <1>1, SpentIsNat DEF ApiTypeOK
    <3> QED BY <1>2, <1>3, <1>4, <1>7, <3>1, <3>2, Taking
  <2> QED BY <1>2, <1>4, <1>7, <2>1, Balances
<1>9. \A j \in Keys : Level(limiter, j, now)' + Share * passed'[j] <= Full + now'
  BY <1>4, Balances
<1> QED BY <1>6, <1>8, <1>9, BalancesNext

LEMMA CheckStep ==
  ASSUME CallsConsistent, NEW c \in Calls, Check(c)
  PROVE  CallsConsistent'
<1>1. ApiTypeOK BY DEF CallsConsistent
<1>2. PICK a \in Addresses : a = call[c].from BY <1>1 DEF ApiTypeOK, Check
<1>3. PICK outcome \in Outcomes(call[c].key) :
        /\ gate' = IF GivesBack(outcome) THEN Refund(gate, a, now) ELSE gate
        /\ failed' = IF outcome \in {"invalid", "expired", "user_disabled"}
                     THEN [failed EXCEPT ![a] = @ + 1] ELSE failed
        /\ IF outcome = "ok" THEN call' = [call EXCEPT ![c].pc = "limit"] ELSE Answer(c)
  BY <1>2 DEF Check
<1>4. GivesBack(outcome) <=> outcome \notin {"invalid", "expired", "user_disabled"}
  BY DEF Outcomes, GivesBack
<1>5. call[c].pc = "check" /\ UNCHANGED <<limiter, now, passed>> BY DEF Check
<1>6. Level(gate, a, now) \in 0..Full BY <1>1, LevelRange DEF ApiTypeOK
<1>7. PICK r \in Call : /\ call' = [call EXCEPT ![c] = r] /\ r.pc # "check"
                        /\ r.pc # "free" => r.from \in Addresses /\ r.key \in Keys
  <2>1. CASE outcome = "ok"
    <3> DEFINE r == [call[c] EXCEPT !.pc = "limit"]
    <3>1. r \in Call /\ r.pc = "limit" /\ r.from = call[c].from /\ r.key = call[c].key
      BY <1>1 DEF ApiTypeOK, Call
    <3>2. call' = [call EXCEPT ![c] = r] BY <1>3, <2>1
    <3>3. r.from \in Addresses /\ r.key \in Keys BY <1>1, <1>5, <3>1 DEF ApiTypeOK
    <3> HIDE DEF r
    <3> QED BY <3>1, <3>2, <3>3
  <2>2. CASE outcome # "ok"
    <3>1. Free \in Call /\ Free.pc = "free" BY DEF Free, Call
    <3> QED BY <1>3, <2>2, <3>1 DEF Answer
  <2> QED BY <2>1, <2>2
<1>8. /\ Cardinality(Pending(a)) = Cardinality(Pending(a)') + 1
      /\ Cardinality(Pending(a)') \in Nat
      /\ \A b : b # a => Pending(b)' = Pending(b)
  BY <1>1, <1>2, <1>5, <1>7, PendingLess
<1>9. /\ failed' \in [Addresses -> Nat] /\ failed[a] \in Nat
      /\ \A b \in Addresses \ {a} : failed'[b] = failed[b]
      /\ failed'[a] = IF GivesBack(outcome) THEN failed[a] ELSE failed[a] + 1
  BY <1>1, <1>3, <1>4 DEF ApiTypeOK
<1>10. /\ IsLimiter(gate', Addresses, now)
       /\ Level(gate', a, now) =
            IF GivesBack(outcome)
            THEN IF Level(gate, a, now) + Share >= Full THEN Full ELSE Level(gate, a, now) + Share
            ELSE Level(gate, a, now)
       /\ \A b : b # a => Level(gate', b, now) = Level(gate, b, now)
  <2>1. IsLimiter(gate, Addresses, now) /\ now \in Nat BY <1>1 DEF ApiTypeOK
  <2> QED BY ZenonT(60), <1>3, <2>1, RefundLevel
<1>11. ApiTypeOK'
  <2>1. /\ call' \in [Calls -> Call]
        /\ \A d \in Calls :
             call'[d].pc # "free" => call'[d].from \in Addresses /\ call'[d].key \in Keys
    BY <1>1, <1>7 DEF ApiTypeOK
  <2> QED BY <1>1, <1>5, <1>9, <1>10, <2>1 DEF ApiTypeOK
<1>12. /\ Spent(a)' \in Nat
       /\ Spent(a) = IF GivesBack(outcome) THEN Spent(a)' + 1 ELSE Spent(a)'
       /\ \A b \in Addresses \ {a} : Spent(b)' = Spent(b)
  BY <1>8, <1>9 DEF Spent
<1>13. \A b \in Addresses : Balanced(Level(gate, b, now)', Spent(b)', now')
  <2>1. Balanced(Level(gate, a, now), Spent(a), now) BY Balances
  <2>2. now \in Nat BY <1>1 DEF ApiTypeOK
  <2>3. CASE GivesBack(outcome)
    <3>1. Balanced(IF Level(gate, a, now) + Share >= Full THEN Full
                   ELSE Level(gate, a, now) + Share, Spent(a)', now)
      BY <1>6, <1>12, <2>1, <2>2, <2>3, Giving
    <3> QED BY <1>5, <1>10, <1>12, <2>3, <3>1, Balances
  <2>4. CASE ~GivesBack(outcome) BY <1>5, <1>10, <1>12, <2>1, <2>4, Balances
  <2> QED BY <2>3, <2>4
<1>14. \A j \in Keys : Level(limiter, j, now)' + Share * passed'[j] <= Full + now'
  BY <1>5, Balances
<1> QED BY <1>11, <1>13, <1>14, BalancesNext

LEMMA LimitStep ==
  ASSUME CallsConsistent, NEW c \in Calls, Limit(c)
  PROVE  CallsConsistent'
<1>1. ApiTypeOK BY DEF CallsConsistent
<1>2. PICK k \in Keys : k = call[c].key BY <1>1 DEF ApiTypeOK, Limit
<1>3. /\ IsLimiter(limiter', Keys, now)
      /\ Allows(limiter, k, now) <=> Level(limiter, k, now) >= Share
      /\ Level(limiter', k, now) =
           IF Allows(limiter, k, now) THEN Level(limiter, k, now) - Share
                                      ELSE Level(limiter, k, now)
      /\ \A j : j # k => Level(limiter', j, now) = Level(limiter, j, now)
  <2>1. IsLimiter(limiter, Keys, now) /\ now \in Nat BY <1>1 DEF ApiTypeOK
  <2>2. limiter' = Consume(limiter, k, now) BY <1>2 DEF Limit
  <2> QED BY <2>1, <2>2, ConsumeLevel
<1>4. /\ passed' \in [Keys -> Nat] /\ passed[k] \in Nat
      /\ \A j \in Keys \ {k} : passed'[j] = passed[j]
      /\ passed'[k] = IF Allows(limiter, k, now) THEN passed[k] + 1 ELSE passed[k]
  BY <1>1, <1>2 DEF Limit, ApiTypeOK
<1>5. UNCHANGED <<gate, now, failed>> /\ call' = [call EXCEPT ![c] = Free]
  BY DEF Limit, Answer
<1>6. ApiTypeOK'
  <2>1. Free \in Call /\ Free.pc = "free" BY DEF Free, Call
  <2>2. /\ call' \in [Calls -> Call]
        /\ \A d \in Calls :
             call'[d].pc # "free" => call'[d].from \in Addresses /\ call'[d].key \in Keys
    BY <1>1, <1>5, <2>1 DEF ApiTypeOK
  <2> QED BY <1>1, <1>3, <1>4, <1>5, <2>2 DEF ApiTypeOK
<1>7. \A a : Pending(a)' = Pending(a)
  <2>1. call[c].pc = "limit" /\ Free.pc = "free" BY DEF Limit, Free
  <2> QED BY <1>1, <1>5, <2>1 DEF Pending, ApiTypeOK
<1>8. \A a \in Addresses : Balanced(Level(gate, a, now)', Spent(a)', now')
  BY <1>5, <1>7, Balances DEF Spent
<1>9. \A j \in Keys : Level(limiter, j, now)' + Share * passed'[j] <= Full + now'
  <2>1. Level(limiter', k, now) + Share * passed'[k] <= Full + now
    <3>1. Level(limiter, k, now) + Share * passed[k] <= Full + now BY Balances
    <3>2. Share * (passed[k] + 1) = Share * passed[k] + Share BY <1>4, FullIsNat
    <3>3. Level(limiter, k, now) \in 0..Full BY <1>1, LevelRange DEF ApiTypeOK
    <3>4. Share * passed[k] \in Nat /\ Share * passed'[k] \in Nat BY <1>4, FullIsNat
    <3> QED BY <1>3, <1>4, <3>1, <3>2, <3>3, <3>4, FullIsNat
  <2> QED BY <1>3, <1>4, <1>5, <2>1, Balances
<1> QED BY <1>6, <1>8, <1>9, BalancesNext

LEMMA PassTimeStep ==
  ASSUME CallsConsistent, PassTime
  PROVE  CallsConsistent'
<1>1. ApiTypeOK BY DEF CallsConsistent
<1>2. now \in Nat /\ now' = now + 1 /\ UNCHANGED <<gate, limiter, call, failed, passed>>
  BY <1>1 DEF PassTime, ApiTypeOK
<1>3. /\ IsLimiter(gate, Addresses, now) /\ IsLimiter(limiter, Keys, now) BY <1>1 DEF ApiTypeOK
<1>4. ApiTypeOK' BY <1>1, <1>2, <1>3, TimeLevel DEF ApiTypeOK
<1>5. \A a \in Addresses : Balanced(Level(gate, a, now)', Spent(a)', now')
  <2> SUFFICES ASSUME NEW a \in Addresses PROVE Balanced(Level(gate, a, now)', Spent(a)', now')
    OBVIOUS
  <2>1. Balanced(Level(gate, a, now), Spent(a), now) BY Balances
  <2>2. Spent(a)' = Spent(a) /\ Share * Spent(a) \in Nat
    BY <1>1, <1>2, SpentIsNat, FullIsNat DEF Spent, Pending
  <2>3. Level(gate, a, now) \in 0..Full BY <1>2, <1>3, LevelRange
  <2>4. /\ Level(gate, a, now) <= Level(gate, a, now + 1)
        /\ Level(gate, a, now + 1) <= Level(gate, a, now) + 1
        /\ Level(gate, a, now + 1) \in 0..Full
    BY <1>2, <1>3, TimeLevel, LevelRange
  <2> QED BY <1>2, <2>1, <2>2, <2>3, <2>4, FullIsNat DEF Balanced
<1>6. \A k \in Keys : Level(limiter, k, now)' + Share * passed'[k] <= Full + now'
  <2> SUFFICES ASSUME NEW k \in Keys
               PROVE  Level(limiter, k, now)' + Share * passed'[k] <= Full + now'
    OBVIOUS
  <2>1. Level(limiter, k, now) + Share * passed[k] <= Full + now BY Balances
  <2>2. Share * passed[k] \in Nat BY <1>1, FullIsNat DEF ApiTypeOK
  <2>3. /\ Level(limiter, k, now) \in 0..Full
        /\ Level(limiter, k, now + 1) \in 0..Full
        /\ Level(limiter, k, now + 1) <= Level(limiter, k, now) + 1
    BY <1>2, <1>3, TimeLevel, LevelRange
  <2> QED BY <1>2, <2>1, <2>2, <2>3, FullIsNat
<1> QED BY <1>4, <1>5, <1>6, BalancesNext

LEMMA CallsInitially == Init => CallsConsistent
<1> SUFFICES ASSUME Init PROVE CallsConsistent OBVIOUS
<1>1. \A S : IsLimiter(New, S, 0) BY DEF New, IsLimiter
<1>2. \A k : Level(New, k, 0) = Full BY DEF New, Level
<1>3. Free \in Call /\ Free.pc = "free" BY DEF Free, Call
<1>4. ApiTypeOK BY <1>1, <1>3 DEF Init, ApiTypeOK
<1>5. \A a \in Addresses : Spent(a) = 0
  <2>1. \A a : Pending(a) = {} BY <1>3 DEF Init, Pending
  <2> QED BY <2>1, FS_EmptySet DEF Init, Spent
<1>6. \A a \in Addresses : Balanced(Level(gate, a, now), Spent(a), now)
  BY <1>2, <1>5, FullIsNat DEF Init, Balanced
<1>7. \A k \in Keys : Level(limiter, k, now) + Share * passed[k] <= Full + now
  BY <1>2, FullIsNat DEF Init
<1> QED BY <1>4, <1>6, <1>7, Balances

\* What holds of the calls and the two limiters (app.ts, api-rate-limit.service.ts).
THEOREM CallsAlwaysConsistent == Spec => []CallsConsistent
<1>1. CallsConsistent /\ [Next]_vars => CallsConsistent'
  <2> SUFFICES ASSUME CallsConsistent, [Next]_vars PROVE CallsConsistent' OBVIOUS
  <2>1. CASE ApiStep
    BY <2>1, TakeUpStep, TakeUpBareStep, CheckStep, LimitStep, PassTimeStep DEF ApiStep
  <2>2. CASE UNCHANGED apiVars
    <3>1. ApiTypeOK' BY <2>2 DEF apiVars, CallsConsistent, ApiTypeOK
    <3>2. \A a \in Addresses : Balanced(Level(gate, a, now)', Spent(a)', now')
      BY <2>2, Balances DEF apiVars, Spent, Pending
    <3>3. \A k \in Keys : Level(limiter, k, now)' + Share * passed'[k] <= Full + now'
      BY <2>2, Balances DEF apiVars
    <3> QED BY <3>1, <3>2, <3>3, BalancesNext
  <2> QED BY <2>1, <2>2 DEF Next, vars
<1> QED BY <1>1, CallsInitially, PTL DEF Spec

\* An address is refused for its failures only (bearerAuth).
THEOREM GateIsFair == Spec => []OnlyFailuresDrain
BY CallsAlwaysConsistent, PTL DEF CallsConsistent

\* No more is let through than the buckets hold (ApiRateLimiter).
THEOREM LimitsAlwaysHold == Spec => []LimitsHold
BY CallsAlwaysConsistent, PTL DEF CallsConsistent
=============================================================================
