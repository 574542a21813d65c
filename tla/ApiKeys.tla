-------------------------------- MODULE ApiKeys --------------------------------
(***************************************************************************)
(* Keys of the open API (apps/api/src/services/api-key.service.ts).        *)
(*                                                                         *)
(* Requests of the desk create and revoke keys side by side, each in a     *)
(* READ COMMITTED transaction.  Creating holds an advisory lock of the     *)
(* user; a revoked row is locked until its transaction ends.  An insert    *)
(* is seen by nobody before its commit, so that the two are one step.      *)
(*                                                                         *)
(* Abstracted: names, hashes, expiry (an outcome of validateApiKey in      *)
(* OpenApi) and lastUsedAt.                                                *)
(***************************************************************************)
EXTENDS Naturals, FiniteSets

CONSTANTS
  Keys,       \* rows of api_keys there may ever be
  Owners,     \* users that have keys
  KeyLimit,   \* API_KEY_LIMIT_PER_USER (10)
  Requests,   \* requests of the desk at once
  NoOwner     \* of a key that is not there, and of an idle request

ASSUME KeysAssumption ==
  /\ IsFiniteSet(Keys) /\ NoOwner \notin Owners /\ KeyLimit \in Nat

VARIABLES
  key,      \* api_keys, as committed
  audit,    \* per key: its entries in the audit log
  request   \* what each request has read and written

keyVars == <<key, audit, request>>

-----------------------------------------------------------------------------

Key == [owner : Owners \union {NoOwner}, status : {"absent", "active", "revoked"}]

Audit == [create : Nat, revoke : Nat]

Request == [pc : {"idle", "create", "locked", "counted", "revoke"},
            owner : Owners \union {NoOwner},
            todo : SUBSET Keys,      \* keys to revoke
            revoked : SUBSET Keys]   \* keys it has revoked

NoRequest == [pc |-> "idle", owner |-> NoOwner, todo |-> {}, revoked |-> {}]

KeysInit ==
  /\ key = [k \in Keys |-> [owner |-> NoOwner, status |-> "absent"]]
  /\ audit = [k \in Keys |-> [create |-> 0, revoke |-> 0]]
  /\ request = [q \in Requests |-> NoRequest]

Active(u) == {k \in Keys : key[k].owner = u /\ key[k].status = "active"}

Ends(q) == request' = [request EXCEPT ![q] = NoRequest]

-----------------------------------------------------------------------------
(* createApiKey *)

AskKey(q, u) ==
  /\ request[q].pc = "idle"
  /\ request' = [request EXCEPT ![q] = [NoRequest EXCEPT !.pc = "create", !.owner = u]]
  /\ UNCHANGED <<key, audit>>

\* Faulty variant: no lock while the keys are counted.
OwnerFreeAlways(q) == q \in Requests

\* pg_advisory_xact_lock(hashtext(user.id))
OwnerFree(q) ==
  \A p \in Requests \ {q} :
    request[p].owner = request[q].owner => request[p].pc \notin {"locked", "counted"}

LockOwner(q) ==
  /\ request[q].pc = "create" /\ OwnerFree(q)
  /\ request' = [request EXCEPT ![q].pc = "locked"]
  /\ UNCHANGED <<key, audit>>

\* The count, which is refused at the limit.
CountKeys(q) ==
  /\ request[q].pc = "locked"
  /\ IF Cardinality(Active(request[q].owner)) >= KeyLimit
     THEN Ends(q)
     ELSE request' = [request EXCEPT ![q].pc = "counted"]
  /\ UNCHANGED <<key, audit>>

InsertKey(q) ==
  /\ request[q].pc = "counted"
  /\ \E k \in Keys :
       /\ key[k].status = "absent"
       /\ key' = [key EXCEPT ![k] = [owner |-> request[q].owner, status |-> "active"]]
       /\ audit' = [audit EXCEPT ![k].create = @ + 1]
  /\ Ends(q)

-----------------------------------------------------------------------------
(* revokeApiKey and revokeAllApiKeysForUser *)

\* Keys to revoke are read without a lock: one, or all that are active.
AskRevoke(q) ==
  /\ request[q].pc = "idle"
  /\ \E todo \in {{k} : k \in {j \in Keys : key[j].status = "active"}}
                 \union {Active(u) : u \in Owners} :
       /\ todo # {}
       /\ request' = [request EXCEPT ![q] = [NoRequest EXCEPT !.pc = "revoke", !.todo = todo]]
  /\ UNCHANGED <<key, audit>>

\* Faulty variant: the row is updated by its id alone.
RevocableById(k) == key[k].status # "absent"

Revocable(k) == key[k].status = "active"

\* updateMany waits for the row and counts it if it is still active.
Revoke(q, k) ==
  /\ request[q].pc = "revoke" /\ k \in request[q].todo
  /\ ~\E p \in Requests : k \in request[p].revoked
  /\ request' = [request EXCEPT ![q].todo = @ \ {k},
                                ![q].revoked = IF Revocable(k) THEN @ \union {k} ELSE @]
  /\ UNCHANGED <<key, audit>>

\* Each key counted has its entry in the audit log.
CommitRevoke(q) ==
  /\ request[q].pc = "revoke" /\ request[q].todo = {}
  /\ key' = [k \in Keys |-> IF k \in request[q].revoked
                            THEN [key[k] EXCEPT !.status = "revoked"] ELSE key[k]]
  /\ audit' = [k \in Keys |-> IF k \in request[q].revoked
                              THEN [audit[k] EXCEPT !.revoke = @ + 1] ELSE audit[k]]
  /\ Ends(q)

\* The process or its connection breaks, or the database ends one of two that
\* wait for each other: what was written is rolled back.
AbortRequest(q) ==
  /\ request[q].pc # "idle"
  /\ Ends(q)
  /\ UNCHANGED <<key, audit>>

KeysNext ==
  \E q \in Requests :
    \/ \E u \in Owners : AskKey(q, u)
    \/ LockOwner(q) \/ CountKeys(q) \/ InsertKey(q)
    \/ AskRevoke(q) \/ (\E k \in Keys : Revoke(q, k)) \/ CommitRevoke(q)
    \/ AbortRequest(q)

-----------------------------------------------------------------------------
(* Properties. *)

KeysTypeOK ==
  /\ key \in [Keys -> Key]
  /\ audit \in [Keys -> Audit]
  /\ request \in [Requests -> Request]

\* However many keys are asked for at once, no user has more than the limit
\* (createApiKey: "a bare count and insert would issue too many").
KeyLimitHolds == \A u \in Owners : Cardinality(Active(u)) <= KeyLimit

\* The audit log tells the life of each key: created once, and revoked once
\* if it is revoked, whatever revocations race (revokeApiKey,
\* revokeAllApiKeysForUser).
AuditTellsKeys ==
  \A k \in Keys :
    /\ audit[k].create = IF key[k].status = "absent" THEN 0 ELSE 1
    /\ audit[k].revoke = IF key[k].status = "revoked" THEN 1 ELSE 0
=============================================================================
