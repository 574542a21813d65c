------------------------------ MODULE TicketIntake -----------------------------
(***************************************************************************)
(* The doors through which tickets come in, and what must not change       *)
(* behind them (apps/api/src/services/refund-push.service.ts,              *)
(* ticket-import.service.ts, ticket-import-batch.service.ts,               *)
(* dictionary-catalog.service.ts, routers/external-ticket.router.ts).      *)
(*                                                                         *)
(* Requests run side by side in READ COMMITTED transactions.  What none of *)
(* them can see of another is the order of the statements in between, so   *)
(* that a transaction whose writes wait for one lock at most commits in    *)
(* the step that writes.  A revocation locks a batch and then its tickets  *)
(* one by one, and a submission keeps its account locked while it looks    *)
(* for duplicates: these hold their locks over several steps.              *)
(*                                                                         *)
(* Abstracted: the fields of a ticket, of which one catalog reference      *)
(* stays; the difference between assigned and processing, which            *)
(* TicketLifecycle has; the customer, who is the same in all submissions   *)
(* of an account; names and order of a catalog.                            *)
(***************************************************************************)
EXTENDS Naturals, FiniteSets

CONSTANTS
  Tickets,       \* tickets there may ever be
  Entries,       \* entries of one catalog
  Endorsements,  \* endorsement numbers of pushed refunds
  Accounts,      \* external accounts
  Batches,       \* imports
  Requests,      \* requests served at once
  MaxAsked,      \* bound: requests begun
  None           \* no reference, and no door: a ticket that staff created

ASSUME ConstantsAssumption ==
  /\ None \notin Entries \union Endorsements \union Accounts \union Batches
  /\ Endorsements \cap (Accounts \union Batches) = {}
  /\ Accounts \cap Batches = {}
  /\ MaxAsked \in Nat

VARIABLES
  ticket,   \* the tickets, as committed
  entry,    \* the catalog, as committed
  prefill,  \* the entry that the submissions of each account refer to
  batch,    \* the imports, as committed
  answers,  \* the tickets that the pushes of each endorsement were answered with
  request,  \* what each request has read and locked
  asked     \* requests begun so far

vars == <<ticket, entry, prefill, batch, answers, request, asked>>

-----------------------------------------------------------------------------

Doors == Endorsements \union Accounts \union Batches \union {None}

Refs == Entries \union {None}

\* A ticket is owned while it is assigned or processing; it is reopened when it
\* is so again after it was completed, which the row does not tell.
Status == {"none", "unassigned", "owned", "reopened", "completed"}

\* worked: the log has an entry from after the ticket came in.
Ticket == [from : Doors, status : Status, deleted : BOOLEAN, worked : BOOLEAN, ref : Refs]

NoTicket == [from |-> None, status |-> "none", deleted |-> FALSE, worked |-> FALSE,
             ref |-> None]

Work == {"assign", "follow", "complete", "delete", "edit"}

Request ==
  [op : {"none", "push", "submit", "create", "import", "revoke", "drop", "pin"} \union Work,
   pc : {"idle", "read", "claimed", "checked"},
   on : Doors \union Tickets \union Entries,  \* what it is about
   ref : Refs,                                \* the reference it will write
   held : SUBSET Tickets]                     \* the tickets it holds locked

Idle == [op |-> "none", pc |-> "idle", on |-> None, ref |-> None, held |-> {}]

Init ==
  /\ ticket = [t \in Tickets |-> NoTicket]
  /\ entry \in [Entries -> {"new", "active"}]
  /\ prefill = [u \in Accounts |-> None]
  /\ batch = [b \in Batches |-> "none"]
  /\ answers = [n \in Endorsements |-> {}]
  /\ request = [q \in Requests |-> Idle]
  /\ asked = 0

Live(t) == ticket[t].status # "none" /\ ~ticket[t].deleted

From(d) == {t \in Tickets : ticket[t].status # "none" /\ ticket[t].from = d}

Fresh == {t \in Tickets : ticket[t].status = "none"}

\* What a foreign key on the catalog asks of a reference.
Refers(e) == e # None => entry[e] \in {"active", "disabled"}

\* Tickets ts come in through door d, those of done completed already.
Insert(ts, d, e, done) ==
  ticket' = [t \in Tickets |->
    IF t \in ts
    THEN [from |-> d, status |-> IF t \in done THEN "completed" ELSE "unassigned",
          deleted |-> FALSE, worked |-> FALSE, ref |-> e]
    ELSE ticket[t]]

Begin(q, op, d, e) ==
  /\ request[q].pc = "idle" /\ asked < MaxAsked
  /\ asked' = asked + 1
  /\ request' = [request EXCEPT ![q] =
       [op |-> op, pc |-> "read", on |-> d, ref |-> e, held |-> {}]]
  /\ UNCHANGED <<ticket, entry, prefill, batch, answers>>

At(q, op, pc) == request[q].op = op /\ request[q].pc = pc

End(q) == request' = [request EXCEPT ![q] = Idle] /\ UNCHANGED asked

-----------------------------------------------------------------------------
(* Refunds pushed by the platform, which repeats a push that it has no      *)
(* answer to.                                                               *)

Answer(n, t) == answers' = [answers EXCEPT ![n] = @ \union {t}]

\* The first lookup finds the endorsement, deleted tickets included.
PushAgain(n) ==
  /\ \E t \in From(n) : Answer(n, t)
  /\ UNCHANGED <<ticket, entry, prefill, batch, request, asked>>

BeginPush(q, n) == From(n) = {} /\ Begin(q, "push", n, None)

\* Faulty variant: the endorsement is not unique.
TakenNever(n) == n \notin Endorsements

\* @@unique([platform, endorNo])
Taken(n) == From(n) # {}

\* The insert, or P2002 and another lookup.
CommitPush(q) ==
  LET n == request[q].on IN
  /\ At(q, "push", "read")
  /\ IF Taken(n)
     THEN (\E t \in From(n) : Answer(n, t)) /\ UNCHANGED ticket
     ELSE \E t \in Fresh : Insert({t}, n, None, {}) /\ Answer(n, t)
  /\ End(q)
  /\ UNCHANGED <<entry, prefill, batch>>

-----------------------------------------------------------------------------
(* Submissions of external accounts. *)

\* loadExternalAccountConfig, before the transaction.
BeginSubmit(q, u) == Begin(q, "submit", u, prefill[u])

\* Faulty variant: the account is not locked.
AccountFreeAlways(u) == u \in Accounts

\* SELECT ... FOR UPDATE on the account.
AccountFree(u) == ~\E p \in Requests : At(p, "submit", "checked") /\ request[p].on = u

\* findDuplicateTickets among the account's own, once it is locked.
Duplicates(u) == {t \in From(u) : ~ticket[t].deleted /\ ticket[t].status # "completed"}

CheckDuplicates(q) ==
  LET u == request[q].on IN
  /\ At(q, "submit", "read") /\ AccountFree(u)
  /\ request' = [request EXCEPT ![q] =
       IF Duplicates(u) = {} THEN [@ EXCEPT !.pc = "checked"] ELSE Idle]
  /\ UNCHANGED <<ticket, entry, prefill, batch, answers, asked>>

CommitSubmit(q) ==
  /\ At(q, "submit", "checked") /\ Refers(request[q].ref)
  /\ \E t \in Fresh : Insert({t}, request[q].on, request[q].ref, {})
  /\ End(q)
  /\ UNCHANGED <<entry, prefill, batch, answers>>

\* updateExternalAccount: resolvePrefillRefs takes disabled entries too.
BeginPin(q, u, e) == Refers(e) /\ Begin(q, "pin", u, e)

CommitPin(q) ==
  /\ At(q, "pin", "read") /\ AccountFree(request[q].on) /\ Refers(request[q].ref)
  /\ prefill' = [prefill EXCEPT ![request[q].on] = request[q].ref]
  /\ End(q)
  /\ UNCHANGED <<ticket, entry, batch, answers>>

-----------------------------------------------------------------------------
(* Tickets that staff create, one by one or in a batch. *)

\* resolveNewRef, resolveCatalogNameRef
Resolves(e) == e # None => entry[e] = "active"

\* createTicket
BeginCreate(q, e) == Resolves(e) /\ Begin(q, "create", None, e)

CommitCreate(q) ==
  /\ At(q, "create", "read") /\ Refers(request[q].ref)
  /\ \E t \in Fresh : Insert({t}, None, request[q].ref, {})
  /\ End(q)
  /\ UNCHANGED <<entry, prefill, batch, answers>>

\* importTickets: all rows or none.
BeginImport(q, b, e) == batch[b] = "none" /\ Resolves(e) /\ Begin(q, "import", b, e)

CommitImport(q) ==
  LET b == request[q].on IN
  /\ At(q, "import", "read") /\ batch[b] = "none" /\ Refers(request[q].ref)
  /\ \E ts \in SUBSET Fresh \ {{}}, done \in SUBSET Tickets :
       done \subseteq ts /\ Insert(ts, b, request[q].ref, done)
  /\ batch' = [batch EXCEPT ![b] = "live"]
  /\ End(q)
  /\ UNCHANGED <<entry, prefill, answers>>

-----------------------------------------------------------------------------
(* Work on a ticket: its first assignment, a comment or another assignment, *)
(* a completion, a deletion, an edit.  TicketLifecycle has them in full.     *)

BeginWork(q, op, t, e) ==
  /\ Live(t)
  /\ op = "assign" => ticket[t].status = "unassigned"
  /\ op \in {"follow", "complete"} => ticket[t].status \in {"owned", "reopened"}
  /\ IF op = "edit"
     THEN ticket[t].from \notin Endorsements /\ e # ticket[t].ref /\ Resolves(e)
     ELSE e = None
  /\ Begin(q, op, t, e)

RowFree(t) == ~\E p \in Requests : t \in request[p].held

\* What a first assignment makes of a ticket, which need not be unassigned still.
Assigned(status) == IF status \in {"completed", "reopened"} THEN "reopened" ELSE "owned"

\* Assignments, comments and edits write by id alone, a completion claims the
\* status, a deletion claims that the ticket is there.
CommitWork(q) ==
  LET r == request[q]
      t == r.on
  IN
  /\ r.op \in Work /\ r.pc = "read" /\ RowFree(t)
  /\ \/ /\ r.op = "assign"
        /\ ticket' = [ticket EXCEPT ![t].status = Assigned(@), ![t].worked = TRUE]
     \/ r.op = "follow" /\ ticket' = [ticket EXCEPT ![t].worked = TRUE]
     \/ /\ r.op = "complete" /\ ticket[t].status \in {"owned", "reopened"}
        /\ ticket' = [ticket EXCEPT ![t].status = "completed", ![t].worked = TRUE]
     \/ /\ r.op = "delete" /\ ~ticket[t].deleted
        /\ ticket' = [ticket EXCEPT ![t].deleted = TRUE]
     \/ /\ r.op = "edit" /\ Refers(r.ref)
        /\ ticket' = [ticket EXCEPT ![t].ref = r.ref, ![t].worked = TRUE]
  /\ End(q)
  /\ UNCHANGED <<entry, prefill, batch, answers>>

-----------------------------------------------------------------------------
(* revokeImportBatch *)

BeginRevoke(q, b) == batch[b] = "live" /\ Begin(q, "revoke", b, None)

Undeleted(b) == {t \in From(b) : ~ticket[t].deleted}

Revoking(p) == At(p, "revoke", "claimed") \/ At(p, "revoke", "checked")

\* The batch row: a second revocation waits and then finds it revoked.
ClaimBatch(q) ==
  /\ At(q, "revoke", "read") /\ batch[request[q].on] = "live"
  /\ ~\E p \in Requests : Revoking(p) /\ request[p].on = request[q].on
  /\ request' = [request EXCEPT ![q].pc = "claimed"]
  /\ UNCHANGED <<ticket, entry, prefill, batch, answers, asked>>

\* The rows of the updateMany, in any order.
LockTicket(q, t) ==
  /\ Revoking(q) /\ t \in Undeleted(request[q].on) \ request[q].held /\ RowFree(t)
  /\ request' = [request EXCEPT ![q].held = @ \union {t}]
  /\ UNCHANGED <<ticket, entry, prefill, batch, answers, asked>>

\* Faulty variant: whether a ticket was processed is checked at any time.
AllLockedOrNot(q) == q \in Requests

AllLocked(q) == request[q].held = Undeleted(request[q].on)

Processed(b) == {t \in From(b) : ticket[t].worked \/ t \notin Undeleted(b)}

CheckProcessed(q) ==
  /\ At(q, "revoke", "claimed") /\ AllLocked(q)
  /\ Processed(request[q].on) = {}
  /\ request' = [request EXCEPT ![q].pc = "checked"]
  /\ UNCHANGED <<ticket, entry, prefill, batch, answers, asked>>

CommitRevoke(q) ==
  LET b == request[q].on IN
  /\ At(q, "revoke", "checked") /\ request[q].held = Undeleted(b)
  /\ batch' = [batch EXCEPT ![b] = "revoked"]
  /\ ticket' = [t \in Tickets |->
       IF t \in request[q].held THEN [ticket[t] EXCEPT !.deleted = TRUE] ELSE ticket[t]]
  /\ End(q)
  /\ UNCHANGED <<entry, prefill, answers>>

-----------------------------------------------------------------------------
(* The catalog. *)

\* create
AddEntry(e) ==
  /\ entry[e] = "new" /\ entry' = [entry EXCEPT ![e] = "active"]
  /\ UNCHANGED <<ticket, prefill, batch, answers, request, asked>>

\* setActive
SetActive(e, to) ==
  /\ Refers(e) /\ entry' = [entry EXCEPT ![e] = to]
  /\ UNCHANGED <<ticket, prefill, batch, answers, request, asked>>

\* Faulty variant: the count of references is all there is.
RestrictedNever(e) == e \notin Entries

\* onDelete: Restrict
Restricted(e) ==
  ~((\A t \in Tickets : ticket[t].ref # e) /\ (\A u \in Accounts : prefill[u] # e))

\* delete: assertNoPinnedRefs, countReferences, ...
BeginDrop(q, e) ==
  /\ Refers(e)
  /\ \A t \in Tickets : ticket[t].ref # e
  /\ \A u \in Accounts : prefill[u] # e
  /\ Begin(q, "drop", e, None)

\* ... and the DELETE, which a foreign key may refuse.
CommitDrop(q) ==
  LET e == request[q].on IN
  /\ At(q, "drop", "read") /\ Refers(e) /\ ~Restricted(e)
  /\ entry' = [entry EXCEPT ![e] = "deleted"]
  /\ End(q)
  /\ UNCHANGED <<ticket, prefill, batch, answers>>

-----------------------------------------------------------------------------

\* A write refused, no active SLA policy, a row gone, a crash: the transaction
\* is rolled back.
Abort(q) ==
  /\ request[q].pc # "idle"
  /\ End(q)
  /\ UNCHANGED <<ticket, entry, prefill, batch, answers>>

BeginAny(q) ==
  \/ \E n \in Endorsements : BeginPush(q, n)
  \/ \E u \in Accounts : BeginSubmit(q, u)
  \/ \E u \in Accounts, e \in Refs : BeginPin(q, u, e)
  \/ \E e \in Refs : BeginCreate(q, e)
  \/ \E b \in Batches, e \in Refs : BeginImport(q, b, e)
  \/ \E op \in Work, t \in Tickets, e \in Refs : BeginWork(q, op, t, e)
  \/ \E b \in Batches : BeginRevoke(q, b)
  \/ \E e \in Entries : BeginDrop(q, e)

GoOn(q) ==
  \/ CommitPush(q)
  \/ CheckDuplicates(q)
  \/ CommitSubmit(q)
  \/ CommitPin(q)
  \/ CommitCreate(q)
  \/ CommitImport(q)
  \/ CommitWork(q)
  \/ ClaimBatch(q)
  \/ \E t \in Tickets : LockTicket(q, t)
  \/ CheckProcessed(q)
  \/ CommitRevoke(q)
  \/ CommitDrop(q)
  \/ Abort(q)

Next ==
  \/ \E q \in Requests : BeginAny(q) \/ GoOn(q)
  \/ \E n \in Endorsements : PushAgain(n)
  \/ \E e \in Entries : AddEntry(e)
  \/ \E e \in Entries, to \in {"active", "disabled"} : SetActive(e, to)

Spec == Init /\ [][Next]_vars

-----------------------------------------------------------------------------
(* Properties *)

\* The tables keep their types; what is not a ticket yet carries nothing, and
\* only a revocation holds tickets, those of its batch.
TypeOK ==
  /\ ticket \in [Tickets -> Ticket]
  /\ entry \in [Entries -> {"new", "active", "disabled", "deleted"}]
  /\ prefill \in [Accounts -> Refs]
  /\ batch \in [Batches -> {"none", "live", "revoked"}]
  /\ answers \in [Endorsements -> SUBSET Tickets]
  /\ request \in [Requests -> Request]
  /\ asked \in 0..MaxAsked
  /\ \A t \in Fresh : ticket[t] = NoTicket
  /\ \A q \in Requests : request[q].held # {} =>
       Revoking(q) /\ request[q].held \subseteq From(request[q].on)

\* However often and however many at once the pushes of an endorsement come
\* in, they make one ticket, and each is answered with that one, also after
\* it was deleted.
PushesAgree ==
  \A n \in Endorsements : Cardinality(From(n)) <= 1 /\ answers[n] \subseteq From(n)

\* What is open of a door and was never closed.
NeverClosed(u) == {t \in Duplicates(u) : ticket[t].status # "reopened"}

\* Of the open tickets that an account has for a customer, one at most was never
\* closed, also when it submits twice at once: a submission adds a second open
\* one only to what a stale first assignment reopens behind its look for
\* duplicates, before or after its own insert.
NoDuplicateOpen == \A u \in Accounts : Cardinality(NeverClosed(u)) <= 1

\* No ticket, deleted or not, and no account is left referring to an entry
\* that was deleted, however its deletion races with what chooses it.
ReferencesExist ==
  /\ \A t \in Tickets : Refers(ticket[t].ref)
  /\ \A u \in Accounts : Refers(prefill[u])

\* A revocation takes back a whole batch or nothing, and only when none of its
\* tickets was processed or deleted, also while it waited for their locks.
RevokedWasClean ==
  [][\A b \in Batches : batch[b] # "revoked" /\ batch'[b] = "revoked" =>
       /\ Processed(b) = {}
       /\ \A t \in From(b) : ticket'[t] = [ticket[t] EXCEPT !.deleted = TRUE]]_vars
=============================================================================
