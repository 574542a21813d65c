--------------------------- MODULE TicketLifecycle ---------------------------
(***************************************************************************)
(* The tickets of InsureDesk and the requests that act on them             *)
(* (apps/api/src/services/ticket*.service.ts).                             *)
(*                                                                         *)
(* Every request is one interactive transaction at PostgreSQL's default    *)
(* READ COMMITTED level: it reads the ticket (findFirst), decides, and     *)
(* only later writes.  The read takes no lock, so a request is two steps   *)
(* here.  A Begin action is the read with every check made on it; what the *)
(* rest of the code still uses of the read is kept in tx[x].  A Write      *)
(* action is everything from the first UPDATE, which takes the row lock,   *)
(* to the commit: it sees the rows as they are by then, not as they were   *)
(* read.  A request whose check fails changes nothing and has no step; one *)
(* that fails later (claim lost, timeout, crash) is rolled back: Abort.    *)
(* clock.now() is read at the start as well, so requests may commit in     *)
(* another order than that of their stamps: the timeline is in the order   *)
(* of the stamps (ticket.service.ts:529), not of the commits.  Two stamps  *)
(* are never equal here.                                                   *)
(*                                                                         *)
(* Abstracted: form fields other than the SLA policy (a change of any of   *)
(* them is a change of "other" fields), nextContactTime, the catalog row   *)
(* of the completion status, names in log remarks.  A row that does not    *)
(* exist yet has status "absent".  Data scope: some caller with            *)
(* ticket.view_all can always make a request.                              *)
(***************************************************************************)
EXTENDS Naturals, Sequences

CONSTANTS
  Tickets,          \* the tickets that may ever exist
  RefundTickets,    \* those of kind refund_exception; the others are complaints
  ExternalTickets,  \* those whose source is external_channel
  Staff,            \* accounts that pass loadAssignee (active and eligible)
  Submitter,        \* the external account that created the external tickets
  Policies,         \* SLA policies
  RefundPolicies,   \* those of the refund kind
  Amounts,          \* compensation amounts
  Txs,              \* connections: at most one request in flight on each
  None,             \* SQL NULL
  MaxClock          \* bound: requests and creations in one behaviour

ASSUME ConstantsAssumption ==
  /\ RefundTickets \subseteq Tickets
  /\ ExternalTickets \subseteq Tickets \ RefundTickets
  /\ RefundPolicies \subseteq Policies
  /\ Submitter \notin Staff
  /\ None \notin Staff \union Policies \union Amounts \union Nat
  /\ MaxClock \in Nat

VARIABLES
  row,       \* tickets and ticket_refund_details
  entries,   \* process_logs: how many entries of each kind a ticket has
  newest,    \* process_logs: the last status_change and the last assign of a timeline
  outbox,    \* callback_deliveries: compensation amounts of the payload snapshots
  notified,  \* app_notifications: <<type, target>> pairs raised about a ticket
  tx,        \* requests in flight
  clock      \* clock.now(), read once when a request starts

vars == <<row, entries, newest, outbox, notified, tx, clock>>

-----------------------------------------------------------------------------

Status == {"absent", "unassigned", "assigned", "processing", "completed"}

\* ProcessLog actions; a status_change is counted under the status it leads to,
\* a completion also under "completed_directly" when its from is "assigned", and
\* a comment under whether it is internalOnly.
LogKind == {"create", "assign", "comment", "internal_comment", "resolve", "edit",
            "to_assigned", "to_processing", "to_completed", "completed_directly"}

NoteType == {"assigned", "external_reply", "external_resolved"}

Row == [status : Status,
        assignee : Staff \union {None},
        assignedAt : Nat \union {None},
        completionTime : Nat \union {None},
        deletedAt : Nat \union {None},
        contactCount : Nat,
        slaPolicy : Policies \union {None},
        due : Policies \union {None},   \* the policy that dueAt was computed from
        compensation : Amounts \union {None}]

NoRow == [status |-> "absent", assignee |-> None, assignedAt |-> None,
          completionTime |-> None, deletedAt |-> None, contactCount |-> 0,
          slaPolicy |-> None, due |-> None, compensation |-> None]

\* The status and the owner that the last entries of a timeline name, with the
\* at of those entries (0 before there is one).
Newest == [status : Status \union {None}, statusAt : Nat,
           owner : Staff \union {None}, ownerAt : Nat]

NoEntries == [status |-> None, statusAt |-> 0, owner |-> None, ownerAt |-> 0]

Idle == [op |-> "idle"]

Request ==
  {Idle}
    \union [op : {"assign"}, plan : UNION {[S -> Staff] : S \in SUBSET Tickets},
            first : SUBSET Tickets, now : Nat]
    \union [op : {"comment"}, ticket : Tickets, read : Status,
            internalOnly : BOOLEAN, now : Nat]
    \union [op : {"resolve"}, ticket : Tickets, from : Status, now : Nat]
    \union [op : {"edit"}, ticket : Tickets, slaChanged : BOOLEAN,
            policy : Policies \union {None}, frozen : BOOLEAN, now : Nat]
    \union [op : {"compensation"}, ticket : RefundTickets,
            amount : Amounts \union {None}, now : Nat]
    \union [op : {"delete"}, ticket : Tickets, now : Nat]

TypeOK ==
  /\ row \in [Tickets -> Row]
  /\ entries \in [Tickets -> [LogKind -> Nat]]
  /\ newest \in [Tickets -> Newest]
  /\ outbox \in [Tickets -> Seq(Amounts \union {None})]
  /\ notified \in [Tickets -> SUBSET (NoteType \X (Staff \union {Submitter}))]
  /\ tx \in [Txs -> Request]
  /\ clock \in Nat

Init ==
  /\ row = [t \in Tickets |-> NoRow]
  /\ entries = [t \in Tickets |-> [k \in LogKind |-> 0]]
  /\ newest = [t \in Tickets |-> NoEntries]
  /\ outbox = [t \in Tickets |-> <<>>]
  /\ notified = [t \in Tickets |-> {}]
  /\ tx = [x \in Txs |-> Idle]
  /\ clock = 0

-----------------------------------------------------------------------------
(* Helpers                                                                 *)

\* findFirst({ id, deletedAt: null }) finds the ticket.
Visible(t) == row[t].status # "absent" /\ row[t].deletedAt = None

PoliciesFor(t) ==
  IF t \in RefundTickets THEN RefundPolicies ELSE Policies \ RefundPolicies

\* processLog.create for each kind in K, in the same transaction.
Logged(t, K) == [k \in LogKind |-> entries[t][k] + (IF k \in K THEN 1 ELSE 0)]

\* A new entry is the last of the timeline unless one with a later stamp is there.
StatusEntry(n, status, at) ==
  IF n.status = None \/ at > n.statusAt
    THEN [n EXCEPT !.status = status, !.statusAt = at] ELSE n

OwnerEntry(n, owner, at) ==
  IF n.owner = None \/ at > n.ownerAt
    THEN [n EXCEPT !.owner = owner, !.ownerAt = at] ELSE n

\* Faulty variant: the source of the ticket is not looked at.
ToSubmitterAlways(t, type) == {<<type, Submitter>>}

\* writeExternalCreatorNotification: only external tickets have a submitter to tell.
ToSubmitter(t, type) == IF t \in ExternalTickets THEN {<<type, Submitter>>} ELSE {}

Start(x, request) ==
  /\ tx[x] = Idle
  /\ clock < MaxClock
  /\ clock' = clock + 1
  /\ tx' = [tx EXCEPT ![x] = request]
  /\ UNCHANGED <<row, entries, newest, outbox, notified>>

Finish(x) == tx' = [tx EXCEPT ![x] = Idle] /\ UNCHANGED clock

-----------------------------------------------------------------------------
(* Creation.  A manual, external or Huifu complaint may have no policy; a  *)
(* pushed refund always has one.                                           *)

CreateTicket(t, p) ==
  /\ row[t].status = "absent"
  /\ clock < MaxClock
  /\ p \in PoliciesFor(t) \/ (p = None /\ t \notin RefundTickets)
  /\ row' = [row EXCEPT ![t] = [NoRow EXCEPT !.status = "unassigned",
                                             !.slaPolicy = p, !.due = p]]
  /\ entries' = [entries EXCEPT ![t] = Logged(t, {"create"})]
  /\ clock' = clock + 1
  /\ UNCHANGED <<newest, outbox, notified, tx>>

-----------------------------------------------------------------------------
(* Assignment: one ticket, a batch to one owner, or a batch by schedule.   *)
(* All three end in applyAssignment, whose UPDATE is by id alone.          *)

\* assignTicket and batchAssignTickets.  A ticket the target already owns is
\* skipped (for a single ticket, refused: nothing is left to do either way).
BeginAssign(x, S, u) ==
  LET todo == {t \in S : row[t].assignee # u} IN
  /\ \A t \in S : Visible(t)
  /\ todo # {}
  /\ \A t \in todo : row[t].status # "completed"
  /\ Start(x, [op |-> "assign", plan |-> [t \in todo |-> u],
               first |-> {t \in todo : row[t].assignee = None}, now |-> clock])

\* autoAssignTicketsBySchedule, whatever the owners it picks.
BeginAutoAssign(x, plan) ==
  /\ DOMAIN plan # {}
  /\ \A t \in DOMAIN plan :
        Visible(t) /\ row[t].status # "completed" /\ row[t].assignee = None
  /\ Start(x, [op |-> "assign", plan |-> plan, first |-> DOMAIN plan, now |-> clock])

\* Faulty variant: a reassignment puts the ticket back to assigned.
AssignedAnew(r, u, first, now) ==
  [r EXCEPT !.assignee = u, !.status = "assigned",
            !.assignedAt = IF first THEN now ELSE @]

Assigned(r, u, first, now) ==
  IF first THEN [r EXCEPT !.assignee = u, !.assignedAt = now, !.status = "assigned"]
           ELSE [r EXCEPT !.assignee = u]

WriteAssign(x) ==
  LET q == tx[x] IN
  /\ q.op = "assign"
  /\ row' = [t \in Tickets |->
       IF t \in DOMAIN q.plan
         THEN Assigned(row[t], q.plan[t], t \in q.first, q.now) ELSE row[t]]
  /\ entries' = [t \in Tickets |->
       IF t \in DOMAIN q.plan
         THEN Logged(t, {"assign"} \union (IF t \in q.first THEN {"to_assigned"} ELSE {}))
         ELSE entries[t]]
  /\ newest' = [t \in Tickets |->
       IF t \notin DOMAIN q.plan THEN newest[t]
       ELSE LET n == OwnerEntry(newest[t], q.plan[t], q.now) IN
            IF t \in q.first THEN StatusEntry(n, "assigned", q.now) ELSE n]
  /\ notified' = [t \in Tickets |->
       notified[t] \union
         (IF t \in DOMAIN q.plan THEN {<<"assigned", q.plan[t]>>} ELSE {})]
  /\ Finish(x)
  /\ UNCHANGED outbox

-----------------------------------------------------------------------------
(* Follow-up: contactCount + 1, and the first one claims assigned ->       *)
(* processing with a conditional UPDATE.                                   *)

\* Faulty variant: an unassigned ticket takes follow-ups too.
BeginCommentWhenever(x, t, internalOnly) ==
  /\ Visible(t)
  /\ row[t].status # "completed"
  /\ Start(x, [op |-> "comment", ticket |-> t, read |-> row[t].status,
               internalOnly |-> internalOnly, now |-> clock])

BeginComment(x, t, internalOnly) ==
  /\ Visible(t)
  /\ row[t].status \notin {"unassigned", "completed"}
  /\ Start(x, [op |-> "comment", ticket |-> t, read |-> row[t].status,
               internalOnly |-> internalOnly, now |-> clock])

\* Faulty variant: the transition is taken for granted by who read assigned.
TransitionsOnRead(t, read) == read = "assigned"

\* updateMany({ id, status: assigned }) matches, for a comment that read assigned.
ClaimsFirstFollowUp(t, read) == read = "assigned" /\ row[t].status = "assigned"

\* Faulty variant: only the claiming follow-up is counted.
CountedFirstComment(r, claimed) ==
  IF claimed THEN [r EXCEPT !.contactCount = @ + 1, !.status = "processing"] ELSE r

CountedComment(r, claimed) ==
  [r EXCEPT !.contactCount = @ + 1, !.status = IF claimed THEN "processing" ELSE @]

WriteComment(x) ==
  LET q == tx[x]
      t == q.ticket
      claimed == ClaimsFirstFollowUp(t, q.read)
  IN
  /\ q.op = "comment"
  /\ row' = [row EXCEPT ![t] = CountedComment(@, claimed)]
  /\ entries' = [entries EXCEPT ![t] =
       Logged(t, {IF q.internalOnly THEN "internal_comment" ELSE "comment"}
                   \union (IF claimed THEN {"to_processing"} ELSE {}))]
  /\ newest' = [newest EXCEPT ![t] =
       IF claimed THEN StatusEntry(@, "processing", q.now) ELSE @]
  /\ notified' = [notified EXCEPT ![t] =
       @ \union (IF q.internalOnly THEN {} ELSE ToSubmitter(t, "external_reply"))]
  /\ Finish(x)
  /\ UNCHANGED outbox

-----------------------------------------------------------------------------
(* Completion: claims the status it read (q.from); a completion that read  *)
(* assigned and finds the ticket in another status by then claims          *)
(* processing instead.  The callback of a refund is a snapshot taken in    *)
(* the same transaction.                                                   *)

BeginResolve(x, t) ==
  /\ Visible(t)
  /\ row[t].status \notin {"unassigned", "completed"}
  /\ Start(x, [op |-> "resolve", ticket |-> t, from |-> row[t].status, now |-> clock])

\* Faulty variant: completion is written by id alone.
CompletesById(t, from) == row[t].status # "absent"

\* updateMany({ id, status: from }) matches, whether the ticket is deleted or not.
ClaimsCompletion(t, from) == row[t].status = from

\* The claim of assigned has matched no row: it leaves no lock, and other requests
\* may write the ticket before the claim of processing.
ResolveFallsBack(x) ==
  LET q == tx[x] IN
  /\ q.op = "resolve"
  /\ q.from = "assigned"
  /\ ~ClaimsCompletion(q.ticket, "assigned")
  /\ tx' = [tx EXCEPT ![x].from = "processing"]
  /\ UNCHANGED <<row, entries, newest, outbox, notified, clock>>

\* Faulty variants: no callback without a compensation; another column snapshot.
CallbackIfCompensated(t) ==
  IF t \in RefundTickets /\ row[t].compensation # None THEN <<row[t].compensation>> ELSE <<>>

CallbackOfPolicy(t) ==
  IF t \in RefundTickets THEN <<row[t].slaPolicy>> ELSE <<>>

\* createRefundCallbackDelivery
CallbackFor(t) ==
  IF t \in RefundTickets THEN <<row[t].compensation>> ELSE <<>>

WriteResolve(x) ==
  LET q == tx[x]
      t == q.ticket
  IN
  /\ q.op = "resolve"
  /\ ClaimsCompletion(t, q.from)
  /\ row' = [row EXCEPT ![t].status = "completed", ![t].completionTime = q.now]
  /\ entries' = [entries EXCEPT ![t] =
       Logged(t, {"resolve", "to_completed"}
                   \union (IF q.from = "assigned" THEN {"completed_directly"} ELSE {}))]
  /\ newest' = [newest EXCEPT ![t] = StatusEntry(@, "completed", q.now)]
  /\ outbox' = [outbox EXCEPT ![t] = @ \o CallbackFor(t)]
  /\ notified' = [notified EXCEPT ![t] = @ \union ToSubmitter(t, "external_resolved")]
  /\ Finish(x)

-----------------------------------------------------------------------------
(* Editing, in any status.  A newly chosen policy re-stamps dueAt, unless  *)
(* the ticket was read completed: then only the reference changes.         *)

BeginEdit(x, t, p, otherChanged) ==
  LET slaChanged == p # row[t].slaPolicy IN
  /\ Visible(t)
  /\ slaChanged => p \in PoliciesFor(t) \union {None}
  /\ slaChanged \/ otherChanged
  /\ Start(x, [op |-> "edit", ticket |-> t, slaChanged |-> slaChanged, policy |-> p,
               frozen |-> row[t].status = "completed", now |-> clock])

\* Faulty variants: dueAt is never, or always, computed again.
RestampedReferenceOnly(r, q) == IF q.slaChanged THEN [r EXCEPT !.slaPolicy = q.policy] ELSE r

RestampedAlways(r, q) ==
  IF q.slaChanged THEN [r EXCEPT !.slaPolicy = q.policy, !.due = q.policy] ELSE r

\* slaFields of resolveSlaChange
Restamped(r, q) ==
  IF ~q.slaChanged THEN r
  ELSE IF q.frozen THEN [r EXCEPT !.slaPolicy = q.policy]
  ELSE [r EXCEPT !.slaPolicy = q.policy, !.due = q.policy]

WriteEdit(x) ==
  LET q == tx[x]
      t == q.ticket
  IN
  /\ q.op = "edit"
  /\ row' = [row EXCEPT ![t] = Restamped(@, q)]
  /\ entries' = [entries EXCEPT ![t] = Logged(t, {"edit"})]
  /\ Finish(x)
  /\ UNCHANGED <<newest, outbox, notified>>

BeginCompensation(x, t, a) ==
  /\ t \in RefundTickets
  /\ Visible(t)
  /\ row[t].status # "completed"
  /\ row[t].compensation # a
  /\ Start(x, [op |-> "compensation", ticket |-> t, amount |-> a, now |-> clock])

\* Writes the refund detail row only: nothing of the ticket row is looked at again.
WriteCompensation(x) ==
  LET q == tx[x]
      t == q.ticket
  IN
  /\ q.op = "compensation"
  /\ row' = [row EXCEPT ![t].compensation = q.amount]
  /\ entries' = [entries EXCEPT ![t] = Logged(t, {"edit"})]
  /\ Finish(x)
  /\ UNCHANGED <<newest, outbox, notified>>

-----------------------------------------------------------------------------
(* Soft deletion, in any status: no log entry.                             *)

BeginDelete(x, t) ==
  /\ Visible(t)
  /\ Start(x, [op |-> "delete", ticket |-> t, now |-> clock])

\* Faulty variant: deletion is written by id alone.
DeletesById(t) == TRUE

\* updateMany({ id, deletedAt: null }) matches.
ClaimsDeletion(t) == row[t].deletedAt = None

WriteDelete(x) ==
  LET q == tx[x]
      t == q.ticket
  IN
  /\ q.op = "delete"
  /\ ClaimsDeletion(t)
  /\ row' = [row EXCEPT ![t].deletedAt = q.now]
  /\ Finish(x)
  /\ UNCHANGED <<entries, newest, outbox, notified>>

-----------------------------------------------------------------------------

\* Rolled back: a claim that matched no row, a deadlock, a timeout, a crash.
Abort(x) ==
  /\ tx[x] # Idle
  /\ Finish(x)
  /\ UNCHANGED <<row, entries, newest, outbox, notified>>

Begin(x) ==
  \/ \E S \in SUBSET Tickets, u \in Staff : BeginAssign(x, S, u)
  \/ \E S \in SUBSET Tickets : \E plan \in [S -> Staff] : BeginAutoAssign(x, plan)
  \/ \E t \in Tickets, b \in BOOLEAN : BeginComment(x, t, b)
  \/ \E t \in Tickets : BeginResolve(x, t)
  \/ \E t \in Tickets, p \in Policies \union {None}, b \in BOOLEAN : BeginEdit(x, t, p, b)
  \/ \E t \in Tickets, a \in Amounts \union {None} : BeginCompensation(x, t, a)
  \/ \E t \in Tickets : BeginDelete(x, t)

Write(x) ==
  \/ WriteAssign(x)
  \/ WriteComment(x)
  \/ WriteResolve(x)
  \/ WriteEdit(x)
  \/ WriteCompensation(x)
  \/ WriteDelete(x)

Next ==
  \/ \E t \in Tickets, p \in Policies \union {None} : CreateTicket(t, p)
  \/ \E x \in Txs : Begin(x) \/ ResolveFallsBack(x) \/ Write(x) \/ Abort(x)

Spec == Init /\ [][Next]_vars
-----------------------------------------------------------------------------
(* What holds under every interleaving of requests.                        *)

\* A ticket has no owner exactly while it is unassigned: no race of stale
\* assignments, follow-ups and completions leaves an ownerless ticket in work.
UnownedIffUnassigned ==
  \A t \in Tickets : (row[t].assignee = None) <=> (row[t].status \in {"absent", "unassigned"})

\* Completion is claimed: a ticket is completed at most once for every time an
\* assignment put it to "assigned", an unfinished assignment has not been
\* completed yet, and a completed ticket's timeline has its completion.  Two
\* racing completions can never both succeed.
CompletionsAreClaimed ==
  \A t \in Tickets :
    /\ entries[t]["to_completed"] + (IF row[t].status \in {"assigned", "processing"} THEN 1 ELSE 0)
         <= entries[t]["to_assigned"]
    /\ entries[t]["resolve"] = entries[t]["to_completed"]
    /\ row[t].status = "completed" => entries[t]["resolve"] > 0

\* The status changes on a timeline balance, although each names the status that
\* its request believes it left: no status is left more often than the timeline
\* says it was reached, the status the ticket is in counted as not yet left.  A
\* follow-up logs no change that another made, and a completion that fell back
\* from its first claim does not pass for one that left "assigned".
StatusFlowBalances ==
  \A t \in Tickets :
    LET n == entries[t]
        In(status) == IF row[t].status = status THEN 1 ELSE 0
    IN
    /\ n["to_processing"] + n["completed_directly"] + In("assigned") <= n["to_assigned"]
    /\ n["to_completed"] + In("processing") <= n["to_processing"] + n["completed_directly"]

\* What a request read before it decided, and its write does not look at again,
\* is true as far as the write relies on it, whatever other requests did in
\* between: a ticket once seen still exists, one seen with an owner still has
\* one, one seen in work is still past "unassigned".
ReadsStillHold ==
  \A x \in Txs :
    LET q == tx[x] IN
    /\ q.op = "assign" =>
         \A t \in DOMAIN q.plan :
           row[t].status # "absent" /\ (t \notin q.first => row[t].assignee # None)
    /\ q.op = "comment" => q.read \in {"assigned", "processing"}
    /\ q.op = "resolve" => q.from \in {"assigned", "processing"}
    /\ q.op \in {"comment", "resolve"} =>
         row[q.ticket].status \notin {"absent", "unassigned"}
    /\ q.op \in {"edit", "compensation", "delete"} => row[q.ticket].status # "absent"
    /\ q.op = "edit" /\ q.frozen => entries[q.ticket]["resolve"] > 0

\* A refund has exactly one callback per completion, a complaint never has one.
CallbackPerCompletion ==
  \A t \in Tickets :
    Len(outbox[t]) = IF t \in RefundTickets THEN entries[t]["resolve"] ELSE 0

\* contactCount is the number of follow-ups on the timeline: no racing comment is
\* lost from the count, and none falls on a ticket before it exists.
ContactCountIsTimeline ==
  \A t \in Tickets :
    /\ row[t].contactCount = entries[t]["comment"] + entries[t]["internal_comment"]
    /\ row[t].status = "absent" => row[t].contactCount = 0

\* Until a ticket's first completion, dueAt is what its present policy gives,
\* although edits, completions and assignments read it before they write it.
DueFollowsPolicy ==
  \A t \in Tickets : entries[t]["resolve"] = 0 => row[t].due = row[t].slaPolicy

\* The owner a ticket ends up with has been told of it, whichever of racing
\* assignments commits last.  The submitter of an external ticket hears of public
\* follow-ups and of the completion, and of nothing else; nobody outside hears of
\* other tickets.
NotesReachThoseConcerned ==
  \A t \in Tickets :
    /\ row[t].assignee # None => <<"assigned", row[t].assignee>> \in notified[t]
    /\ <<"external_reply", Submitter>> \in notified[t]
         <=> t \in ExternalTickets /\ entries[t]["comment"] > 0
    /\ <<"external_resolved", Submitter>> \in notified[t]
         <=> t \in ExternalTickets /\ entries[t]["resolve"] > 0

\* Soft deletion is for good and is stamped once, even by racing deletions.
DeletedStaysDeleted ==
  [][\A t \in Tickets : row[t].deletedAt # None => row'[t].deletedAt = row[t].deletedAt]_vars

-----------------------------------------------------------------------------
(* What the code's documentation says, and only one request at a time can  *)
(* guarantee: see the module TicketContract for the whole of it.           *)

\* "completed is a terminal state, no reopen path exists anywhere"
\* (ticket-resolve.service.ts:15).
CompletedIsFinal ==
  [][\A t \in Tickets : row[t].status = "completed" => row'[t].status = "completed"]_vars

-----------------------------------------------------------------------------
(* One request at a time (a single connection): the timeline is true, and  *)
(* the service implements the contract.                                    *)

\* The last entries of the timeline name the status and the owner the ticket has.
\* Overlapping requests break this: of two reassignments, the one that started
\* first may commit last, and its owner is that of the row but not of the last
\* entry; a completion may commit after a first follow-up that started later, and
\* the last entry then names "processing".
TimelineTellsTicket ==
  \A t \in Tickets :
    /\ newest[t].status =
         IF row[t].status \in {"absent", "unassigned"} THEN None ELSE row[t].status
    /\ newest[t].owner = row[t].assignee

\* What the contract speaks of: log, notes, owner and policy are not seen.
Seen == [t \in Tickets |->
  [status |-> row[t].status, assignedAt |-> row[t].assignedAt, due |-> row[t].due,
   compensation |-> row[t].compensation, contacts |-> row[t].contactCount,
   callbacks |-> outbox[t], deletedAt |-> row[t].deletedAt]]

Contract == INSTANCE TicketContract WITH Nothing <- None, ticket <- Seen

\* Every documented promise at once: with one request at a time the service
\* takes only the steps of TicketContract.
ImplementsContract == Contract!Spec
=============================================================================
