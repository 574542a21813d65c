---------------------------- MODULE IncrementalSync ----------------------------
(***************************************************************************)
(* Incremental sync of tickets over the open API                           *)
(* (apps/api/src/services/open-api-ticket.service.ts, mode "incremental"). *)
(*                                                                         *)
(* A consumer sweeps the tickets changed since an instant, page by page,   *)
(* in the order of (updatedAt, id); its next sweep begins an overlap       *)
(* before the last updatedAt it has seen (routes/open-api/meta.route.ts,   *)
(* docs/etl-database-access.md).  A change stamps updatedAt when it is     *)
(* written and is seen when its transaction commits, in any order.         *)
(*                                                                         *)
(* Two changes name no updatedAt: that of a compensation updates another   *)
(* table, and a completion is an updateMany (ticket-resolve.service.ts:76).*)
(* Whether Prisma stamps an updateMany is not to be seen in the            *)
(* repository, which says that it does not (ticket-delete.service.ts:44,   *)
(* ticket-import-batch.service.ts:175: "an unstamped delete would silently *)
(* never reach consumers") and stamps deletions itself, but not            *)
(* completions.  The constant UpdateManyStamps stands for the library; the *)
(* runs take the repository at its word.  The first follow-up claims with  *)
(* an updateMany too, and is stamped by the update after it                *)
(* (ticket-comment.service.ts:91).                                         *)
(*                                                                         *)
(* Abstracted: what a ticket holds, filters, the scope of the key's owner. *)
(* process_logs are swept by the same code over (at, id) and never change. *)
(***************************************************************************)
EXTENDS Naturals, FiniteSets

CONSTANTS
  Tickets,           \* ids, as ordered as numbers
  UpdateManyStamps,  \* whether updateMany stamps updatedAt (Prisma, external)
  Limit,             \* rows of a page
  Longest,           \* ticks between the stamp of a change and its commit, at most
  Sweeping,          \* ticks a sweep takes at most
  Overlap,           \* ticks a sweep goes back
  MaxOpen,           \* bound: transactions at once
  MaxUnstamped,      \* bound: changes without a stamp that the copy lacks at once
  MaxTime            \* bound: ticks of the clock

ASSUME SyncAssumption ==
  /\ UpdateManyStamps \in BOOLEAN
  /\ Tickets \subseteq Nat /\ IsFiniteSet(Tickets)
  /\ Limit \in Nat \ {0} /\ Longest \in Nat /\ Sweeping \in Nat
  /\ Overlap \in Nat /\ Overlap >= Longest + Sweeping

VARIABLES
  stamp,      \* updatedAt of each ticket as committed; Never: there is none yet
  open,       \* changes written and not committed
  stale,      \* tickets with a stamped change the consumer's copy lacks
  unstamped,  \* <<what, ticket>>: changes without a stamp the consumer's copy lacks
  sweep,      \* the consumer's sweep: when it began, since when, its cursor
  seen,       \* the latest updatedAt the consumer has seen
  now

vars == <<stamp, open, stale, unstamped, sweep, seen, now>>

-----------------------------------------------------------------------------

\* The clock begins after it.
Never == 0

\* The cursor of a first page.
Start == [primary |-> 0, id |-> 0, first |-> TRUE]

NoSweep == [on |-> FALSE, began |-> 0, since |-> 0, last |-> Start]

Init ==
  /\ stamp = [t \in Tickets |-> Never]
  /\ open = {} /\ stale = {} /\ unstamped = {}
  /\ sweep = NoSweep /\ seen = 0 /\ now = 1

There == {t \in Tickets : stamp[t] # Never}

\* A service creates, changes or deletes a ticket, or completes it if updateMany
\* stamps; the row is not locked yet.  (Two changes of a ticket in one tick are
\* one until the first is committed.)
WriteTicket(t) ==
  /\ Cardinality(open) < MaxOpen
  /\ open' = open \union {[ticket |-> t, stamp |-> now]}
  /\ UNCHANGED <<stamp, stale, unstamped, sweep, seen, now>>

Commit(w) ==
  /\ w \in open
  /\ open' = open \ {w}
  /\ stamp' = [stamp EXCEPT ![w.ticket] = w.stamp]
  /\ stale' = stale \union {w.ticket}
  /\ UNCHANGED <<unstamped, sweep, seen, now>>

RollBack(w) ==
  /\ w \in open
  /\ open' = open \ {w}
  /\ UNCHANGED <<stamp, stale, unstamped, sweep, seen, now>>

LeaveStamp(what, t) ==
  /\ t \in There
  /\ Cardinality(unstamped) < MaxUnstamped
  /\ unstamped' = unstamped \union {<<what, t>>}
  /\ UNCHANGED <<stamp, open, stale, sweep, seen, now>>

\* updateRefundCompensation changes the detail alone.
Amend(t) == LeaveStamp("compensation", t)

\* resolveTicket claims with an updateMany that names no updatedAt.
Complete(t) == ~UpdateManyStamps /\ LeaveStamp("completion", t)

-----------------------------------------------------------------------------
(* The consumer, and listOpenApiTickets. *)

BeginSweep ==
  /\ ~sweep.on
  /\ sweep' = [on |-> TRUE, began |-> now, last |-> Start,
               since |-> IF seen >= Overlap THEN seen - Overlap ELSE 0]
  /\ UNCHANGED <<stamp, open, stale, unstamped, seen, now>>

\* Faulty variant: rows with the updatedAt of the last one are passed over.
BeyondByTime(t, last) == last.first \/ stamp[t] > last.primary

\* cursorWhere
Beyond(t, last) ==
  \/ last.first
  \/ stamp[t] > last.primary
  \/ stamp[t] = last.primary /\ t > last.id

Rest == {t \in There : stamp[t] >= sweep.since /\ Beyond(t, sweep.last)}

Before(t, u) == stamp[t] < stamp[u] \/ (stamp[t] = stamp[u] /\ t < u)

\* The rows of the next page: the first ones.
IsPage(page) ==
  /\ page \subseteq Rest
  /\ \A t \in page, u \in Rest \ page : Before(t, u)
  /\ IF Cardinality(Rest) > Limit THEN Cardinality(page) = Limit ELSE page = Rest

\* A page is read, and what it shows is stored.
ReadPage ==
  /\ sweep.on
  /\ \E page \in SUBSET Tickets :
       /\ IsPage(page)
       /\ stale' = stale \ page
       /\ unstamped' = {c \in unstamped : c[2] \notin page}
       /\ IF page = {} THEN sweep' = NoSweep /\ UNCHANGED seen
          ELSE \E z \in page :
                 /\ \A t \in page : ~Before(z, t)
                 /\ seen' = IF stamp[z] > seen THEN stamp[z] ELSE seen
                 /\ sweep' = IF page = Rest THEN NoSweep
                             ELSE [sweep EXCEPT !.last =
                                    [primary |-> stamp[z], id |-> z, first |-> FALSE]]
  /\ UNCHANGED <<stamp, open, now>>

\* The consumer stops and begins anew from what it has stored.
BreakOff ==
  /\ sweep.on
  /\ sweep' = NoSweep
  /\ UNCHANGED <<stamp, open, stale, unstamped, seen, now>>

\* Transactions and sweeps take their time at most.
PassTime ==
  /\ now < MaxTime
  /\ \A w \in open : now < w.stamp + Longest
  /\ sweep.on => now < sweep.began + Sweeping
  /\ now' = now + 1
  /\ UNCHANGED <<stamp, open, stale, unstamped, sweep, seen>>

Next ==
  \/ \E t \in Tickets : WriteTicket(t) \/ Amend(t) \/ Complete(t)
  \/ \E w \in open : Commit(w) \/ RollBack(w)
  \/ BeginSweep \/ ReadPage \/ BreakOff
  \/ PassTime

Spec == Init /\ [][Next]_vars

-----------------------------------------------------------------------------
(* Properties. *)

\* The next sweep will come to the ticket.
Due(t) == stamp[t] + Overlap >= seen

\* However commits and pages interleave, a stamped change the consumer's copy lacks
\* is one that its next sweep comes to (OPEN_API_INCREMENTAL_CAVEATS: "without
\* going back, rows are missed"): none is ever lost.  It says nothing of changes
\* without a stamp: no sweep is sure to come to those, completions included if
\* updateMany does not stamp.
NothingIsLost == \A t \in stale : Due(t)

\* The same of a change of a detail ("a change of a detail touches
\* tickets.updatedAt in the same transaction", ticket-edit.service.ts:360).
NoDetailIsLost == \A t \in Tickets : <<"compensation", t>> \in unstamped => Due(t)
=============================================================================
