# InsureDesk in TLA+

A verification project for InsureDesk, the complaint and refund work-order desk of
an insurance brokerage (a TypeScript monorepo: `apps/api`, Fastify + tRPC + Prisma
over PostgreSQL; `apps/web`, React; `packages/shared`, Zod schemas and enums;
`scripts/agent`, the automation that works on the repository's own issues).

What is hard about this code is neither its data nor its screens but that every
request is a transaction at READ COMMITTED which reads without locks, decides, and
writes later; that workers deliver and receive messages at least once; and that a
few invariants (one callback per completion, a last administrator, a bounded number
of keys) have to survive all of that. The project models the services that carry
those promises and leaves out rendering, parsing and formatting.

## 1. Inventory

`S/` is `src/apps/api/src/services/`, `R/` is `src/apps/api/src/routers/`.

| Component | Source | State | Operations | What is hard, and what makes it correct |
|---|---|---|---|---|
| Ticket lifecycle | `S/ticket.service.ts`, `S/ticket-{assign,comment,resolve,edit,delete}.service.ts` | `tickets`, `ticket_refund_details`, `process_logs`, plus rows it adds to `callback_deliveries` and `app_notifications` | create, assign (one, batch, by schedule), follow up, complete, edit, compensate, soft-delete | stale reads; completion claimed once, one callback per completion, owner/status/timeline agree, count of follow-ups exact, deletion final |
| Refund callback outbox | `S/callback-delivery.service.ts` | `callback_deliveries`, the worker's lock | tick (send, retry, dead), redeliver, forced lock release | at-least-once sending, late results of abandoned ticks, liveness |
| Huifu complaint ingestion | `S/huifu-*.ts`, `routes/huifu-webhook.route.ts` | `huifu_webhook_events`, `huifu_complaints` | receive, process, retry, clean up | duplicates and reordering; one ticket per complaint; no event lost |
| Refund push | `S/refund-push.service.ts`, `routes/jb-insurance-push.route.ts` | unique (platform, endorNo) | push | retries and races; one ticket per endorsement |
| Accounts, roles, sessions | `S/{user,role,auth,external-account}.service.ts` | `users`, `roles`, `sessions` | create, edit, disable, assign role, delete role, log in, change password | an enabled administrator always remains; a disabled account acts no more |
| API keys | `S/api-key.service.ts` | `api_keys`, audit log | create, revoke, validate | at most 10 active; one audit entry per change |
| API rate limiting | `S/api-rate-limit.service.ts`, `routes/open-api/app.ts` | token buckets in memory | consume, refund, sweep | never more than the capacity; sweeping changes nothing |
| Dictionary catalogs, SLA policies | `S/dictionary-catalog.service.ts`, `S/sla.service.ts` | catalog rows | create, rename, disable, reorder, delete, resolve a reference | a used entry is never deleted |
| Spreadsheet import | `S/ticket-import*.ts` | `ticket_import_batches` | import, revoke a batch | a batch with processed tickets is not revoked |
| External submissions | `R/external-ticket.router.ts`, `S/ticket-duplicate.service.ts` | tickets of an external account | submit, add note | no duplicate open ticket per account; late notes |
| Open API incremental sync | `S/open-api-ticket.service.ts`, `routes/open-api/*` | the client's cursor | page by (updatedAt, id) | no row missed within the documented overlap |
| Schedules and shifts | `S/schedule.service.ts`, `S/shift-type.service.ts` | `schedules`, `shift_types` | create, delete, who is on duty | overnight shifts, boundaries |
| Display status, follow-up alerts | `packages/shared/src/ticket-status.ts`, `S/ticket-display-status.ts`, `S/follow-up-alert.service.ts` | none | classify a ticket | the TypeScript rule and its SQL mirror agree |
| Notifications | `S/notification.service.ts` | `app_notifications` | raised by the services above; list, mark read | the right people hear of the right things |
| Agent loop | `scripts/agent/*` | git refs, claim files, locks | claim, heartbeat, fence, release, dispatch | lost answers, deaths, slow owners; one publisher per issue, nothing held for good |
| Dashboard, map, exports | `S/dashboard.service.ts`, `S/ticket-map.service.ts`, `S/*export*` | none | read-only | not modelled: aggregation and formatting |
| HTTP/tRPC surface, web app, schema | `server.ts`, `trpc.ts`, `apps/web`, `prisma` | none of their own | | not modelled: routing, rendering, declarations |

How they interact: all services share one database. A refund enters through the push
and a complaint through the desk, the import, an external account or Huifu; all of
them create tickets. Completing a refund adds a row to the callback outbox *in the
completing transaction*; the outbox worker alone talks to the platform. Catalogs and
SLA policies are referenced by tickets; accounts own tickets and keys.

## 2. The modules

| Module | Component | Extends | TLC | TLAPS |
|---|---|---|---|---|
| `TicketLifecycle`, `TicketContract` | ticket lifecycle and its contract | | `MCTicketLifecycle` | `TicketLifecycleProofs` |
| `CallbackDelivery`, `CallbackOutbox` | refund callback outbox and its contract | | `MCCallbackDelivery` | `CallbackProofs` |
| `HuifuIngestion` | Huifu complaint notices | | `MCHuifuIngestion` | `HuifuProofs` |
| `Accounts` | accounts, roles, sessions | | `MCAccounts` | `AccountsProofs` |
| `ApiKeys`, `RateLimiter`, `OpenApi` | keys, limits, and calls composed of both | `OpenApi` extends the two others | `MCOpenApi` | `OpenApiProofs` |
| `IncrementalSync` | open API incremental sync | | itself | `IncrementalSyncProofs` |
| `TicketIntake` | refund push, external submission, import and revocation, catalogs | | `MCTicketIntake` | `TicketIntakeProofs` |
| `AgentLoop` | leases of the agent loop | | `MCAgentLoop` | `AgentLoopProofs` |

Every module keeps the same layout: constants with their assumption, variables, the
types, `Init`, the operations in the order of the code, `Next`, `Spec`, the properties.
An operator marked *Faulty variant* is a plausible mistake in the operator below it
that the property named for it must catch; no specification uses one.

Every invariant and action property of the passing runs, and both refinements, are also
theorems, for every value of the constants (the refinements, `TimelineTellsTicket`, `InStep`
and `DeadWasTried`: one request, or one tick and one operator, at a time). The three liveness properties are
checked by TLC only.

Where to go on: the two rules of display status (TypeScript and SQL) as functions
against each other; the frontier of several issues and the repair of pull requests in
`scripts/agent`; notes of external accounts; the operations alert of a push that finds no policy.

## 3. The ticket lifecycle

### Modules

* `TicketLifecycle.tla` — the services of a ticket, all requests racing.
* `TicketContract.tla` — the abstract specification: what the comments of the services
  and `CONTEXT.md` promise of one ticket.
* `MCTicketLifecycle.tla` — small instances for TLC.
* `TicketLifecycleProofs.tla` — the theorems.

### State and actions

| Variable | Code |
|---|---|
| `row` | a row of `tickets` with its `ticket_refund_details`: status, assignee, assignedAt, completionTime, deletedAt, contactCount, slaPolicyId, the policy `dueAt` was computed from, compensationAmount |
| `entries` | `process_logs`: the number of entries of each kind |
| `newest` | `process_logs`: what the last status change and the last assignment of the timeline say, and their `at` |
| `outbox` | rows of `callback_deliveries` of a ticket: the amount snapshot in each |
| `notified` | rows of `app_notifications` about a ticket |
| `tx` | the requests in flight, each with what it read and still uses |
| `clock` | `clock.now()`, which each service reads once at its start |

Each service call is a `Begin…` action (the unlocked `findFirst` and every check made on
it) and a `Write…` action (from the first UPDATE to the commit). Two steps are exactly
what READ COMMITTED gives here: the reads take no lock, and the first UPDATE takes the
row lock and holds it to the end, so the writes of two requests on one ticket do not
interleave with each other but may follow any number of other commits after the read.
`updateMany` with a condition (completion, first follow-up, deletion) is re-evaluated
on the row as it is then, which is what `ClaimsCompletion`, `ClaimsFirstFollowUp` and
`ClaimsDeletion` say. A completion that read `assigned` makes two such claims, one after the
other (`ticket-resolve.service.ts:85-92`): the first that matches no row takes no lock, so that
`ResolveFallsBack` is a step of its own, after which others may write before the second claim,
and the log names the status of the claim that matched. A request that fails at any later point is `Abort`: the
transaction is rolled back and nothing of it remains, whether a claim matched no row, the
database broke a deadlock between two batches, or the process died.

Log entries bear the instant at which their request began, and the timeline is read in the
order of those instants (`ticket.service.ts:529`), not of the commits. `newest` follows it:
an entry that commits later with an earlier `at` is not the last one (`StatusEntry`,
`OwnerEntry`).

A batch assignment locks its tickets one after another; it is one step here, because
what it leaves on each ticket does not depend on the others.

### Runs

| Run | Instance | Shows |
|---|---|---|
| `ticket_races` | a refund and an external complaint, two staff, two policies, two connections, 6 requests, batches included | `TypeOK`, `CompletionsAreClaimed`, `CallbackPerCompletion`, `DueFollowsPolicy`, `ReadsStillHold`, `ContactCountIsTimeline`, `StatusFlowBalances`, `NotesReachThoseConcerned`, `DeletedStaysDeleted` |
| `serial_contract` | the same two tickets, one connection | `ImplementsContract` and `TimelineTellsTicket`: requests that do not overlap keep every documented promise, and the timeline ends with the ticket's status and owner |
| `claim_completed_final` | one refund, two connections | a documented promise that overlapping requests break (below) |

`MaxClock` bounds the number of requests and creations of a behaviour; it is the only
bound on time. Six are enough for a ticket to be created, assigned, followed up
and completed while another request is in flight, and for a stale assignment to reopen it.
Two connections suffice for every race between two reads and two writes; the theorems lift
the results to any number of both.
Staff and connections are interchangeable (symmetry). `CHECK_DEADLOCK FALSE`: when the
bound is reached nothing more starts, and an idle desk is a legal state.

### Where the code and its documentation disagree

All have one cause: a check on an unlocked read that the write does not repeat. None of
them happens with one request at a time (`serial_contract`).

* `CompletedIsFinal` (run `claim_completed_final`) — `applyAssignment`
  (`ticket-assign.service.ts:134`) updates by id alone; a first assignment that read the
  ticket unassigned reopens a completed one, and completing it again creates a second
  callback. `ticket-resolve.service.ts:15` says no reopen path exists.
* An edit that read the ticket before its completion computes `dueAt` again after it
  (`ticket-edit.service.ts:187` decides on the status it read). `DueFollowsPolicy` speaks of
  tickets before their first completion and does not meet this; the contract does.
* The amount of a compensation can change after the callback took its snapshot
  (`ticket-edit.service.ts:530` calls it locked from then on).
* The completion claim does not look at `deletedAt`, so a refund deleted in between may
  still call back (`CONTEXT.md:59`).

One more thing holds of one request at a time only, because stamps are taken before locks
(`TimelineTellsTicket`). Of two reassignments that overlap, the one that began first may
commit last: its owner is that of the ticket, but the last entry of the timeline names the
other one. Of a completion and a first follow-up that began after it and committed before it,
the timeline ends with "processing". What survives every overlap is the balance
(`StatusFlowBalances`): no status is left more often than it was reached.

`TicketContract` states three more promises that hold of one request at a time only, for
the same reason: `assignedAt` is stamped once, `dueAt` is frozen on completion, and a
completed ticket takes no more follow-ups.

### What is proved

`TicketLifecycleProofs` proves, for any number of tickets, staff, policies, connections and
requests, that `Consistent` is an inductive invariant. It is the conjunction of the types,
the safety invariants, `AbsentIsBlank` and `ReadsStillHold`, and the last is what makes it
inductive: a write relies on a read made any time earlier, so the
invariants survive only because what the write relies on cannot be undone in between: a
row never goes back to "absent" or "unassigned", an owner is replaced but never removed,
the timeline only grows. Only what holds under every overlap is in it: of an edit that
read a completed ticket, that there is a completion on the timeline; not that the ticket
is completed still, which a stale assignment undoes. The argument has three parts:

1. `EveryStep`: every step of the system does to each ticket one of the nine things of
   `TicketStep`. There is one lemma per write action; `ReadsStillHold` supplies the guard
   that the write itself does not have.
2. one lemma per invariant (`UnownedStep`, `CompletionsStep`, …): a `TicketStep` preserves
   it, by cases.
3. `ReadsStep`: what the requests in flight rely on survives every `TicketStep`
   (`RowsGrow`, `ReliesStep`) and is established when a request starts (`BeginRelies`).

The action property `DeletionIsForGood` comes from the same cases. `TimelineBalances` counts
(`FlowAfter`): an entry for a status that was left is made in the transaction whose
conditional update left it. `ThoseConcernedAreTold` follows the notes of each write
(`EveryStepHears`).

`SerialKeepsContract` is the refinement, for any number of tickets under the assumption
that there is one connection (`\A x, y \in Txs : x = y`): `Spec => ImplementsContract`. The
mapping is `Seen`, which shows of each ticket what the contract speaks of. The invariant
`OneAtATime` adds to `Consistent`: `ReadsAreNow` (what a request has read is the
row as it is), which overlapping requests break at once, and `CalledBackIsFinal` (a ticket
that is not completed has no callback), which falls with it: the loss of these two is what
the disagreements above come from. For `SerialTimelineIsTrue` it also holds
`TimelineTellsTicket` and `StampsArePast`: with one connection every entry on a timeline is
older than the stamp of the request in flight, so that what it writes comes last. Each write is then one action of `TicketContract` on
the ticket it names, and the reads and aborts are not seen. `SerialCompletedIsFinal` draws the
consequence for the promise that overlapping requests break.

The only assumption is `ConstantsAssumption`: refunds and external tickets are disjoint
kinds of tickets, the submitter is not staff, NULL is none of the values.

### Abstractions

Form fields other than the policy are one "other fields changed" bit of an edit; the
completion status is a catalog row that the run has; display names, remarks and
`nextContactTime` are left out. The data scope of the caller (`applyTicketDataScope`) is
left open: some caller may always make the request. `dueAt` is represented by the policy
it was computed from, because its anchor never changes.

## 4. The callback outbox

### Modules

* `CallbackDelivery.tla` — the worker (`startCallbackDeliveryWorker`, `tickNow`,
  `tickCallbackDeliveries`, `deliverOne`), the rows, the operators who redeliver, the
  platform, faults and time.
* `CallbackOutbox.tla` — the abstract specification: the state machine that the schema
  (`schema.prisma:392-395`), `CONTEXT.md:67` and ADR-0003 give a row.
* `MCCallbackDelivery.tla` — small instances. `CallbackProofs.tla` — the theorems.

It meets the ticket lifecycle in one place: `Commit` is what the write of a completion
adds to `outbox` there (`createRefundCallbackDelivery`).

### State and actions

| Variable | Code |
|---|---|
| `row` | a row of `callback_deliveries`: status, attempts, firstAttemptAt (`first`), nextAttemptAt (`wait`) |
| `tick` | a run of `tickCallbackDeliveries`: the rows it read as due (`todo`, `read`), the row it is at, the time since its `clock.now()`, the outcome it is about to write |
| `box` | `box.current`: the tick in it and the time since `startedAt` |
| `request` | a `redeliverCallbackDelivery` between its `findUnique` and its `update` |
| `accepted` | the platform: the callbacks it took (repetitions are absorbed) |
| `tried`, `alerted` | callbacks sent since they were committed or put back; callbacks with an `ops_alert` |
| `faults` | how many faults there were: the bound `MaxFaults` |

A tick is `StartTick` (the timer finds the box free, or its tick older than
`stuckAfterMs`), `ReadDue` (the one `findMany`), then for each row in `createdAt` order
`Expire` (24 hours are over) or `Send` (the POST with the platform's answer), and `Write`
(the `update` or `markDead`), and `Done` (the `finally`). `Fail` is a query that throws,
before or after it took effect; `Hang` one that does not return, for a while (`Return`) or
for ever; `Crash` the end of the process. The steps between two awaits are one action,
and anything may happen between the actions: in particular a tick may be so slow, with 60
rows that each time out after 10 seconds, that the watchdog gives the box to another one
while it is still at work. An answer other than 0000 or 9998 (9999, another status, no
JSON, a timeout) leaves open whether the platform took the callback.

There is no clock. Instants are kept as the time since them, which `PassTime` moves on and
which stops at the largest value a comparison in the code can tell from a larger one, so
that behaviours are infinite and the state space finite. The unit is arbitrary: the runs
use waits of 1 and 2 (the code: 5, 30, 120 minutes, in turn), 3 for 24 hours and 1 for the
10 minutes of the watchdog. What matters is their order: a tick can be given up within a
row's 24 hours, a row can be retried more than once before it is given up, and the waits
differ and repeat.

### Runs

| Run | Instance | Shows |
|---|---|---|
| `callback_overlap` | one row, two ticks, one operator, one fault | `TypeOK`, `DeliveredMeansAccepted`, `BoxIsKept`, and `Settled` under `Fairness` |
| `callback_serial` | two rows, one tick, one operator, two faults | `DeadWasTried`, `InStep`, `ImplementsOutbox`: without overlap the worker implements the documented outbox |

Two ticks and an operator suffice for the races of two reads and two writes on a row
(the theorems hold for any number of both);
two rows make the order of the queue and the rows behind a failing one appear. One fault
is enough for a tick to hang for ever and its successor to take over; with two ticks a
second permanent hang would leave nobody to work, where the code starts a third.

`Fairness`: the timer fires (`setInterval`), a tick that is not hung goes on, and time
passes. It is not assumed that hung queries return, that operators do anything or that the
platform ever accepts. Faults are finitely many: a process that crashes for ever delivers
nothing.

### Where the code and its documentation disagree

* The write of an outcome names the row by id alone
  (`callback-delivery.service.ts:165-201`). A slow tick that lost the box goes on with the
  rows it read: it sends a callback its successor has already settled and writes over the
  row, so that a delivered one becomes dead. The schema says pending → delivered | dead.
* The same slow tick judges the 24 hours by the `firstAttemptAt` it
  read, and marks dead a row that an operator has just put back, which is what the comment
  of `redeliverCallbackDelivery` says clearing `firstAttemptAt` is for.
* Of two concurrent redeliveries the second can put back a
  row that was delivered in between ("仅死信状态的回调投递可重新投递").

The documented assumption of a single instance (`callback-delivery.service.ts:240`) does
not exclude them: both ticks run in the same process. The platform's idempotence makes the
repeated sending harmless; what goes wrong is the status shown and the alert.

### What is proved

`CallbackProofs`, for any rows, ticks, operators, waits and number of faults:

* `TypeCorrect`: the types, with `WritesKnown` (a tick that writes is at a row it has
  read, and its "delivered" is one the platform confirmed), which makes them inductive.
* `DeliveredIsAccepted`, from `Effects`: only four actions touch a status or what the
  platform knows, and only `Write` makes a row delivered, from a confirmed outcome. It
  needs no exclusion between ticks, because "accepted" never ceases to hold.
* `BoxIsHeld`: only its end or the watchdog takes the box from a tick.

Under `Alone` (at most one tick and one operator, an assumption of the theorems):

* `AloneInStep`: `InStep` is inductive. It says that what was read is still so: rows in
  hand are pending, rows an operator is putting back are dead, and each has been sent if
  it carries a first attempt. `InStepOfTick` reduces the steps of a tick to the tick's own
  new state; the rest is one case per action.
* `GivenUpWasTried`, and `AloneImplementsOutbox`: every step is one of `CallbackOutbox`'s or
  changes nothing of what it sees (`OutboxStep`).

The assumptions are `ConstantsAssumption`: rows are numbered, the waits are not longer than
the 24 hours, NULL is no number and no tick. `Settled` is checked by TLC only (liveness).

### Abstractions

The payload is a snapshot that nothing writes again; its building, encryption and parsing
have no effect on the control. `lastError` and `deliveredAt` are only shown. The worker is
configured (otherwise a tick does nothing) and some administrator is active, so that
`writeOpsAlertNotifications` has a recipient. A row is never deleted (tickets are deleted
softly).

## 5. Complaint notices from Huifu

`HuifuIngestion.tla`, after `huifu-webhook.service.ts`, `huifu-worker.ts` and
`huifu-attachment-cleanup.service.ts`.

| Variable | Code |
|---|---|
| `row` | a row of `huifu_webhook_events`: its content, which digest it is stored under, status, attempts, the time until `nextAttemptAt` (`wait`) |
| `ticket` | per complaint: the ticket that its row of `huifu_complaints` names |
| `log` | per notice: the entries in `process_logs` it left, for the property |
| `worker` | an API process with its timer: the rows it read as due with their attempts, the row it is at, the attempts it found when it took its clock, whether the complaint has a ticket |
| `faults` | faults so far: the bound `MaxFaults` |

`Receive` is the webhook (a known digest changes nothing). A worker goes `ReadDue` (the
tick's `findMany`), `Begin` (the clock of `processEvent`), `Lock` (the row, `FOR UPDATE`,
and the check that it is still due), `Claim` (the advisory lock of the complaint and the
lookup of its ticket), then commits with `Ignore`, `Create` or `Note`. `Fail` rolls the
transaction back, and `Reschedule` puts the notice off if its attempts are still those that
were listed. `Die` is the end of the process: its locks go with it. `Clean` is one step
because the script locks the tables it rewrites; that it is killed by a deadlock is a
`Fail` of the other side. `DeleteTicket` is the desk.

Run `huifu_notices`: three rows (one kept from before attachments left the digest), two
contents of one complaint, two workers, two faults, delays 1 and 2 (the code: 5 minutes,
doubled, at most 6 hours). One complaint is enough, since workers at different ones share
nothing; two contents make "the first event" ambiguous; the third row gives the cleanup a
copy to choose from. It shows `LoggedOnce`, `FirstEventIsAlone`, `CleanedIsSettled`,
`BackoffHolds` and, under `FairSpec`, `Settled`. Fairness is that of each worker's timer
(`WorkerStep`) and of time; faults are finitely many, since notices that always fail are
put off for ever. `CHECK_DEADLOCK FALSE`: when every notice is settled nothing is left.

`HuifuProofs`: `Consistent` is inductive for any notices, complaints, workers and faults. It
says of the locks (`LocksHold`) that what a worker holds is as it read it, is held by nobody
else, and that no two workers are past the advisory lock of one complaint; and of the lists
(`ListsHold`) that attempts as listed are the present ones only if the row has not been put
off since. `LoggedOnce`, `FirstEventIsAlone` and `BackoffHolds` follow.

`CleanedIsSettled` (theorem `CleanupIsOnce`) needs a second invariant, `OneCopyStands`. It
says that at most one row has the digest of a content, and that, once no digest counts
attachments any more, each copy set aside is settled and has a row that stands for it
(`StandsFor`): one under the content's own digest that is the oldest of those processed or,
while it is not processed itself, older than the copy. Workers keep it because they settle
pending rows only (`DigestsKept`), the webhook because it stores unknown contents only, and
the cleanup because of its choice (`CanonicalStands`; that a set of rows has an oldest one,
`OldestExists`, is the well-foundedness of strict inclusion on the finite set of rows).

Checked by TLC only: `Settled` (liveness).

Not a property, because the code allows it: a ticket deleted between the lookup of the
mapping and the insert of the note gets a note although `docs/huifu-webhook.md:49` says an
event of a deleted ticket is ignored.

## 6. Accounts, roles and sessions

`Accounts.tla`, after `user.service.ts`, `external-account.service.ts`, `role.service.ts`,
`auth.service.ts`.

| Variable | Code |
|---|---|
| `account` | `users`: role, active, and the number of changes of `passwordHash` |
| `roles` | the custom rows of `roles` (the system role and the external one are fixed) |
| `session` | `sessions`: whose, and the password count it was made at, for the property |
| `request` | requests in flight: what they read, the row they wrote, the sessions they deleted |
| `begun` | requests begun: the bound `MaxRequests` |

A request is `Begin…` (the unlocked reads and checks) and then `Write` (the UPDATE takes the
row), `Guard` and `Count` (`assertEnabledAdminRemains`: the system role `FOR UPDATE`, then
the count), `Sweep` (deletion of the sessions), `Commit`; creating, logging in and deleting
a role commit in one step. Locks are the row lock of a written account, `FOR UPDATE` on the
system role, and `FOR KEY SHARE` on a role that a written row refers to. A write may take
its two locks in one step because nobody who holds the system role goes on to lock an
account, so no circle of waiting arises. Passwords are counters, so that "the password of
the session" can be compared.

Run `accounts`: three accounts of which two are administrators, one custom role, two
requests at once out of six, two tokens. Two administrators are the fewest that can
disable each other; the third account is the one to be promoted. Administrators, requests
and tokens are interchangeable; symmetry is sound because only safety is checked.

`AccountsProofs` proves these and the types for any number of accounts, roles, tokens and
requests. The invariant adds to them `Locked` (rows and the system role are held by one
request, and what a transaction wrote is made from the row as committed), `CountsHold` (who
counted an administrator still sees one), `ReferencesHold` and `SweepsHold`.

Two things the code allows, hence no properties: a login under way at a change of the
password creates its session afterwards; and `changeOwnPassword`, having checked the old
password, overwrites a reset made after its check.

## 7. Open API: keys and limits

`ApiKeys.tla` (`api-key.service.ts`), `RateLimiter.tla` (`api-rate-limit.service.ts`) and
`OpenApi.tla` (`routes/open-api/app.ts`), which composes them.

| Variable | Code |
|---|---|
| `key`, `audit` | `api_keys`; the audit entries of each key |
| `request` | requests of the desk that create or revoke, with the rows they hold |
| `gate`, `limiter` | the two `ApiRateLimiter`s: buckets and the operations since the last sweep |
| `call` | calls waiting for `validateApiKey`, then for the limit of the key |
| `failed`, `passed` | counters for the properties |

A limiter is a value and its methods are operators on it, since JavaScript runs them
without interruption. Levels are counted in ticks of the clock, a token being `Share` of
them, so that fractions are exact; rounding of floating-point numbers is ignored, the clock
does not go back, and a restart (which forgets the buckets) is left out. `TakeUp` charges
the gate before the token is looked up, `Check` is what follows the `await` and gives the
token back unless authentication failed, `Limit` charges the key. Other calls, and
revocations, come between. A key is read when its check ends.

Run `openapi`: three keys, limit 2, buckets of 2 tokens refilled in 2 ticks each, a sweep
every 2 operations, time 4, three calls, four requests of the desk, two at once of both. The
limits are small so that each is reached and refilled once; the sweep comes between any two
operations. `CHECK_DEADLOCK FALSE`: the bounds end it.

`OpenApiProofs`, for any limit, capacity, share and interval: `KeyLimitHolds` and
`AuditTellsKeys` from `RowsHeld` and `CountsHold` (one request at a time is between the
advisory lock of an owner and its insert, and a revoked row is held by one request);
`OnlyFailuresDrain` and `LimitsHold` from a balance: the level of a bucket plus what was
taken out of it is at least full, and a bucket that is swept is full, so that its absence
says the same.

## 8. Open API: incremental sync

`IncrementalSync.tla`, after `open-api-ticket.service.ts`, mode `incremental`. `stamp` is
`tickets.updatedAt` as committed, `open` the changes stamped and not committed, `sweep` the
consumer's cursor, `seen` the largest `updatedAt` it has got, `stale` and `unstamped` what its
copy lacks: changes that moved `updatedAt`, and changes that did not. `ReadPage` is one request: rows beyond the cursor in the order of
(updatedAt, id), the page, the next cursor. Changes are committed in any order and pages
read in between; a consumer may `BreakOff` a sweep and begin another.

Two changes of a ticket name no `updatedAt`. That of a compensation updates another table
(`Amend`). A completion is an `updateMany` (`ticket-resolve.service.ts:76-83`), of which
`ticket-delete.service.ts:44-46` and `ticket-import-batch.service.ts:175-176` say that Prisma
does not stamp it and that "an unstamped delete would silently never reach consumers"; those two
places stamp it themselves, completion does not. Whether the library does is not to be seen in
the repository: it is the constant `UpdateManyStamps`, which the runs set to what the
repository's comments say, so that a completion is `Complete` and leaves no stamp. If the comments
are right, an incremental consumer does not hear of a completion until something else
changes the ticket; if they are wrong, a completion is one of `WriteTicket`'s changes and the two
stamps are superfluous. The first follow-up claims with an `updateMany` as well, but the
`update` after it stamps the row.

`NothingIsLost` speaks of stamped changes only. It holds if the overlap covers the longest transaction **and** the duration of
a sweep (`SyncAssumption`): a change stamped before a sweep began and committed while it was
under way can lie behind the cursor, and the next sweep goes back from the newest row the
sweep has seen, which may be as late as its end. Prisma's transaction timeouts (5 and 30
seconds) bound the first; the second means that the "few minutes" the documentation
recommends are not enough for a first sweep that takes longer than that.

Run `sync`: three tickets, one row a page, transactions and sweeps of one tick, overlap 2,
two changes at once, one unstamped change that the copy lacks (`MaxUnstamped`), time 5. One row a page puts a page boundary everywhere. Both clocks may
stop at their bounds. Run `claim_details_synced` is a **bug** it found:
`updateRefundCompensation` (`ticket-edit.service.ts:562`) changes an amount that the open API
serves without touching `tickets.updatedAt`, which the comment at line 360 of the same file
says every change of a detail does; the consumer does not hear of it.

`IncrementalSyncProofs` proves `NothingIsLost` for any tickets, page size and number of
transactions, whether or not `updateMany` stamps. The invariant `Kept` says of a change the copy lacks: it is due for the next
sweep, and the present one will either come to it or began no later than the longest
transaction after its stamp.

## 9. The doors: push, submission, import, catalogs

`TicketIntake.tla`, after `refund-push.service.ts`, `routers/external-ticket.router.ts`,
`ticket-import.service.ts`, `ticket-import-batch.service.ts`,
`dictionary-catalog.service.ts`.

| Variable | Code |
|---|---|
| `ticket` | `tickets`: the door it came through, its status (unassigned, owned, completed, or reopened: owned again after a completion), deleted, whether its log has an entry from after it came in (`worked`), one catalog reference |
| `entry` | the rows of one catalog: not there yet, active, disabled, deleted |
| `prefill` | `users.prefillChannelId` of the external accounts |
| `batch` | `ticket_import_batches` |
| `answers` | the tickets that pushes of an endorsement were answered with, for the property |
| `request`, `asked` | requests in flight; requests begun: the bound `MaxAsked` |

A push is `BeginPush` (the lookup) and `CommitPush` (the insert, or the unique key and the
second lookup). A submission is `BeginSubmit` (the account as read before the transaction),
`CheckDuplicates` (the lock on the account, then the search) and `CommitSubmit`. A
revocation is `BeginRevoke`, `ClaimBatch`, `LockTicket` for each row of the `updateMany`,
`CheckProcessed` after the last of them, `CommitRevoke`. `BeginWork`/`CommitWork` is what
staff do to a ticket meanwhile, reduced to what a door can see of `TicketLifecycle`:
assignments, follow-ups and edits write by id alone, a completion claims the status and a
deletion that the row is there. An assignment that read the ticket unassigned may commit after
its completion and reopens it (section 3). The catalog is created, enabled, disabled and deleted; the foreign keys
(`onDelete: Restrict`) stand behind its count. A transaction that waits for one lock only
is a single step at its commit, because nobody can tell when it got the lock; the
statements of submissions and revocations are apart because others come in between.

Run `intake`: three tickets, one endorsement, account, batch and catalog entry, two requests
at once out of five. Two tickets of one batch let a revocation hold one and wait for the
other; five requests suffice for an import, its revocation and three others. Tickets and
requests are interchangeable. `CHECK_DEADLOCK FALSE`: the bound ends it.

* `PushesAgree` — an endorsement has one ticket and one answer, deleted or not.
* `NoDuplicateOpen` — of the open tickets that an account has for a customer, one at most was
  never closed. The search for duplicates (`ticket-duplicate.service.ts:76`) is meant to
  leave one open ticket; a stale first assignment takes that away. If it reopens the account's completed ticket after a second
  submission has looked for duplicates, before or after its insert, both are open. What the
  lock on the account does keep, and what is checked, is that submissions alone never make two.
* `ReferencesExist` — nothing refers to a deleted entry; tombstones count.
* `RevokedWasClean` — a batch is revoked whole, and only if none of its tickets was
  processed or deleted at that moment. (A comment that waited for the revocation still lands
  on the deleted ticket afterwards: it writes by id alone.)

`TicketIntakeProofs` proves these and the types for any number of everything. The invariant adds what
requests hold against each other: one submission of an account at most is past its check
(`CheckedAlone`), one revocation has claimed a batch (`ClaimedAlone`), and while it is past
its check the batch is clean and wholly in its hands (`CleanInHand`). The lemmas
`InsertEffect` and `WorkEffect` say what each kind of write does to the sets the invariant
speaks of; `RequestStep` and `RequestEnd` carry it over any step of a request.

Left out: duplicates found by policy number, and those of staff, who may
override the check; other fields, names and order of a catalog; SLA policies, which are
enabled and disabled but never deleted. A push that finds no active policy, like any
refused write, is `Abort`; its operations alert is left out. The note of an external
account (`external-ticket.router.ts:365`) checks the status before its transaction and is
not repeated in it, so it may land on a ticket that is completed or deleted by then,
although `ticket-duplicate.service.ts:96` says a completed ticket takes no more notes. No
code excludes it, so there is no property to check.

## 10. The leases of the agent loop

`AgentLoop.tla`, after `scripts/agent/claim.ts`, `dispatch.ts` and `worker.ts`, for one
issue and any number of clones of the repository.

| Variable | Code |
|---|---|
| `lease` | the remote refs `agent-claims/issue-N` and `agent-slots/N`, one pair: their commit, who made it, whether its message is that of a fence, whether it is older than `AGENT_CLAIM_STALE_SECONDS` |
| `file`, `silent` | per clone: the commit in `.worktrees/issue-N.claim`; whether there is the marker `issue-N.publishing`, which silences heartbeats |
| `pid` | per clone: the living worker that `issue-N.pid` names, if it names one |
| `worker`, `heart` | the worker processes, each at its clone (`Home`), and the heartbeat of each: the commit it has read or pushed, its misses |
| `tick` | where the daemon of a clone is in `dispatchTick`, and what for |
| `labels`, `open`, `requeues` | the issue on GitHub |
| `cut` | history, for the properties: the clones in which a worker has lived that `issue-N.pid` did not name |
| `last`, `faults` | the newest commit; faults so far: the bounds `MaxCommits` and `MaxFaults` |

`Push` is `git push --atomic --force-with-lease`: refused, accepted, or (a fault) reported as
refused although it may have landed. A worker is `Work`, `Verify`, `Fence`, `Publish`,
`HandleFailure`, `Release`, which may linger after its last push (`Linger`: removing the worktree,
`worker.ts:142-147`); its heartbeat, on a timer beside it, `Beat` (reads the file),
`Renew` (pushes) and `Remember` (writes the file). A tick takes its phases in the order of
the code (`Phase`): claims of dead workers, closed issues, lingering claims of closed
issues, issues running without a worker, new claims. `releaseRemoteClaim` is `Compare` and
`Take`, apart because the lease may move in between. `Start` edits the labels, spawns the worker and
writes its pid file; it may also end in between: with labels and no worker, or with a living
worker and no pid file (`dispatch.ts:463-464`). What a tick knows of workers is `pid` alone
(`Alive`), and a worker that ends removes the pid file and the marker whosever they are, so that
one that lingered can remove those of its successor. Anybody may `Close` the issue, a worker
may `Die`, a daemon `Restart`, a lease `Age`.

Run `agent_lease`: two clones, of which one has two worker processes at once and the other
one; two tries of a fence and one of all else, one requeue, three commits, one fault. Three
commits are a claim, its loss or renewal, and a fence by either clone; one fault is one lost
answer, one death, one delay or one closing, at any point. A fence is tried again because its
first push may have landed unnoticed. One try of a release makes it fail where the code would
often succeed at the second: a renewal that is pushed but not yet in the file leaves the
claim behind, which `Recovered` then is about. The theorems hold for any number of tries. A
worker outlives its pid file only where another process can be started (`Spare`), which the
first clone has: one fault makes a worker that is not known, whose successor then runs beside
it. `CHECK_DEADLOCK FALSE`: a settled issue is a legal end.

* `PublisherHoldsLease` — a worker that publishes, in a clone whose pid file never missed a
  worker, holds the lease, by a fence, until it is done (`docs/agents/agent-loop.md:320`).
  What its claim was worth when it was last looked at does not matter: the push of the fence
  decides.
* `TakenOnlyWhenStale` — a living worker of such a clone loses its lease to another step
  than its own only if it had become stale or the issue was closed; a renewal that arrives
  between `Compare` and `Take` saves it.
* `Recovered` — no claim other than a fence stays for good on an issue that is queued,
  running or closed: again and again there is none. Assumed fair: time, and the daemon and
  workers of **one** clone (the daemon is restarted on its interval, the watchdog ends a
  stuck worker). Each fairness condition says that the actor changes its own state again
  while it can (`WF_tick(TickStep(c))`, `WF_worker(WorkerStep(w))`). The other clone may
  stop for ever anywhere, with a file that is not the remote's commit included.

Three limits of the code came to light, and the properties are stated within them:

* the daemon may die between `spawnWorker` (`dispatch.ts:463`) and the write of the pid file
  (`:464`), or fail to write it; the comment at `:413` knows of this window. The worker
  lives and fences its claim; the next tick finds an issue running without a worker,
  releases that very claim with the claim file that workers and ticks of a clone share, and
  queues the issue again, while the worker publishes. A living worker loses a fresh lease,
  and a worker that lost its lease publishes, against `docs/agents/agent-loop.md:320`. A
  worker that lingers leads to the same by removing the pid file of the worker after it. TLC
  shows both when `Home[w] \notin cut` is taken out of the two properties. This is why they
  leave out the clones in `cut`. No other clone's worker is harmed by it, which they do say:
  they hold of each clone that is not cut, whatever the others do.
* `releaseRemoteClaim` reads the slot from the message of the commit ("claim issue N slot S
  by"), and the message of a fence ("publish issue N by", `claim.ts:271`) has none: it
  throws. A fence whose worker died before it remembered it, or whose answer was lost,
  therefore stays until somebody deletes the refs; while the issue is labelled running, each
  tick that meets the stale fence ends with that error. The comment at `dispatch.ts:211`
  gives workers that die while publishing as the reason for `releaseClosedRemoteClaims`,
  which this keeps from working for them. The same refusal is what makes
  `PublisherHoldsLease` true of a slow publisher: a fence is never renewed, so it does
  become stale. The faulty variant `FenceLikeClaim` (a fence with a slot in its message)
  breaks that property.
* a claim that landed although its answer was lost has no file; if the issue is then blocked
  by another worker, nobody looks for the claim until the issue is queued again or closed.

Left out: conflicts between issues in the frontier (a held slot is a refused push), the
pipeline before publication, `reconcileOpenPrs`, repairs, branches of specs, and the lock of
the dispatcher (one daemon per clone). Overlapping beats of one heartbeat are one beat.

`AgentLoopProofs` proves, for any clones, workers, tries, requeues, commits and faults, the
types, `PublisherHoldsLease`, that no two workers publish at once, of one clone or of two,
outside the clones in `cut` (`PublishersExclude`), and `TakenOnlyWhenStale`. The inductive
invariant `IInv` rests on four facts:

* a worker that works is the one its clone's pid file names, unless the clone is in `cut`
  (`KnownWorker`);
* a commit is made once, by one clone, and what a clone knows for its own (its file, its
  heartbeat, a remote pair it made) no other clone knows (`NamesApart`). A push that expects
  a commit succeeds for its maker, or for a clone that has read it at the remote, never for
  a clone that has lost it (`PushIsFresh`, `RenewedIsNewer`);
* a tick that touches the file of its clone, or is about to start a worker, has no worker
  beside it, unless the clone is in `cut` (`TickIsAlone`);
* what is about to be deleted was, when it was looked at, no fence (`TakesTheUnfenced`), and
  stale or of a closed issue (`TakesTheAbandoned`). It is named by its commit, and no commit
  becomes a fence or fresh again: a renewal is another commit.

`PublisherIsSafe` then says that a publisher holds its fence, that its heartbeat is silent
and that a beat begun before has nothing left that could succeed. `EveryStep` sorts the
actions by actor into what they do to the shared state; for each part of the invariant one
lemma (`…Outside`) is for time and people, one (`…WorkerStep`) for a worker and its
heartbeat, one (`…TickStep`) for the tick of a clone. `Recovered` is checked by TLC only
(liveness).

## 11. Not modelled

* Schedules and shifts: comparisons of clock times in one query, and single-row writes.
* Display status and follow-up alerts: functions of a ticket and the time. The SQL mirror
  is compared with the TypeScript rule by the integration tests.
* Agent loop beyond its leases: see section 10.
* Dashboard, map, exports: aggregation and formatting of committed rows.
* HTTP, tRPC and OpenAPI surface, web application: routing, validation, rendering.
* Schema and migrations: declarative; unique and foreign keys, and row locks, appear in the
  modules of the services that rely on them.
* Callback encryption: a function of the payload with no effect on the control.

Liveness of users' requests is not claimed: a user may stop at any point. Only the
workers (callbacks, Huifu, the agent loop) have timers, hence fairness. What TLAPS cannot do stays with TLC: liveness
and `ENABLED`: `Settled` of the callbacks and of the notices, and `Recovered`. Operators are
folds and functions, none is recursive.
