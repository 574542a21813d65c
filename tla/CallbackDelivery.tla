--------------------------- MODULE CallbackDelivery ---------------------------
(***************************************************************************)
(* The outbox of refund callbacks and the worker that empties it           *)
(* (apps/api/src/services/callback-delivery.service.ts).                   *)
(*                                                                         *)
(* A timer calls tickNow.  One tick at a time holds the worker's box; it   *)
(* reads the due rows once, then sends them one after the other, each with *)
(* the attempts and firstAttemptAt it READ, and writes the result over     *)
(* the row, whatever the row has become.  A tick older than StuckAfter     *)
(* loses the box to a new one but, if it is only slow, goes on.  Operators *)
(* put a dead row back with a read and an unconditional write.             *)
(*                                                                         *)
(* There is no clock.  Instants are kept as the time since them (or until  *)
(* them), which PassTime moves on; it stops at the largest value the code  *)
(* can tell from a larger one.  Abstracted: the payload (a snapshot never  *)
(* written again), lastError and deliveredAt (only shown), the log.  The   *)
(* callback URL and secret are configured, and some administrator is       *)
(* active to be alerted.                                                   *)
(***************************************************************************)
EXTENDS Naturals, Sequences

CONSTANTS
  Deliveries,   \* rows that may ever exist, numbered in createdAt order
  Ticks,        \* runs of tickCallbackDeliveries that may overlap
  Operators,    \* accounts with ticket.process that redeliver
  Backoff,      \* BACKOFF_MS: the waits after the 1st, 2nd, ... failure, in turn
  DeadAfter,    \* DEAD_AFTER_MS
  StuckAfter,   \* stuckAfterMs
  MaxFaults,    \* bound: crashes, failed queries and hangs in one behaviour
  None          \* SQL NULL, an empty box, an operator with no request

ASSUME ConstantsAssumption ==
  /\ Deliveries \subseteq Nat
  /\ DeadAfter \in Nat \ {0}
  /\ StuckAfter \in Nat
  /\ MaxFaults \in Nat
  /\ Backoff \in Seq(0..DeadAfter) /\ Len(Backoff) > 0
  /\ None \notin Nat \union Ticks

VARIABLES
  row,       \* callback_deliveries
  tick,      \* what each tick has read and is doing
  box,       \* box.current: the tick that holds it and the time since its startedAt
  request,   \* per operator: the row a redelivery in progress has read as dead
  accepted,  \* callbacks the platform has taken; it absorbs repetitions
  tried,     \* callbacks sent since they were committed or redelivered
  alerted,   \* callbacks an ops_alert was raised for
  faults     \* faults so far

vars == <<row, tick, box, request, accepted, tried, alerted, faults>>

-----------------------------------------------------------------------------

Age == 0..DeadAfter                  \* time since an instant; DeadAfter is "or more"
Outcome == {"none", "delivered", "retry", "dead", "expired"}

Row == [status : {"absent", "pending", "delivered", "dead"},
        attempts : Nat,
        first : Age \union {None},   \* time since firstAttemptAt
        wait : 0..DeadAfter]         \* time until nextAttemptAt; 0 if null or past

Read == [attempts : Nat, first : Age \union {None}]

Tick == [phase : {"idle", "reading", "next", "writing"},
         hung : BOOLEAN,             \* its query will perhaps never return
         todo : SUBSET Deliveries,   \* due rows it has not finished
         read : [Deliveries -> Read],
         at : Deliveries \union {None},
         ago : Age,                  \* time since the clock.now() of deliverOne
         outcome : Outcome]

NoRow == [status |-> "absent", attempts |-> 0, first |-> None, wait |-> 0]

Nothing == [d \in Deliveries |-> [attempts |-> 0, first |-> None]]

Idle == [phase |-> "idle", hung |-> FALSE, todo |-> {}, read |-> Nothing,
         at |-> None, ago |-> 0, outcome |-> "none"]

Empty == [holder |-> None, age |-> 0]

Init ==
  /\ row = [d \in Deliveries |-> NoRow]
  /\ tick = [k \in Ticks |-> Idle]
  /\ box = Empty
  /\ request = [u \in Operators |-> None]
  /\ accepted = {} /\ tried = {} /\ alerted = {}
  /\ faults = 0

-----------------------------------------------------------------------------
(* The rows. *)

Pending == [status |-> "pending", attempts |-> 0, first |-> None, wait |-> 0]

\* createRefundCallbackDelivery, in the transaction that completes the ticket.
Commit(d) ==
  /\ row[d].status = "absent"
  /\ row' = [row EXCEPT ![d] = Pending]
  /\ UNCHANGED <<tick, box, request, accepted, tried, alerted, faults>>

\* Faulty variant: the due rows are found by nextAttemptAt alone.
DueAnyStatus(d) == row[d].status # "absent" /\ row[d].wait = 0

Due(d) == row[d].status = "pending" /\ row[d].wait = 0

\* Faulty variant: a redelivery keeps firstAttemptAt.
ResetKeepsFirst(r) == [Pending EXCEPT !.first = r.first]

\* What redeliverCallbackDelivery writes over row r.
Reset(r) == Pending

\* Faulty variant: a row that is still pending is put back too.
BeginRedeliverAny(u, d) ==
  /\ request[u] = None
  /\ row[d].status \in {"pending", "dead"}
  /\ request' = [request EXCEPT ![u] = d]
  /\ UNCHANGED <<row, tick, box, accepted, tried, alerted, faults>>

BeginRedeliver(u, d) ==
  /\ request[u] = None
  /\ row[d].status = "dead"
  /\ request' = [request EXCEPT ![u] = d]
  /\ UNCHANGED <<row, tick, box, accepted, tried, alerted, faults>>

\* The update names the id only: the row may no longer be dead.
WriteRedeliver(u) ==
  /\ request[u] # None
  /\ LET d == request[u]
     IN /\ row' = [row EXCEPT ![d] = Reset(row[d])]
        /\ tried' = tried \ {d}
  /\ request' = [request EXCEPT ![u] = None]
  /\ UNCHANGED <<tick, box, accepted, alerted, faults>>

-----------------------------------------------------------------------------
(* The worker. *)

\* Faulty variant: a tick that hangs is waited for.
FreeWhenEmpty(b) == b.holder = None

\* The box is free, or its tick is given up as stuck.
Free(b) == b.holder = None \/ b.age > StuckAfter

\* tickNow from the timer; with the box taken it only joins the tick under way.
StartTick(k) ==
  /\ tick[k].phase = "idle"
  /\ Free(box)
  /\ tick' = [tick EXCEPT ![k] = [Idle EXCEPT !.phase = "reading"]]
  /\ box' = [holder |-> k, age |-> 0]
  /\ UNCHANGED <<row, request, accepted, tried, alerted, faults>>

\* Faulty variant: the finally frees the box without asking whose it is.
ReleasedAlways(b, k) == Empty

\* The finally of tickNow: a tick that lost the box leaves the new holder in it.
Released(b, k) == IF b.holder = k THEN Empty ELSE b

Runs(k, phase) == tick[k].phase = phase /\ ~tick[k].hung

ReadDue(k) ==
  /\ Runs(k, "reading")
  /\ LET due == {d \in Deliveries : Due(d)}
     IN tick' = [tick EXCEPT ![k].phase = "next",
                             ![k].todo = due,
                             ![k].read = [d \in Deliveries |->
                                IF d \in due
                                THEN [attempts |-> row[d].attempts, first |-> row[d].first]
                                ELSE Nothing[d]]]
  /\ UNCHANGED <<row, box, request, accepted, tried, alerted, faults>>

\* The rows are taken in createdAt order.
IsNext(k, d) == d \in tick[k].todo /\ \A e \in tick[k].todo : d <= e

\* now - firstAttemptAt >= DEAD_AFTER_MS, of the row as it was read
Expired(first) == first # None /\ first = DeadAfter

\* deliverOne takes up row d, having just read the clock.
TakeUp(v, d, outcome) ==
  [v EXCEPT !.phase = "writing", !.at = d, !.ago = 0, !.outcome = outcome]

\* The row is too old: it is not sent but will be marked dead.
Expire(k, d) ==
  /\ Runs(k, "next") /\ IsNext(k, d)
  /\ Expired(tick[k].read[d].first)
  /\ tick' = [tick EXCEPT ![k] = TakeUp(tick[k], d, "expired")]
  /\ UNCHANGED <<row, box, request, accepted, tried, alerted, faults>>

\* What comes back of a POST: 0000 with data true or false, 9998, or anything
\* else (9999, another status, no JSON, a timeout), which also says nothing of
\* whether the platform took the callback.
Reply == {"ok_true", "ok_false", "9998", "other"}

\* Faulty variant: 0000 counts as delivered whatever data says.
InterpretCodeOnly(reply) ==
  IF reply \in {"ok_true", "ok_false"} THEN "delivered"
  ELSE IF reply = "9998" THEN "dead" ELSE "retry"

Interpret(reply) ==
  CASE reply = "ok_true" -> "delivered"
    [] reply = "9998" -> "dead"
    [] OTHER -> "retry"

\* The platform, on a callback d it answers with reply.
Platform(d, reply) ==
  accepted' \in CASE reply = "ok_true" -> {accepted \union {d}}
                  [] reply = "other" -> {accepted, accepted \union {d}}
                  [] OTHER -> {accepted}

Send(k, d, reply) ==
  /\ Runs(k, "next") /\ IsNext(k, d)
  /\ ~Expired(tick[k].read[d].first)
  /\ Platform(d, reply)
  /\ tried' = tried \union {d}
  /\ tick' = [tick EXCEPT ![k] = TakeUp(tick[k], d, Interpret(reply))]
  /\ UNCHANGED <<row, box, request, alerted, faults>>

Wait(attempts, ago) ==
  LET pause == Backoff[((attempts - 1) % Len(Backoff)) + 1]
  IN IF pause > ago THEN pause - ago ELSE 0

\* Faulty variant: the outcome is written as the status, "expired" too.
ResultNamesOutcome(v, r) ==
  LET read == v.read[v.at]
  IN [status |-> IF v.outcome = "retry" THEN r.status ELSE v.outcome,
      attempts |-> read.attempts + 1,
      first |-> IF read.first = None THEN v.ago ELSE read.first,
      wait |-> IF v.outcome = "retry" THEN Wait(read.attempts + 1, v.ago) ELSE 0]

\* Row r after tick v writes what became of it, from what v read of it.
Result(v, r) ==
  LET read == v.read[v.at]
      attempts == read.attempts + 1
      first == IF read.first = None THEN v.ago ELSE read.first
  IN CASE v.outcome = "delivered" ->
            [status |-> "delivered", attempts |-> attempts, first |-> first, wait |-> 0]
       [] v.outcome = "dead" ->
            [status |-> "dead", attempts |-> attempts, first |-> first, wait |-> 0]
       [] v.outcome = "expired" ->
            [status |-> "dead", attempts |-> read.attempts, first |-> read.first, wait |-> 0]
       [] OTHER ->
            [status |-> r.status, attempts |-> attempts, first |-> first,
             wait |-> Wait(attempts, v.ago)]

Write(k) ==
  /\ Runs(k, "writing")
  /\ LET v == tick[k]
     IN /\ row' = [row EXCEPT ![v.at] = Result(v, row[v.at])]
        /\ alerted' = IF v.outcome \in {"dead", "expired"}
                      THEN alerted \union {v.at} ELSE alerted
        /\ tick' = [tick EXCEPT ![k] = [Idle EXCEPT !.phase = "next",
                                          !.todo = v.todo \ {v.at},
                                          !.read = [v.read EXCEPT ![v.at] = Nothing[v.at]]]]
  /\ UNCHANGED <<box, request, accepted, tried, faults>>

Finish(k) ==
  /\ tick' = [tick EXCEPT ![k] = Idle]
  /\ box' = Released(box, k)

Done(k) ==
  /\ Runs(k, "next") /\ tick[k].todo = {}
  /\ Finish(k)
  /\ UNCHANGED <<row, request, accepted, tried, alerted, faults>>

-----------------------------------------------------------------------------
(* Faults, and time. *)

Fault == faults < MaxFaults /\ faults' = faults + 1

\* A query throws, before or after it took effect: the tick ends, and the
\* rows it has not reached wait for the next one.
Fail(k) ==
  /\ Fault
  /\ tick[k].phase # "idle" /\ ~tick[k].hung
  /\ Finish(k)
  /\ UNCHANGED <<row, request, accepted, tried, alerted>>

\* A query has no timeout: it may return very late, or never.
Hang(k) ==
  /\ Fault
  /\ tick[k].phase # "idle" /\ ~tick[k].hung
  /\ tick' = [tick EXCEPT ![k].hung = TRUE]
  /\ UNCHANGED <<row, box, request, accepted, tried, alerted>>

Return(k) ==
  /\ tick[k].hung
  /\ tick' = [tick EXCEPT ![k].hung = FALSE]
  /\ UNCHANGED <<row, box, request, accepted, tried, alerted, faults>>

\* The process dies; what was not written is lost.
Crash ==
  /\ Fault
  /\ tick' = [k \in Ticks |-> Idle]
  /\ box' = Empty
  /\ request' = [u \in Operators |-> None]
  /\ UNCHANGED <<row, accepted, tried, alerted>>

Older(age) == IF age = None THEN None ELSE IF age < DeadAfter THEN age + 1 ELSE DeadAfter

AgedRow(r) ==
  [r EXCEPT !.first = Older(r.first), !.wait = IF r.wait > 0 THEN r.wait - 1 ELSE 0]

AgedTick(v) ==
  [v EXCEPT !.read = [d \in Deliveries |->
                        [attempts |-> v.read[d].attempts, first |-> Older(v.read[d].first)]],
            !.ago = IF v.phase = "writing" THEN Older(v.ago) ELSE 0]

AgedBox(b) ==
  [b EXCEPT !.age = IF b.holder # None /\ b.age <= StuckAfter THEN b.age + 1 ELSE b.age]

PassTime ==
  /\ row' = [d \in Deliveries |-> AgedRow(row[d])]
  /\ tick' = [k \in Ticks |-> AgedTick(tick[k])]
  /\ box' = AgedBox(box)
  /\ UNCHANGED <<request, accepted, tried, alerted, faults>>

-----------------------------------------------------------------------------

TickStep(k) ==
  \/ ReadDue(k)
  \/ \E d \in Deliveries : Expire(k, d)
  \/ \E d \in Deliveries, reply \in Reply : Send(k, d, reply)
  \/ Write(k)
  \/ Done(k)

Next ==
  \/ \E d \in Deliveries : Commit(d)
  \/ \E u \in Operators, d \in Deliveries : BeginRedeliver(u, d)
  \/ \E u \in Operators : WriteRedeliver(u)
  \/ \E k \in Ticks : StartTick(k) \/ TickStep(k) \/ Fail(k) \/ Hang(k) \/ Return(k)
  \/ Crash
  \/ PassTime

Spec == Init /\ [][Next]_vars

\* The timer fires, a tick that does not hang goes on, and time passes.  Nothing
\* makes operators act, hung queries return or the platform accept.
Fairness ==
  /\ WF_vars(PassTime)
  /\ WF_vars(\E k \in Ticks : StartTick(k))
  /\ \A k \in Ticks : WF_vars(TickStep(k))

FairSpec == Spec /\ Fairness
-----------------------------------------------------------------------------
(* Properties. *)

TypeOK ==
  /\ row \in [Deliveries -> Row]
  /\ tick \in [Ticks -> Tick]
  /\ box \in [holder : Ticks \union {None}, age : 0..(StuckAfter + 1)]
  /\ request \in [Operators -> Deliveries \union {None}]
  /\ accepted \subseteq Deliveries
  /\ tried \subseteq Deliveries
  /\ alerted \subseteq Deliveries
  /\ faults \in 0..MaxFaults

\* A delivered row is one the platform took, whatever ticks, late answers,
\* redeliveries and crashes there were in between (the header of
\* tickCallbackDeliveries: "delivered" only when delivery succeeded).
DeliveredMeansAccepted ==
  \A d \in Deliveries : row[d].status = "delivered" => d \in accepted

\* A callback that is given up was sent at least once since it was committed
\* or last put back: a redelivered one gets its 24 hours (the comment of
\* redeliverCallbackDelivery), and no one is told of a failure nobody tried.
DeadWasTried ==
  \A d \in Deliveries : row[d].status = "dead" => d \in tried

\* What a tick has in hand is still so: the rows it read as due are pending
\* and, if they had a first attempt, were sent; what it is about to write it
\* sent or found too old; and a row an operator is putting back is dead.  Only
\* a single tick and a single operator keep this: nothing locks the rows.
InStep ==
  /\ \A k \in Ticks : \A d \in tick[k].todo :
       /\ row[d].status = "pending"
       /\ tick[k].read[d].first # None => d \in tried
  /\ \A k \in Ticks :
       tick[k].phase = "writing" =>
         /\ tick[k].at \in tick[k].todo
         /\ tick[k].at \in tried
  /\ \A d \in Deliveries :
       row[d].status = "dead" \/ row[d].first # None => d \in tried
  /\ \A u \in Operators : request[u] # None => row[request[u]].status = "dead"

\* The box is taken from a tick only when the tick has ended or overstayed: an
\* abandoned tick that ends late never frees the box of its successor.
BoxIsKept ==
  [][\A k \in Ticks : box.holder = k /\ box'.holder # k =>
       tick'[k].phase = "idle" \/ box.age > StuckAfter]_vars

\* Every callback committed or put back is settled, delivered or given up,
\* although ticks hang, fail and are killed.
Settled ==
  \A d \in Deliveries : row[d].status = "pending" ~> row[d].status \in {"delivered", "dead"}

\* With one tick at a time and one redelivery at a time the worker and the
\* operators do what the documentation of callback_deliveries promises.
Outbox == INSTANCE CallbackOutbox WITH status <- [d \in Deliveries |-> row[d].status]
ImplementsOutbox == Outbox!Spec

=============================================================================
