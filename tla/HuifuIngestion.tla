---------------------------- MODULE HuifuIngestion ----------------------------
(***************************************************************************)
(* Complaint notices pushed by the payment platform Huifu                  *)
(* (apps/api/src/services/huifu-webhook.service.ts, huifu-worker.ts and    *)
(* huifu-attachment-cleanup.service.ts).                                   *)
(*                                                                         *)
(* The webhook stores each notice once, told apart by a digest.  In every  *)
(* API process a timer reads the due notices and processes them one by     *)
(* one, each in a transaction that locks the stored row, then the          *)
(* complaint the notice is about, looks the complaint's ticket up and      *)
(* creates it or adds a note to it.  A failure puts the notice off.        *)
(*                                                                         *)
(* Abstracted: what a notice says beyond the complaint it is about, the    *)
(* notifications (written with the log entry), the 50 rows a tick takes at *)
(* most (the rest is due again at once).  An instant is the time until it. *)
(* A failed lookup of a channel, kind or policy is one of the faults.      *)
(***************************************************************************)
EXTENDS Naturals, FiniteSets

CONSTANTS
  Rows,         \* rows of huifu_webhook_events there may ever be, in receivedAt order
  Events,       \* contents of a notice, attachments apart
  Legacy,       \* rows stored before attachments were left out of the digest,
                \*   with their contents: a function
  ComplaintOf,  \* the complaint (type, merchant, number) an event is about
  Workers,      \* API processes, each with its timer
  BaseDelay,    \* 300_000 ms
  MaxDelay,     \* 6 * 3_600_000 ms
  MaxFaults,    \* bound: failed transactions and dying workers in one behaviour
  None          \* no such row, lock, event or reading

ASSUME ConstantsAssumption ==
  /\ Rows \subseteq Nat /\ IsFiniteSet(Rows) /\ DOMAIN Legacy \subseteq Rows
  /\ \A r \in DOMAIN Legacy : Legacy[r] \in Events
  /\ \A r \in DOMAIN Legacy, q \in Rows \ DOMAIN Legacy : r < q
  /\ DOMAIN ComplaintOf = Events
  /\ BaseDelay \in Nat \ {0} /\ MaxDelay \in Nat \ {0} /\ MaxFaults \in Nat
  /\ None \notin Nat \union Events \union Workers

Complaints == {ComplaintOf[e] : e \in Events}

VARIABLES
  row,      \* huifu_webhook_events
  ticket,   \* per complaint: the ticket of its huifu_complaints row
  log,      \* per row: log entries it has left on tickets
  worker,   \* what each worker has read and is doing
  faults    \* faults so far

vars == <<row, ticket, log, worker, faults>>

-----------------------------------------------------------------------------

\* The digest a row is stored under: that of the event, one with attachments
\* in it, or the one the cleanup gives to copies.
Row == [event : Events \union {None},
        digest : {"none", "event", "attached", "duplicate"},
        status : {"absent", "pending", "processed", "ignored"},
        attempts : Nat,
        wait : Nat]

TicketState == {"none", "open", "deleted"}

Worker == [pc : {"idle", "next", "lock", "held", "read", "failed"},
           todo : SUBSET Rows,         \* rows it has read as due
           tries : [Rows -> Nat],      \* attempts of each, as read
           at : Rows \union {None},
           stamp : Nat \union {None},  \* attempts when it took its clock, if due then
           seen : TicketState]

NoRow == [event |-> None, digest |-> "none", status |-> "absent", attempts |-> 0, wait |-> 0]

Untried == [r \in Rows |-> 0]

Idle == [pc |-> "idle", todo |-> {}, tries |-> Untried, at |-> None, stamp |-> None,
         seen |-> "none"]

\* Faulty variant: nextAttemptAt is left null until the first failure.
StoredUnscheduled(e, digest) ==
  [event |-> e, digest |-> digest, status |-> "pending", attempts |-> 0, wait |-> None]

Stored(e, digest) ==
  [event |-> e, digest |-> digest, status |-> "pending", attempts |-> 0, wait |-> 0]

Init ==
  /\ row = [r \in Rows |->
              IF r \in DOMAIN Legacy THEN Stored(Legacy[r], "attached") ELSE NoRow]
  /\ ticket = [c \in Complaints |-> "none"]
  /\ log = [r \in Rows |-> 0]
  /\ worker = [w \in Workers |-> Idle]
  /\ faults = 0

ComplaintAt(r) == ComplaintOf[row[r].event]

-----------------------------------------------------------------------------
(* The webhook and the desk. *)

Known(e) == \E r \in Rows : row[r].event = e /\ row[r].digest = "event"

\* receiveHuifuWebhook: a repetition of a stored notice changes nothing.
Receive(e) ==
  /\ ~Known(e)
  /\ \E r \in Rows :
       /\ row[r].status = "absent"
       /\ \A q \in Rows : row[q].status = "absent" => r <= q
       /\ row' = [row EXCEPT ![r] = Stored(e, "event")]
  /\ UNCHANGED <<ticket, log, worker, faults>>

\* A member of staff deletes the ticket of complaint c (deleteTicket).
DeleteTicket(c) ==
  /\ ticket[c] = "open"
  /\ ticket' = [ticket EXCEPT ![c] = "deleted"]
  /\ UNCHANGED <<row, log, worker, faults>>

-----------------------------------------------------------------------------
(* The worker. *)

Pending(r) == row[r].status = "pending"

\* Faulty variant: only notices that have not failed yet are read.
DueUntried(r) == Pending(r) /\ row[r].attempts = 0

Due(r) == Pending(r) /\ row[r].wait = 0

\* The row locks (FOR UPDATE) and the advisory locks transactions hold.
RowHeld(r) == \E w \in Workers : worker[w].pc \in {"held", "read"} /\ worker[w].at = r

ComplaintHeld(c) ==
  \E w \in Workers : worker[w].pc = "read" /\ ComplaintAt(worker[w].at) = c

\* The timer of an idle worker finds rows to process.
ReadDue(w) ==
  /\ worker[w].pc = "idle"
  /\ LET due == {r \in Rows : Due(r)}
     IN /\ due # {}
        /\ worker' = [worker EXCEPT ![w] =
             [Idle EXCEPT !.pc = "next", !.todo = due,
                          !.tries = [r \in Rows |-> IF r \in due THEN row[r].attempts ELSE 0]]]
  /\ UNCHANGED <<row, ticket, log, faults>>

\* processEvent reads its clock for the oldest row left.
Begin(w) ==
  /\ worker[w].pc = "next"
  /\ \E r \in worker[w].todo :
       /\ \A q \in worker[w].todo : r <= q
       /\ worker' = [worker EXCEPT ![w].pc = "lock", ![w].at = r,
                       ![w].stamp = IF row[r].wait = 0 THEN row[r].attempts ELSE None]
  /\ UNCHANGED <<row, ticket, log, faults>>

\* Worker v is done with its row, and with the tick if it was the last.
Onward(v) ==
  IF v.todo = {v.at} THEN Idle
  ELSE [v EXCEPT !.pc = "next", !.todo = v.todo \ {v.at},
                 !.tries = [v.tries EXCEPT ![v.at] = 0],
                 !.at = None, !.stamp = None, !.seen = "none"]

\* Faulty variant: the row was due when the tick listed it.
ProcessableAsListed(v) == TRUE

\* The row, read under its lock, is pending and was due at the worker's clock:
\* it was then, and no failure has put it off since.
Processable(v) == Pending(v.at) /\ row[v.at].attempts = v.stamp

Lock(w) ==
  /\ worker[w].pc = "lock"
  /\ ~RowHeld(worker[w].at)
  /\ worker' = [worker EXCEPT ![w] =
       IF Processable(@) THEN [@ EXCEPT !.pc = "held"] ELSE Onward(@)]
  /\ UNCHANGED <<row, ticket, log, faults>>

\* Faulty variant: the mapping is read without the lock on the complaint.
ComplaintFreeAlways(c) == TRUE

ComplaintFree(c) == ~ComplaintHeld(c)

\* The complaint is locked until the transaction ends; its ticket is read.
Claim(w) ==
  /\ worker[w].pc = "held"
  /\ ComplaintFree(ComplaintAt(worker[w].at))
  /\ worker' = [worker EXCEPT ![w].pc = "read", ![w].seen = ticket[ComplaintAt(worker[w].at)]]
  /\ UNCHANGED <<row, ticket, log, faults>>

Marked(r, status) == [row EXCEPT ![r].status = status]

\* The ticket has been deleted: the notice is marked and nothing else written.
Ignore(w) ==
  /\ worker[w].pc = "read" /\ worker[w].seen = "deleted"
  /\ row' = Marked(worker[w].at, "ignored")
  /\ worker' = [worker EXCEPT ![w] = Onward(@)]
  /\ UNCHANGED <<ticket, log, faults>>

Logged(r) == [log EXCEPT ![r] = @ + 1]

\* The first notice of a complaint makes its ticket; the unique key of
\* huifu_complaints fails the transaction of a second one.
Create(w) ==
  /\ worker[w].pc = "read" /\ worker[w].seen = "none"
  /\ LET r == worker[w].at
         c == ComplaintAt(r)
     IN IF ticket[c] = "none"
        THEN /\ ticket' = [ticket EXCEPT ![c] = "open"]
             /\ log' = Logged(r)
             /\ row' = Marked(r, "processed")
             /\ worker' = [worker EXCEPT ![w] = Onward(@)]
        ELSE /\ worker' = [worker EXCEPT ![w].pc = "failed", ![w].seen = "none"]
             /\ UNCHANGED <<row, ticket, log>>
  /\ UNCHANGED faults

\* A later notice leaves a note on the ticket, deleted in the meantime or not.
Note(w) ==
  /\ worker[w].pc = "read" /\ worker[w].seen = "open"
  /\ log' = Logged(worker[w].at)
  /\ row' = Marked(worker[w].at, "processed")
  /\ worker' = [worker EXCEPT ![w] = Onward(@)]
  /\ UNCHANGED <<ticket, faults>>

\* Faulty variant: the wait is written by id alone.
PutsOffById(v) == Pending(v.at)

\* The conditional update still finds the row as the tick listed it.
PutsOff(v) == Pending(v.at) /\ row[v.at].attempts = v.tries[v.at]

Smaller(x, y) == IF x <= y THEN x ELSE y

Delay(attempts) == Smaller(BaseDelay * 2 ^ Smaller(attempts, 10), MaxDelay)

PutOff(r, tries) == [row EXCEPT ![r].attempts = @ + 1, ![r].wait = Delay(tries)]

\* The catch of tickHuifuWebhooks, after the transaction was rolled back.
Reschedule(w) ==
  /\ worker[w].pc = "failed"
  /\ ~RowHeld(worker[w].at)
  /\ row' = IF PutsOff(worker[w]) THEN PutOff(worker[w].at, worker[w].tries[worker[w].at])
            ELSE row
  /\ worker' = [worker EXCEPT ![w] = Onward(@)]
  /\ UNCHANGED <<ticket, log, faults>>

-----------------------------------------------------------------------------
(* Faults, the cleanup, and time. *)

Fault == faults < MaxFaults /\ faults' = faults + 1

\* The transaction fails or times out.
Fail(w) ==
  /\ Fault
  /\ worker[w].pc \in {"lock", "held", "read"}
  /\ worker' = [worker EXCEPT ![w].pc = "failed", ![w].seen = "none"]
  /\ UNCHANGED <<row, ticket, log>>

\* The process dies, or a query outside a transaction throws: the tick ends.
Die(w) ==
  /\ Fault
  /\ worker[w].pc # "idle"
  /\ worker' = [worker EXCEPT ![w] = Idle]
  /\ UNCHANGED <<row, ticket, log>>

Copies(r) == {q \in Rows : row[q].event = row[r].event}

\* Faulty variant: the oldest copy stands for the event, processed or not.
CanonicalOldest(r) == CHOOSE q \in Copies(r) : \A p \in Copies(r) : q <= p

\* The copy that stands for the event of row r: the oldest processed one, or
\* the oldest if none has been processed.
Canonical(r) ==
  LET done == {q \in Copies(r) : row[q].status = "processed"}
      among == IF done = {} THEN Copies(r) ELSE done
  IN CHOOSE q \in among : \A p \in among : q <= p

\* Row r after the cleanup.
Cleaned(r) ==
  IF row[r].event = None THEN row[r]
  ELSE IF Canonical(r) = r THEN [row[r] EXCEPT !.digest = "event"]
  ELSE [row[r] EXCEPT !.digest = "duplicate",
                      !.status = IF Pending(r) THEN "ignored" ELSE @]

\* removeStoredHuifuAttachments --apply, in one transaction that locks the
\* tables it reads against writers.  If a worker holds a row it changes, one
\* waits for the other or the database fails one of them (Fail).
Clean ==
  /\ \E r \in Rows : Cleaned(r) # row[r]
  /\ \A r \in Rows : Cleaned(r) # row[r] => ~RowHeld(r)
  /\ row' = [r \in Rows |-> Cleaned(r)]
  /\ UNCHANGED <<ticket, log, worker, faults>>

PassTime ==
  /\ \E r \in Rows : row[r].wait > 0
  /\ row' = [r \in Rows |-> [row[r] EXCEPT !.wait = IF @ > 0 THEN @ - 1 ELSE 0]]
  /\ UNCHANGED <<ticket, log, worker, faults>>

-----------------------------------------------------------------------------

WorkerStep(w) ==
  ReadDue(w) \/ Begin(w) \/ Lock(w) \/ Claim(w) \/ Ignore(w) \/ Create(w) \/ Note(w) \/ Reschedule(w)

Next ==
  \/ \E e \in Events : Receive(e)
  \/ \E c \in Complaints : DeleteTicket(c)
  \/ \E w \in Workers : WorkerStep(w) \/ Fail(w) \/ Die(w)
  \/ Clean
  \/ PassTime

Spec == Init /\ [][Next]_vars

\* Timers fire, transactions and locks come to an end, and time passes.
Fairness == WF_vars(PassTime) /\ \A w \in Workers : WF_vars(WorkerStep(w))

FairSpec == Spec /\ Fairness
-----------------------------------------------------------------------------
(* Properties. *)

TypeOK ==
  /\ row \in [Rows -> Row]
  /\ ticket \in [Complaints -> TicketState]
  /\ log \in [Rows -> Nat]
  /\ worker \in [Workers -> Worker]
  /\ faults \in 0..MaxFaults

\* However many workers take up a notice, and wherever they fail, it leaves
\* exactly one log entry when it is processed and none before or when it is
\* ignored: processEvent rechecks the row under its lock and writes everything
\* in one transaction.
LoggedOnce ==
  \A r \in Rows : log[r] = IF row[r].status = "processed" THEN 1 ELSE 0

\* Whether a worker has found a ticket for its complaint or none, it may rely on
\* that until it commits, and a complaint that has left a log entry has a
\* ticket: two events of one complaint are never both its first.
FirstEventIsAlone ==
  /\ \A w \in Workers :
       worker[w].pc = "read" =>
         (worker[w].seen = "none" <=> ticket[ComplaintAt(worker[w].at)] = "none")
  /\ \A r \in Rows : row[r].status = "processed" => ticket[ComplaintAt(r)] # "none"

\* After the cleanup a content that has been processed, under whatever digest,
\* is not processed again from another copy (the comment at the choice of the
\* canonical copy), and running the cleanup again would change nothing
\* (docs/huifu-webhook.md, "再次运行应无改动").
CleanedIsSettled ==
  (\A r \in Rows : row[r].digest # "attached") =>
    \A r \in Rows :
      /\ Cleaned(r) = row[r]
      /\ Pending(r) => \A q \in Copies(r) : row[q].status # "processed"

\* A failed notice waits: a tick that listed it before it was put off neither
\* processes it meanwhile nor, failing too, counts the same attempt twice and
\* puts it off again.
BackoffHolds ==
  [][\A r \in Rows : Pending(r) /\ row[r].wait > 0 =>
       /\ row'[r].status # "processed"
       /\ row'[r].attempts = row[r].attempts
       /\ row'[r].wait <= row[r].wait]_vars

\* Every stored notice is processed or ignored in the end: a failure is tried
\* again, a dying worker holds nothing back.
Settled == \A r \in Rows : row[r].status = "pending" ~> row[r].status \in {"processed", "ignored"}

=============================================================================
