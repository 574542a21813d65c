------------------------------ MODULE HuifuProofs ------------------------------
(***************************************************************************)
(* Proofs about HuifuIngestion for any notices, complaints, workers,       *)
(* delays and number of faults.                                            *)
(***************************************************************************)
EXTENDS HuifuIngestion, FiniteSetTheorems, TLAPS

Busy(w) == worker[w].pc \in {"lock", "held", "read", "failed"}
Holds(w) == worker[w].pc \in {"held", "read"}

\* What a worker has read of a row is still so, or the row has been put off.
Fresh(attempts, r) ==
  /\ attempts <= row[r].attempts
  /\ attempts = row[r].attempts => row[r].wait = 0

StoredHaveEvents == \A r \in Rows : row[r].status # "absent" => row[r].event \in Events

ListsHold ==
  \A w \in Workers :
    /\ \A r \in worker[w].todo : row[r].status # "absent" /\ Fresh(worker[w].tries[r], r)
    /\ Busy(w) =>
         /\ worker[w].at \in worker[w].todo
         /\ worker[w].stamp # None => Fresh(worker[w].stamp, worker[w].at)

LocksHold ==
  /\ \A w \in Workers :
       Holds(w) => Pending(worker[w].at) /\ row[worker[w].at].attempts = worker[w].stamp
  /\ \A v, w \in Workers : v # w /\ Holds(v) /\ Holds(w) => worker[v].at # worker[w].at
  /\ \A v, w \in Workers :
       v # w /\ worker[v].pc = "read" /\ worker[w].pc = "read" =>
         ComplaintAt(worker[v].at) # ComplaintAt(worker[w].at)

\* The inductive invariant: the locks exclude each other, what they protect is
\* as it was read, and lists are no newer than the rows.
Consistent ==
  TypeOK /\ StoredHaveEvents /\ ListsHold /\ LocksHold /\ LoggedOnce /\ FirstEventIsAlone

-----------------------------------------------------------------------------
(* Types. *)

LEMMA PowerType ==
  ASSUME NEW n \in 0..10
  PROVE  2 ^ n \in Nat
<1>1. /\ 2 ^ 0 \in Nat /\ 2 ^ 1 \in Nat /\ 2 ^ 2 \in Nat /\ 2 ^ 3 \in Nat
      /\ 2 ^ 4 \in Nat /\ 2 ^ 5 \in Nat /\ 2 ^ 6 \in Nat /\ 2 ^ 7 \in Nat
      /\ 2 ^ 8 \in Nat /\ 2 ^ 9 \in Nat /\ 2 ^ 10 \in Nat
  OBVIOUS
<1>2. \/ n = 0 \/ n = 1 \/ n = 2 \/ n = 3 \/ n = 4 \/ n = 5
      \/ n = 6 \/ n = 7 \/ n = 8 \/ n = 9 \/ n = 10
  OBVIOUS
<1>3. QED  BY <1>1, <1>2, Zenon

LEMMA DelayType ==
  ASSUME NEW n \in Nat
  PROVE  Delay(n) \in Nat
<1> DEFINE m == Smaller(n, 10)
           d == BaseDelay * 2 ^ m
<1>1. m \in 0..10
  BY DEF Smaller
<1>2. 2 ^ m \in Nat
  BY <1>1, PowerType
<1>3. BaseDelay \in Nat /\ MaxDelay \in Nat
  BY ConstantsAssumption
<1>4. d \in Nat
  <2> HIDE DEF m
  <2> QED  BY <1>2, <1>3
<1>5. Smaller(d, MaxDelay) \in Nat
  <2> HIDE DEF d
  <2> QED  BY <1>3, <1>4 DEF Smaller
<1>6. QED  BY <1>5 DEF Delay

LEMMA OnwardType ==
  ASSUME NEW v \in Worker, v.at \in v.todo
  PROVE  /\ Onward(v) \in Worker
         /\ Onward(v).pc \in {"idle", "next"}
         /\ Onward(v).todo \subseteq v.todo
         /\ \A r \in Onward(v).todo : Onward(v).tries[r] = v.tries[r]
<1>1. v.at \in Rows /\ v.todo \subseteq Rows /\ v.tries \in [Rows -> Nat]
  BY DEF Worker
<1>2. CASE v.todo = {v.at}
  <2>1. Onward(v) = Idle
    BY <1>2 DEF Onward
  <2>2. Idle \in Worker
    BY DEF Idle, Worker, Untried, TicketState
  <2>3. QED  BY <2>1, <2>2 DEF Idle
<1>3. CASE v.todo # {v.at}
  <2> DEFINE t == [v.tries EXCEPT ![v.at] = 0]
             u == [v EXCEPT !.pc = "next", !.todo = v.todo \ {v.at}, !.tries = t,
                            !.at = None, !.stamp = None, !.seen = "none"]
  <2>1. Onward(v) = u
    BY <1>3 DEF Onward
  <2>2. t \in [Rows -> Nat] /\ \A r \in Rows : r # v.at => t[r] = v.tries[r]
    BY <1>1
  <2> HIDE DEF t
  <2>3. u \in Worker
    BY <1>1, <2>2 DEF Worker, TicketState
  <2>4. u.pc = "next" /\ u.todo = v.todo \ {v.at} /\ u.tries = t
    BY DEF Worker
  <2>5. QED  BY <1>1, <2>1, <2>2, <2>3, <2>4
<1>4. QED  BY <1>2, <1>3

LEMMA CleanedKeeps ==
  ASSUME TypeOK, NEW r \in Rows
  PROVE  /\ Cleaned(r) \in Row
         /\ Cleaned(r).event = row[r].event
         /\ Cleaned(r).attempts = row[r].attempts
         /\ Cleaned(r).wait = row[r].wait
         /\ \/ Cleaned(r).status = row[r].status
            \/ Pending(r) /\ Cleaned(r).status = "ignored"
<1>1. row[r] \in Row
  BY DEF TypeOK
<1>2. \/ Cleaned(r) = row[r]
      \/ Cleaned(r) = [row[r] EXCEPT !.digest = "event"]
      \/ /\ Pending(r)
         /\ Cleaned(r) = [row[r] EXCEPT !.digest = "duplicate", !.status = "ignored"]
      \/ Cleaned(r) = [row[r] EXCEPT !.digest = "duplicate"]
  BY <1>1 DEF Cleaned, Row
<1>3. QED  BY <1>1, <1>2 DEF Row

-----------------------------------------------------------------------------
(* Steps that only change one worker keep the rest; what the worker has in   *)
(* hand afterwards must be shown.                                            *)

\* What must hold of the new record u of worker w.
InHand(w, u) ==
  /\ u \in Worker
  /\ \A r \in u.todo : row[r].status # "absent" /\ Fresh(u.tries[r], r)
  /\ u.pc \in {"lock", "held", "read", "failed"} =>
       u.at \in u.todo /\ (u.stamp # None => Fresh(u.stamp, u.at))
  /\ u.pc \in {"held", "read"} =>
       /\ Pending(u.at) /\ row[u.at].attempts = u.stamp
       /\ \A v \in Workers \ {w} : Holds(v) => worker[v].at # u.at
  /\ u.pc = "read" =>
       /\ \A v \in Workers \ {w} :
            worker[v].pc = "read" => ComplaintAt(worker[v].at) # ComplaintAt(u.at)
       /\ u.seen = "none" <=> ticket[ComplaintAt(u.at)] = "none"

LEMMA WorkerChange ==
  ASSUME Consistent, NEW w \in Workers, NEW u, InHand(w, u),
         worker' = [worker EXCEPT ![w] = u], faults' \in 0..MaxFaults,
         UNCHANGED <<row, ticket, log>>
  PROVE  Consistent'
<1>1. worker'[w] = u /\ \A v \in Workers : v # w => worker'[v] = worker[v]
  BY DEF Consistent, TypeOK
<1>2. TypeOK'
  BY DEF Consistent, TypeOK, InHand
<1>3. StoredHaveEvents' /\ LoggedOnce'
  BY DEF Consistent, StoredHaveEvents, LoggedOnce
<1>4. ListsHold'
  <2> SUFFICES ASSUME NEW v \in Workers
               PROVE  /\ \A r \in worker'[v].todo : row[r].status # "absent" /\ Fresh(worker'[v].tries[r], r)
                      /\ worker'[v].pc \in {"lock", "held", "read", "failed"} =>
                           /\ worker'[v].at \in worker'[v].todo
                           /\ worker'[v].stamp # None => Fresh(worker'[v].stamp, worker'[v].at)
    BY DEF ListsHold, Busy, Fresh
  <2>1. CASE v = w
    BY <1>1, <2>1 DEF InHand
  <2>2. CASE v # w
    BY <1>1, <2>2 DEF Consistent, ListsHold, Busy
  <2>3. QED  BY <2>1, <2>2
<1>5. LocksHold'
  BY <1>1 DEF Consistent, LocksHold, Holds, Pending, ComplaintAt, InHand
<1>6. FirstEventIsAlone'
  BY <1>1 DEF Consistent, FirstEventIsAlone, ComplaintAt, InHand
<1>7. QED  BY <1>2, <1>3, <1>4, <1>5, <1>6 DEF Consistent

\* The facts about a worker's record that its steps start from.
LEMMA WorkerFacts ==
  ASSUME Consistent, NEW w \in Workers
  PROVE  /\ worker[w] \in Worker /\ worker[w].todo \subseteq Rows
         /\ worker[w].tries \in [Rows -> Nat]
         /\ worker \in [Workers -> Worker] /\ faults \in 0..MaxFaults
         /\ Busy(w) => worker[w].at \in worker[w].todo /\ worker[w].at \in Rows
  BY DEF Consistent, TypeOK, Worker, ListsHold

LEMMA IdleInHand ==
  ASSUME NEW w \in Workers
  PROVE  InHand(w, Idle)
  BY DEF InHand, Idle, Worker, Untried, TicketState

LEMMA OnwardInHand ==
  ASSUME Consistent, NEW w \in Workers, Busy(w)
  PROVE  InHand(w, Onward(worker[w]))
<1>1. worker[w] \in Worker /\ worker[w].at \in worker[w].todo
  BY WorkerFacts
<1>2. /\ Onward(worker[w]) \in Worker
      /\ Onward(worker[w]).pc \in {"idle", "next"}
      /\ Onward(worker[w]).todo \subseteq worker[w].todo
      /\ \A r \in Onward(worker[w]).todo : Onward(worker[w]).tries[r] = worker[w].tries[r]
  BY <1>1, OnwardType
<1>3. QED  BY <1>2 DEF InHand, Consistent, ListsHold

LEMMA ReadDueStep ==
  ASSUME Consistent, NEW w \in Workers, ReadDue(w)
  PROVE  Consistent'
<1> DEFINE due == {r \in Rows : Due(r)}
           t == [r \in Rows |-> IF r \in due THEN row[r].attempts ELSE 0]
           u == [Idle EXCEPT !.pc = "next", !.todo = due, !.tries = t]
<1>1. worker' = [worker EXCEPT ![w] = u] /\ UNCHANGED <<row, ticket, log, faults>>
  BY DEF ReadDue
<1>2. \A r \in Rows : row[r] \in Row
  BY DEF Consistent, TypeOK
<1>3. t \in [Rows -> Nat]
  BY <1>2 DEF Row
<1>4. \A r \in due : row[r].status # "absent" /\ Fresh(t[r], r)
  BY <1>2 DEF Due, Pending, Fresh, Row
<1>5. due \subseteq Rows
  OBVIOUS
<1> HIDE DEF t, due
<1>6. u \in Worker /\ u.pc = "next" /\ u.todo = due /\ u.tries = t
  BY <1>3, <1>5 DEF Idle, Worker, TicketState
<1>7. InHand(w, u)
  <2> HIDE DEF u
  <2> QED  BY <1>4, <1>6 DEF InHand
<1>8. faults' \in 0..MaxFaults
  BY <1>1, WorkerFacts
<1>9. QED
  <2> HIDE DEF u
  <2> QED  BY <1>1, <1>7, <1>8, WorkerChange

LEMMA BeginStep ==
  ASSUME Consistent, NEW w \in Workers, Begin(w)
  PROVE  Consistent'
<1>1. PICK r \in worker[w].todo :
        worker' = [worker EXCEPT ![w].pc = "lock", ![w].at = r,
                     ![w].stamp = IF row[r].wait = 0 THEN row[r].attempts ELSE None]
  BY DEF Begin
<1> DEFINE s == IF row[r].wait = 0 THEN row[r].attempts ELSE None
           u == [worker[w] EXCEPT !.pc = "lock", !.at = r, !.stamp = s]
<1>2. worker[w] \in Worker /\ r \in Rows /\ row[r] \in Row
  BY WorkerFacts DEF Consistent, TypeOK
<1>3. s \in Nat \union {None} /\ (s # None => Fresh(s, r))
  BY <1>2 DEF Row, Fresh
<1>4. worker' = [worker EXCEPT ![w] = u]
  BY <1>1, WorkerFacts
<1> HIDE DEF s
<1>5. u \in Worker /\ u.pc = "lock" /\ u.at = r /\ u.stamp = s
      /\ u.todo = worker[w].todo /\ u.tries = worker[w].tries
  BY <1>2, <1>3 DEF Worker
<1>6. InHand(w, u)
  <2> HIDE DEF u
  <2> QED  BY <1>1, <1>3, <1>5 DEF InHand, Consistent, ListsHold
<1>7. faults' \in 0..MaxFaults /\ UNCHANGED <<row, ticket, log>>
  BY WorkerFacts DEF Begin
<1>8. QED
  <2> HIDE DEF u
  <2> QED  BY <1>4, <1>6, <1>7, WorkerChange

LEMMA LockStep ==
  ASSUME Consistent, NEW w \in Workers, Lock(w)
  PROVE  Consistent'
<1>1. Busy(w) /\ worker[w].pc = "lock" /\ ~RowHeld(worker[w].at)
  BY DEF Lock, Busy
<1>2. faults' \in 0..MaxFaults /\ UNCHANGED <<row, ticket, log>>
  BY WorkerFacts DEF Lock
<1>3. CASE Processable(worker[w])
  <2> DEFINE u == [worker[w] EXCEPT !.pc = "held"]
  <2>1. worker' = [worker EXCEPT ![w] = u]
    BY <1>3 DEF Lock
  <2>2. u \in Worker /\ u.pc = "held" /\ u.at = worker[w].at /\ u.stamp = worker[w].stamp
        /\ u.todo = worker[w].todo /\ u.tries = worker[w].tries
    BY WorkerFacts DEF Worker
  <2> HIDE DEF u
  <2>3. InHand(w, u)
    BY <1>1, <1>3, <2>2, WorkerFacts
       DEF InHand, Consistent, ListsHold, Processable, RowHeld, Holds
  <2>4. QED  BY <1>2, <2>1, <2>3, WorkerChange
<1>4. CASE ~Processable(worker[w])
  <2>1. worker' = [worker EXCEPT ![w] = Onward(worker[w])]
    BY <1>4 DEF Lock
  <2>2. QED  BY <1>1, <1>2, <2>1, OnwardInHand, WorkerChange
<1>5. QED  BY <1>3, <1>4

LEMMA ClaimStep ==
  ASSUME Consistent, NEW w \in Workers, Claim(w)
  PROVE  Consistent'
<1> DEFINE c == ComplaintAt(worker[w].at)
           u == [worker[w] EXCEPT !.pc = "read", !.seen = ticket[c]]
<1>1. worker[w].pc = "held" /\ ~ComplaintHeld(c) /\ Busy(w) /\ Holds(w)
  BY DEF Claim, ComplaintFree, Busy, Holds
<1>2. faults' \in 0..MaxFaults /\ UNCHANGED <<row, ticket, log>>
  BY WorkerFacts DEF Claim
<1>3. worker' = [worker EXCEPT ![w] = u]
  BY WorkerFacts DEF Claim
<1>4. worker[w].at \in Rows /\ row[worker[w].at].event \in Events
  BY <1>1, WorkerFacts DEF Consistent, StoredHaveEvents, LocksHold, Pending
<1>5. c \in Complaints
  BY <1>4 DEF Complaints, ComplaintAt
<1>6. ticket[c] \in TicketState
  BY <1>5 DEF Consistent, TypeOK
<1>7. u \in Worker /\ u.pc = "read" /\ u.at = worker[w].at /\ u.stamp = worker[w].stamp
      /\ u.todo = worker[w].todo /\ u.tries = worker[w].tries /\ u.seen = ticket[c]
  <2> HIDE DEF c
  <2> QED  BY <1>6, WorkerFacts DEF Worker
<1> HIDE DEF u
<1>8. InHand(w, u)
  <2>1. Holds(w) => \A v \in Workers \ {w} : Holds(v) => worker[v].at # worker[w].at
    BY DEF Consistent, LocksHold
  <2>2. \A v \in Workers \ {w} : worker[v].pc = "read" => ComplaintAt(worker[v].at) # c
    BY <1>1 DEF ComplaintHeld
  <2>3. Pending(worker[w].at) /\ row[worker[w].at].attempts = worker[w].stamp
    BY <1>1 DEF Consistent, LocksHold
  <2>4. /\ \A r \in worker[w].todo : row[r].status # "absent" /\ Fresh(worker[w].tries[r], r)
        /\ worker[w].at \in worker[w].todo
        /\ worker[w].stamp # None => Fresh(worker[w].stamp, worker[w].at)
    BY <1>1 DEF Consistent, ListsHold
  <2>5. QED  BY <1>1, <1>7, <2>1, <2>2, <2>3, <2>4 DEF InHand
<1>9. QED  BY <1>2, <1>3, <1>8, WorkerChange

LEMMA FailStep ==
  ASSUME Consistent, NEW w \in Workers, Fail(w)
  PROVE  Consistent'
<1> DEFINE u == [worker[w] EXCEPT !.pc = "failed", !.seen = "none"]
<1>1. Busy(w) /\ worker' = [worker EXCEPT ![w] = u] /\ UNCHANGED <<row, ticket, log>>
  BY WorkerFacts DEF Fail, Busy
<1>2. faults' \in 0..MaxFaults
  BY WorkerFacts, ConstantsAssumption DEF Fail, Fault
<1>3. u \in Worker /\ u.pc = "failed" /\ u.at = worker[w].at /\ u.stamp = worker[w].stamp
      /\ u.todo = worker[w].todo /\ u.tries = worker[w].tries
  BY WorkerFacts DEF Worker, TicketState
<1> HIDE DEF u
<1>4. InHand(w, u)
  BY <1>1, <1>3 DEF InHand, Consistent, ListsHold
<1>5. QED  BY <1>1, <1>2, <1>4, WorkerChange

LEMMA DieStep ==
  ASSUME Consistent, NEW w \in Workers, Die(w)
  PROVE  Consistent'
<1>1. worker' = [worker EXCEPT ![w] = Idle] /\ UNCHANGED <<row, ticket, log>>
  BY DEF Die
<1>2. faults' \in 0..MaxFaults
  BY WorkerFacts, ConstantsAssumption DEF Die, Fault
<1>3. QED  BY <1>1, <1>2, IdleInHand, WorkerChange

-----------------------------------------------------------------------------
(* Steps that write the row a worker is at, and leave it. *)

\* The same, after the step.
FreshNext(attempts, r) ==
  /\ attempts <= row'[r].attempts
  /\ attempts = row'[r].attempts => row'[r].wait = 0

ComplaintNext(r) == ComplaintOf[row'[r].event]

LEMMA RowWritten ==
  ASSUME Consistent, NEW w \in Workers, Busy(w), NEW nr \in Row,
         \A v \in Workers \ {w} : Holds(v) => worker[v].at # worker[w].at,
         row' = [row EXCEPT ![worker[w].at] = nr],
         worker' = [worker EXCEPT ![w] = Onward(worker[w])],
         nr.event = row[worker[w].at].event, nr.status # "absent",
         row[worker[w].at].attempts <= nr.attempts,
         nr.attempts = row[worker[w].at].attempts => nr.wait = row[worker[w].at].wait,
         ticket' \in [Complaints -> TicketState],
         \A c \in Complaints : ticket'[c] # ticket[c] =>
            ticket'[c] # "none" /\ worker[w].pc = "read" /\ c = ComplaintAt(worker[w].at),
         nr.status = "processed" => ticket'[ComplaintAt(worker[w].at)] # "none",
         log' \in [Rows -> Nat], LoggedOnce', faults' = faults
  PROVE  Consistent'
<1> DEFINE r == worker[w].at
           u == Onward(worker[w])
<1>1. /\ worker[w] \in Worker /\ r \in worker[w].todo /\ r \in Rows
      /\ row \in [Rows -> Row] /\ worker \in [Workers -> Worker]
  BY WorkerFacts DEF Consistent, TypeOK
<1>2. /\ u \in Worker /\ u.pc \in {"idle", "next"} /\ u.todo \subseteq worker[w].todo
      /\ \A q \in u.todo : u.tries[q] = worker[w].tries[q]
  BY <1>1, OnwardType
<1>3. worker'[w] = u /\ \A v \in Workers : v # w => worker'[v] = worker[v]
  BY <1>1
<1>4. row'[r] = nr /\ \A q \in Rows : q # r => row'[q] = row[q]
  BY <1>1
<1>5. TypeOK'
  BY <1>1, <1>2 DEF Consistent, TypeOK
<1>6. \A q \in Rows : row'[q].event = row[q].event
  BY <1>4
<1>7. \A v \in Workers : worker[v].todo \subseteq Rows
  BY WorkerFacts
<1> HIDE DEF r, u
<1>8. StoredHaveEvents'
  <2>1. row[r].status # "absent" /\ row[r].event \in Events
    BY <1>1 DEF Consistent, ListsHold, StoredHaveEvents
  <2>2. QED  BY <1>4, <1>6, <2>1 DEF Consistent, StoredHaveEvents
<1>9. \A q \in Rows, a \in Nat : Fresh(a, q) => FreshNext(a, q)
  <2>1. row[r].attempts \in Nat /\ nr.attempts \in Nat
    BY <1>1 DEF Row
  <2>2. row[r].attempts <= nr.attempts
        /\ (nr.attempts = row[r].attempts => nr.wait = row[r].wait)
    BY DEF r
  <2>3. QED  BY <1>4, <2>1, <2>2 DEF Fresh, FreshNext
<1>10. ListsHold'
  <2> SUFFICES ASSUME NEW v \in Workers
               PROVE  /\ \A q \in worker'[v].todo :
                           row'[q].status # "absent" /\ FreshNext(worker'[v].tries[q], q)
                      /\ Busy(v)' =>
                           /\ worker'[v].at \in worker'[v].todo
                           /\ worker'[v].stamp # None => FreshNext(worker'[v].stamp, worker'[v].at)
    BY DEF ListsHold, Fresh, FreshNext
  <2>1. \A q \in worker[v].todo :
          /\ q \in Rows /\ worker[v].tries[q] \in Nat
          /\ row[q].status # "absent" /\ Fresh(worker[v].tries[q], q)
    BY <1>7, WorkerFacts DEF Consistent, ListsHold
  <2>2. \A q \in worker[v].todo : row'[q].status # "absent" /\ FreshNext(worker[v].tries[q], q)
    BY <1>4, <1>9, <2>1
  <2>3. CASE v = w
    BY <1>2, <1>3, <2>2, <2>3 DEF Busy
  <2>4. CASE v # w
    <3>1. Busy(v) => /\ worker[v].at \in worker[v].todo
                     /\ worker[v].stamp # None => Fresh(worker[v].stamp, worker[v].at)
      BY DEF Consistent, ListsHold
    <3>2. worker[v].stamp \in Nat \union {None}
      BY WorkerFacts DEF Worker
    <3>3. Busy(v) /\ worker[v].stamp # None => FreshNext(worker[v].stamp, worker[v].at)
      BY <1>9, <2>1, <3>1, <3>2
    <3>4. worker'[v] = worker[v]
      BY <1>3, <2>4
    <3>5. QED  BY <2>2, <3>1, <3>3, <3>4 DEF Busy
  <2>5. QED  BY <2>3, <2>4
<1>11. \A v \in Workers \ {w} : Holds(v) => worker[v].at # r
  BY DEF r
<1>12. \A v \in Workers : Holds(v)' => v # w /\ Holds(v) /\ worker'[v] = worker[v]
  BY <1>2, <1>3 DEF Holds
<1>13. \A v \in Workers : Holds(v) => worker[v].at \in Rows
  BY WorkerFacts DEF Holds, Busy
<1>14. \A q \in Rows : ComplaintNext(q) = ComplaintAt(q)
  BY SMTT(40), <1>6 DEF ComplaintAt, ComplaintNext
<1>15. LocksHold'
  <2>1. ASSUME NEW v \in Workers, Holds(v)'
        PROVE  row'[worker'[v].at].status = "pending" /\ row'[worker'[v].at].attempts = worker'[v].stamp
    <3>1. row'[worker[v].at] = row[worker[v].at]
      BY <1>4, <1>11, <1>12, <1>13, <2>1
    <3>2. QED  BY <1>12, <2>1, <3>1 DEF Consistent, LocksHold, Pending
  <2>2. ASSUME NEW v \in Workers, NEW x \in Workers, v # x, Holds(v)', Holds(x)'
        PROVE  worker'[v].at # worker'[x].at
    BY <1>12, <2>2 DEF Consistent, LocksHold
  <2>3. ASSUME NEW v \in Workers, NEW x \in Workers, v # x,
               worker'[v].pc = "read", worker'[x].pc = "read"
        PROVE  ComplaintNext(worker'[v].at) # ComplaintNext(worker'[x].at)
    <3>1. Holds(v)' /\ Holds(x)'
      BY <2>3 DEF Holds
    <3>2. worker'[v] = worker[v] /\ worker'[x] = worker[x]
          /\ worker[v].at \in Rows /\ worker[x].at \in Rows
      BY <1>12, <1>13, <3>1
    <3>3. ComplaintAt(worker[v].at) # ComplaintAt(worker[x].at)
      BY <2>3, <3>2 DEF Consistent, LocksHold
    <3>4. ComplaintNext(worker'[v].at) = ComplaintAt(worker[v].at)
          /\ ComplaintNext(worker'[x].at) = ComplaintAt(worker[x].at)
      BY SMTT(40), <1>14, <3>2
    <3>5. QED  BY <3>3, <3>4
  <2>4. QED  BY <2>1, <2>2, <2>3 DEF LocksHold, ComplaintAt, ComplaintNext, Pending
<1>16. FirstEventIsAlone'
  <2>1. ASSUME NEW v \in Workers, worker'[v].pc = "read"
        PROVE  worker'[v].seen = "none" <=> ticket'[ComplaintNext(worker'[v].at)] = "none"
    <3>1. Holds(v)' /\ v # w /\ worker'[v] = worker[v] /\ worker[v].at \in Rows
      BY <1>12, <1>13, <2>1 DEF Holds
    <3>2. row[worker[v].at].event \in Events
      BY <1>12, <3>1 DEF Consistent, LocksHold, StoredHaveEvents, Pending
    <3>3. ComplaintAt(worker[v].at) \in Complaints
      BY <3>2 DEF ComplaintAt, Complaints
    <3>4. worker[v].seen = "none" <=> ticket[ComplaintAt(worker[v].at)] = "none"
      BY <2>1, <3>1 DEF Consistent, FirstEventIsAlone
    <3>5. worker[w].pc = "read" => ComplaintAt(worker[v].at) # ComplaintAt(r)
      BY <2>1, <3>1 DEF Consistent, LocksHold, r
    <3>6. ticket'[ComplaintAt(worker[v].at)] = ticket[ComplaintAt(worker[v].at)]
      BY <3>3, <3>5 DEF r
    <3>7. ComplaintNext(worker'[v].at) = ComplaintAt(worker[v].at)
      BY <1>14, <3>1
    <3>8. QED  BY <3>1, <3>4, <3>6, <3>7
  <2>2. ASSUME NEW q \in Rows, row'[q].status = "processed"
        PROVE  ticket'[ComplaintNext(q)] # "none"
    <3>1. CASE q = r
      BY <1>4, <1>14, <2>2, <3>1 DEF r
    <3>2. CASE q # r
      <4>1. row[q].status = "processed" /\ ticket[ComplaintAt(q)] # "none"
        BY <1>4, <2>2, <3>2 DEF Consistent, FirstEventIsAlone
      <4>2. ComplaintAt(q) \in Complaints
        BY <4>1 DEF Consistent, StoredHaveEvents, ComplaintAt, Complaints
      <4>3. QED  BY <1>14, <4>1, <4>2
    <3>3. QED  BY <3>1, <3>2
  <2>3. QED  BY <2>1, <2>2 DEF FirstEventIsAlone, ComplaintAt, ComplaintNext
<1>17. QED  BY <1>5, <1>8, <1>10, <1>15, <1>16 DEF Consistent

\* What a worker about to write its notice holds.
LEMMA ReadFacts ==
  ASSUME Consistent, NEW w \in Workers, worker[w].pc = "read"
  PROVE  /\ Busy(w) /\ worker[w].at \in Rows
         /\ row \in [Rows -> Row] /\ row[worker[w].at] \in Row
         /\ row[worker[w].at].status = "pending"
         /\ ComplaintAt(worker[w].at) \in Complaints
         /\ ticket \in [Complaints -> TicketState]
         /\ log \in [Rows -> Nat] /\ log[worker[w].at] = 0
         /\ \A v \in Workers \ {w} : Holds(v) => worker[v].at # worker[w].at
<1>1. Busy(w) /\ Holds(w)
  BY DEF Busy, Holds
<1>2. worker[w].at \in Rows /\ row \in [Rows -> Row]
  BY <1>1, WorkerFacts DEF Consistent, TypeOK
<1>3. row[worker[w].at].status = "pending"
  BY <1>1 DEF Consistent, LocksHold, Pending
<1>4. row[worker[w].at].event \in Events
  BY <1>2, <1>3 DEF Consistent, StoredHaveEvents
<1>5. ComplaintAt(worker[w].at) \in Complaints
  BY <1>4 DEF ComplaintAt, Complaints
<1>6. log[worker[w].at] = 0
  BY <1>2, <1>3 DEF Consistent, LoggedOnce
<1>7. \A v \in Workers \ {w} : Holds(v) => worker[v].at # worker[w].at
  BY <1>1 DEF Consistent, LocksHold
<1>8. QED  BY <1>1, <1>2, <1>3, <1>5, <1>6, <1>7 DEF Consistent, TypeOK

LEMMA MarkedRow ==
  ASSUME Consistent, NEW r \in Rows, NEW status \in {"processed", "ignored"},
         NEW nr, nr = [row[r] EXCEPT !.status = status], row' = Marked(r, status)
  PROVE  /\ nr \in Row /\ nr.status = status /\ nr.event = row[r].event
         /\ nr.attempts = row[r].attempts /\ nr.wait = row[r].wait
         /\ row' = [row EXCEPT ![r] = nr] /\ row[r].attempts <= nr.attempts
<1>1. row[r] \in Row /\ row \in [Rows -> Row]
  BY DEF Consistent, TypeOK
<1>2. nr \in Row /\ nr.status = status /\ nr.event = row[r].event
      /\ nr.attempts = row[r].attempts /\ nr.wait = row[r].wait
  BY <1>1 DEF Row
<1>3. row' = [row EXCEPT ![r] = nr]
  BY <1>1 DEF Marked
<1>4. row[r].attempts <= nr.attempts
  BY <1>1, <1>2 DEF Row
<1>5. QED  BY <1>2, <1>3, <1>4

LEMMA IgnoreStep ==
  ASSUME Consistent, NEW w \in Workers, Ignore(w)
  PROVE  Consistent'
<1> DEFINE r == worker[w].at
<1>1. worker[w].pc = "read" /\ row' = Marked(r, "ignored")
      /\ worker' = [worker EXCEPT ![w] = Onward(worker[w])]
      /\ UNCHANGED <<ticket, log, faults>>
  BY DEF Ignore
<1>2. PICK nr : nr = [row[r] EXCEPT !.status = "ignored"]
  OBVIOUS
<1>3. r \in Rows
  BY <1>1, ReadFacts
<1>4. /\ nr \in Row /\ nr.status = "ignored" /\ nr.event = row[r].event
      /\ nr.attempts = row[r].attempts /\ nr.wait = row[r].wait
      /\ row' = [row EXCEPT ![r] = nr] /\ row[r].attempts <= nr.attempts
  BY <1>1, <1>2, <1>3, MarkedRow
<1>5. LoggedOnce'
  BY <1>1, <1>3, <1>4, ReadFacts DEF Consistent, LoggedOnce
<1>6. QED  BY <1>1, <1>4, <1>5, ReadFacts, RowWritten

LEMMA NoteStep ==
  ASSUME Consistent, NEW w \in Workers, Note(w)
  PROVE  Consistent'
<1> DEFINE r == worker[w].at
<1>1. worker[w].pc = "read" /\ row' = Marked(r, "processed") /\ log' = [log EXCEPT ![r] = @ + 1]
      /\ worker' = [worker EXCEPT ![w] = Onward(worker[w])]
      /\ UNCHANGED <<ticket, faults>>
  BY DEF Note, Logged
<1>2. PICK nr : nr = [row[r] EXCEPT !.status = "processed"]
  OBVIOUS
<1>3. r \in Rows /\ log' \in [Rows -> Nat]
  BY <1>1, ReadFacts
<1>4. /\ nr \in Row /\ nr.status = "processed" /\ nr.event = row[r].event
      /\ nr.attempts = row[r].attempts /\ nr.wait = row[r].wait
      /\ row' = [row EXCEPT ![r] = nr] /\ row[r].attempts <= nr.attempts
  BY <1>1, <1>2, <1>3, MarkedRow
<1>5. LoggedOnce'
  BY <1>1, <1>3, <1>4, ReadFacts DEF Consistent, LoggedOnce
<1>6. ticket[ComplaintAt(r)] # "none"
  BY DEF Note, Consistent, FirstEventIsAlone
<1>7. QED  BY <1>1, <1>3, <1>4, <1>5, <1>6, ReadFacts, RowWritten

LEMMA CreateStep ==
  ASSUME Consistent, NEW w \in Workers, Create(w)
  PROVE  Consistent'
<1> DEFINE r == worker[w].at
           c == ComplaintAt(r)
<1>1. worker[w].pc = "read" /\ worker[w].seen = "none" /\ ticket[c] = "none"
  BY DEF Create, Consistent, FirstEventIsAlone
<1>2. /\ row' = Marked(r, "processed") /\ log' = [log EXCEPT ![r] = @ + 1]
      /\ ticket' = [ticket EXCEPT ![c] = "open"] /\ faults' = faults
      /\ worker' = [worker EXCEPT ![w] = Onward(worker[w])]
  BY <1>1 DEF Create, Logged
<1>3. PICK nr : nr = [row[r] EXCEPT !.status = "processed"]
  OBVIOUS
<1>4. r \in Rows /\ log' \in [Rows -> Nat] /\ c \in Complaints
  BY <1>1, <1>2, ReadFacts
<1>5. /\ nr \in Row /\ nr.status = "processed" /\ nr.event = row[r].event
      /\ nr.attempts = row[r].attempts /\ nr.wait = row[r].wait
      /\ row' = [row EXCEPT ![r] = nr] /\ row[r].attempts <= nr.attempts
  BY <1>2, <1>3, <1>4, MarkedRow
<1>6. LoggedOnce'
  BY <1>1, <1>2, <1>4, <1>5, ReadFacts DEF Consistent, LoggedOnce
<1>7. /\ ticket' \in [Complaints -> TicketState] /\ ticket'[c] = "open"
      /\ \A d \in Complaints : d # c => ticket'[d] = ticket[d]
  BY <1>1, <1>2, <1>4, ReadFacts DEF TicketState
<1>8. QED  BY <1>1, <1>2, <1>4, <1>5, <1>6, <1>7, ReadFacts, RowWritten

LEMMA RescheduleStep ==
  ASSUME Consistent, NEW w \in Workers, Reschedule(w)
  PROVE  Consistent'
<1> DEFINE r == worker[w].at
           tries == worker[w].tries[r]
<1>1. worker[w].pc = "failed" /\ Busy(w) /\ ~RowHeld(r)
      /\ worker' = [worker EXCEPT ![w] = Onward(worker[w])]
      /\ UNCHANGED <<ticket, log, faults>>
  BY DEF Reschedule, Busy
<1>2. r \in Rows /\ r \in worker[w].todo /\ tries \in Nat /\ row[r] \in Row /\ row \in [Rows -> Row]
  BY <1>1, WorkerFacts DEF Consistent, TypeOK
<1>3. faults' \in 0..MaxFaults
  BY <1>1, WorkerFacts
<1>4. CASE ~PutsOff(worker[w])
  <2>1. row' = row
    BY <1>4 DEF Reschedule
  <2>2. QED  BY <1>1, <1>3, <2>1, OnwardInHand, WorkerChange
<1>5. CASE PutsOff(worker[w])
  <2> DEFINE d == Delay(tries)
             a == row[r].attempts + 1
  <2>1. PICK nr : nr = [row[r] EXCEPT !.attempts = a, !.wait = d]
    OBVIOUS
  <2>2. d \in Nat /\ a \in Nat
    BY <1>2, DelayType DEF Row
  <2>3. /\ nr \in Row /\ nr.status = row[r].status /\ nr.event = row[r].event
        /\ nr.attempts = a /\ row[r].attempts \in Nat
    <3> HIDE DEF a, d, r
    <3> QED  BY <1>2, <2>1, <2>2 DEF Row
  <2>4. row' = [row EXCEPT ![r] = nr]
    BY <1>2, <1>5, <2>1 DEF Reschedule, PutOff
  <2>5. row[r].status = "pending"
    BY <1>5 DEF PutsOff, Pending
  <2>6. row[r].attempts <= nr.attempts /\ nr.attempts # row[r].attempts
    BY <2>3
  <2>7. \A v \in Workers \ {w} : Holds(v) => worker[v].at # r
    BY <1>1 DEF RowHeld, Holds
  <2>8. LoggedOnce'
    BY <1>1, <1>2, <2>3, <2>4 DEF Consistent, LoggedOnce
  <2>9. ticket' \in [Complaints -> TicketState] /\ log' \in [Rows -> Nat]
    BY <1>1 DEF Consistent, TypeOK
  <2>10. QED
    BY <1>1, <2>3, <2>4, <2>5, <2>6, <2>7, <2>8, <2>9, RowWritten
<1>6. QED  BY <1>4, <1>5

-----------------------------------------------------------------------------
(* Steps of others. *)

\* Rows in hand keep what workers have read of them.
LEMMA RowsChange ==
  ASSUME Consistent, row' \in [Rows -> Row], UNCHANGED <<worker, ticket, log, faults>>,
         \A r \in Rows :
           /\ row'[r].status # "absent" => row'[r].event \in Events
           /\ row[r].status # "absent" =>
                /\ row'[r].status # "absent"
                /\ row'[r].event = row[r].event
                /\ row'[r].attempts = row[r].attempts
                /\ row[r].wait = 0 => row'[r].wait = 0
           /\ row'[r].status = "processed" <=> row[r].status = "processed"
           /\ RowHeld(r) => row'[r].status = row[r].status
  PROVE  Consistent'
<1>1. TypeOK' /\ StoredHaveEvents' /\ LoggedOnce'
  BY DEF Consistent, TypeOK, StoredHaveEvents, LoggedOnce
<1>2. \A v \in Workers :
        /\ worker[v].todo \subseteq Rows /\ worker[v].tries \in [Rows -> Nat]
        /\ Busy(v) => worker[v].at \in worker[v].todo
        /\ Holds(v) => worker[v].at \in Rows /\ RowHeld(worker[v].at)
  BY WorkerFacts DEF RowHeld, Holds, Busy
<1>3. ListsHold'
  BY <1>2 DEF Consistent, ListsHold, Busy, Fresh
<1>4. \A q \in Rows : row[q].status # "absent" => ComplaintNext(q) = ComplaintAt(q)
  BY DEF ComplaintNext, ComplaintAt
<1>5. \A v \in Workers : Holds(v) => /\ row'[worker[v].at].status = "pending"
                                     /\ row'[worker[v].at].attempts = worker[v].stamp
                                     /\ ComplaintNext(worker[v].at) = ComplaintAt(worker[v].at)
  BY <1>2, <1>4 DEF Consistent, LocksHold, Pending
<1>6. LocksHold'
  BY <1>5 DEF Consistent, LocksHold, Holds, Pending, ComplaintNext, ComplaintAt
<1>7. \A q \in Rows : row'[q].status = "processed" => ticket[ComplaintNext(q)] # "none"
  BY <1>4 DEF Consistent, FirstEventIsAlone
<1>8. \A v \in Workers : worker[v].pc = "read" =>
        (worker[v].seen = "none" <=> ticket[ComplaintNext(worker[v].at)] = "none")
  BY <1>5 DEF Consistent, FirstEventIsAlone, Holds
<1>9. FirstEventIsAlone'
  BY <1>7, <1>8 DEF FirstEventIsAlone, ComplaintNext, ComplaintAt
<1>10. QED  BY <1>1, <1>3, <1>6, <1>9 DEF Consistent

LEMMA ReceiveStep ==
  ASSUME Consistent, NEW e \in Events, Receive(e)
  PROVE  Consistent'
<1>1. PICK r \in Rows : row[r].status = "absent" /\ row' = [row EXCEPT ![r] = Stored(e, "event")]
  BY DEF Receive
<1>2. row \in [Rows -> Row] /\ Stored(e, "event") \in Row
      /\ Stored(e, "event").event = e /\ Stored(e, "event").status = "pending"
  BY DEF Consistent, TypeOK, Stored, Row
<1>3. ~RowHeld(r)
  BY <1>1 DEF RowHeld, Consistent, LocksHold, Holds, Pending
<1>4. UNCHANGED <<worker, ticket, log, faults>>
  BY DEF Receive
<1>5. /\ row' \in [Rows -> Row]
      /\ row'[r].event = e /\ row'[r].status = "pending"
      /\ \A q \in Rows : q # r => row'[q] = row[q]
  BY <1>1, <1>2
<1>6. QED  BY <1>1, <1>3, <1>4, <1>5, RowsChange DEF Consistent, StoredHaveEvents

LEMMA CleanStep ==
  ASSUME Consistent, Clean
  PROVE  Consistent'
<1>1. \A r \in Rows : /\ Cleaned(r) \in Row
                      /\ Cleaned(r).event = row[r].event
                      /\ Cleaned(r).attempts = row[r].attempts
                      /\ Cleaned(r).wait = row[r].wait
                      /\ \/ Cleaned(r).status = row[r].status
                         \/ row[r].status = "pending" /\ Cleaned(r).status = "ignored"
  BY CleanedKeeps DEF Consistent, Pending
<1>2. UNCHANGED <<worker, ticket, log, faults>>
  BY DEF Clean
<1>3. \A r \in Rows : row'[r] = Cleaned(r) /\ (RowHeld(r) => row'[r] = row[r])
  BY DEF Clean
<1>4. row' \in [Rows -> Row]
  BY <1>1 DEF Clean
<1>5. QED  BY <1>1, <1>2, <1>3, <1>4, RowsChange DEF Consistent, StoredHaveEvents

LEMMA PassTimeStep ==
  ASSUME Consistent, PassTime
  PROVE  Consistent'
<1> DEFINE later(r) == IF row[r].wait > 0 THEN row[r].wait - 1 ELSE 0
<1>1. \A r \in Rows : row[r] \in Row
  BY DEF Consistent, TypeOK
<1>2. \A r \in Rows : later(r) \in Nat /\ (row[r].wait = 0 => later(r) = 0)
  BY <1>1 DEF Row
<1>3. row' = [r \in Rows |-> [row[r] EXCEPT !.wait = later(r)]]
  BY DEF PassTime
<1> HIDE DEF later
<1>4. \A r \in Rows : /\ row'[r] \in Row /\ row'[r].wait = later(r)
                      /\ row'[r].status = row[r].status /\ row'[r].event = row[r].event
                      /\ row'[r].attempts = row[r].attempts
  BY <1>1, <1>2, <1>3 DEF Row
<1>5. row' \in [Rows -> Row]
  BY <1>3, <1>4
<1>6. UNCHANGED <<worker, ticket, log, faults>>
  BY DEF PassTime
<1>7. QED  BY <1>2, <1>4, <1>5, <1>6, RowsChange DEF Consistent, StoredHaveEvents

LEMMA DeleteStep ==
  ASSUME Consistent, NEW c \in Complaints, DeleteTicket(c)
  PROVE  Consistent'
<1>1. /\ ticket[c] = "open" /\ ticket' = [ticket EXCEPT ![c] = "deleted"]
      /\ UNCHANGED <<row, log, worker, faults>>
  BY DEF DeleteTicket
<1>2. /\ ticket' \in [Complaints -> TicketState] /\ ticket'[c] = "deleted"
      /\ \A d \in Complaints : d # c => ticket'[d] = ticket[d]
  BY <1>1 DEF Consistent, TypeOK, TicketState
<1>3. \A r \in Rows : row[r].status # "absent" => ComplaintAt(r) \in Complaints
  BY DEF Consistent, StoredHaveEvents, ComplaintAt, Complaints
<1>4. \A w \in Workers : worker[w].pc = "read" => ComplaintAt(worker[w].at) \in Complaints
  BY ReadFacts
<1>5. FirstEventIsAlone'
  BY <1>1, <1>2, <1>3, <1>4 DEF Consistent, FirstEventIsAlone, ComplaintAt
<1>6. QED
  BY <1>1, <1>2, <1>5 DEF Consistent, TypeOK, StoredHaveEvents, ListsHold, LocksHold, LoggedOnce,
                          Busy, Holds, Fresh, Pending, ComplaintAt

-----------------------------------------------------------------------------
(* The theorems. *)

LEMMA InitConsistent == Init => Consistent
<1> SUFFICES ASSUME Init PROVE Consistent
  OBVIOUS
<1>1. \A r \in Rows : r \in DOMAIN Legacy =>
        /\ row[r] = Stored(Legacy[r], "attached") /\ Legacy[r] \in Events
  BY ConstantsAssumption DEF Init
<1>2. \A r \in Rows : r \notin DOMAIN Legacy => row[r] = NoRow
  BY DEF Init
<1>3. \A r \in Rows : /\ row[r] \in Row
                      /\ row[r].status # "processed"
                      /\ row[r].status # "absent" => row[r].event \in Events
  <2>1. ASSUME NEW e \in Events
        PROVE  /\ Stored(e, "attached") \in Row /\ Stored(e, "attached").event = e
               /\ Stored(e, "attached").status = "pending"
    BY DEF Stored, Row
  <2>2. NoRow \in Row /\ NoRow.status = "absent"
    BY DEF NoRow, Row
  <2>3. QED  BY <1>1, <1>2, <2>1, <2>2
<1>4. row \in [Rows -> Row]
  BY <1>3 DEF Init
<1>5. Idle \in Worker /\ Idle.pc = "idle" /\ Idle.todo = {}
  BY DEF Idle, Worker, Untried, TicketState
<1>6. \A w \in Workers : worker[w] = Idle
  BY DEF Init
<1>7. TypeOK
  BY <1>4, <1>5, ConstantsAssumption DEF Init, TypeOK, TicketState
<1>8. StoredHaveEvents /\ LoggedOnce
  BY <1>3 DEF Init, StoredHaveEvents, LoggedOnce
<1>9. ListsHold /\ LocksHold /\ FirstEventIsAlone
  BY <1>3, <1>5, <1>6 DEF ListsHold, LocksHold, FirstEventIsAlone, Busy, Holds
<1>10. QED  BY <1>7, <1>8, <1>9 DEF Consistent

LEMMA NextConsistent == Consistent /\ [Next]_vars => Consistent'
<1> SUFFICES ASSUME Consistent, [Next]_vars PROVE Consistent'
  OBVIOUS
<1>1. ASSUME NEW w \in Workers, WorkerStep(w) PROVE Consistent'
  BY <1>1, ReadDueStep, BeginStep, LockStep, ClaimStep, IgnoreStep, CreateStep, NoteStep,
     RescheduleStep DEF WorkerStep
<1>2. ASSUME NEW w \in Workers, Fail(w) \/ Die(w) PROVE Consistent'
  BY <1>2, FailStep, DieStep
<1>3. CASE UNCHANGED vars
  BY <1>3 DEF vars, Consistent, TypeOK, StoredHaveEvents, ListsHold, LocksHold, LoggedOnce,
     FirstEventIsAlone, Busy, Holds, Fresh, Pending, ComplaintAt
<1>4. QED
  BY <1>1, <1>2, <1>3, ReceiveStep, DeleteStep, CleanStep, PassTimeStep DEF Next

\* The inductive invariant holds under every interleaving of workers, faults,
\* deletions and cleanups.
THEOREM AlwaysConsistent == Spec => []Consistent
<1>1. Init => Consistent
  BY InitConsistent
<1>2. Consistent /\ [Next]_vars => Consistent'
  BY NextConsistent
<1>3. QED  BY <1>1, <1>2, PTL DEF Spec

\* Rows, tickets, counts and what workers hold keep their types.
THEOREM TypeCorrect == Spec => []TypeOK
<1>1. Consistent => TypeOK
  BY DEF Consistent
<1>2. QED  BY <1>1, AlwaysConsistent, PTL

\* A notice leaves exactly one log entry if it is processed and none otherwise.
THEOREM NoticeLoggedOnce == Spec => []LoggedOnce
<1>1. Consistent => LoggedOnce
  BY DEF Consistent
<1>2. QED  BY <1>1, AlwaysConsistent, PTL

\* What a worker has found of the complaint's ticket holds until it commits.
THEOREM FirstEventAlone == Spec => []FirstEventIsAlone
<1>1. Consistent => FirstEventIsAlone
  BY DEF Consistent
<1>2. QED  BY <1>1, AlwaysConsistent, PTL

\* A step a waiting row comes through unprocessed, unfailed and no later due.
Waits(r) ==
  /\ row'[r].status # "processed"
  /\ row'[r].attempts = row[r].attempts
  /\ row'[r].wait <= row[r].wait

LEMMA KeptRowWaits ==
  ASSUME Consistent, NEW r \in Rows, Pending(r), row'[r] = row[r]
  PROVE  Waits(r)
<1>1. row[r] \in Row
  BY DEF Consistent, TypeOK
<1>2. QED  BY <1>1 DEF Waits, Pending, Row

LEMMA WaitingRowWaits ==
  ASSUME Consistent, Next, NEW r \in Rows, Pending(r), row[r].wait > 0
  PROVE  Waits(r)
<1>1. row \in [Rows -> Row] /\ row[r] \in Row
  BY DEF Consistent, TypeOK
<1>2. ASSUME NEW w \in Workers, worker[w].pc = "read" PROVE worker[w].at # r
  <2>1. Busy(w) /\ Holds(w)
    BY <1>2 DEF Busy, Holds
  <2>2. /\ row[worker[w].at].attempts = worker[w].stamp
        /\ worker[w].stamp # None => Fresh(worker[w].stamp, worker[w].at)
    BY <2>1 DEF Consistent, LocksHold, ListsHold
  <2>3. ASSUME worker[w].at = r PROVE row[r].wait = 0
    BY <1>1, <2>2, <2>3, ConstantsAssumption DEF Fresh, Row
  <2>4. QED  BY <1>1, <2>3 DEF Row
<1>3. CASE \E e \in Events : Receive(e)
  BY <1>1, <1>3, KeptRowWaits DEF Receive, Pending
<1>4. CASE Clean
  <2>1. /\ Cleaned(r).attempts = row[r].attempts /\ Cleaned(r).wait = row[r].wait
        /\ Cleaned(r).status # "processed" /\ row'[r] = Cleaned(r)
    BY <1>4, CleanedKeeps DEF Consistent, Pending, Clean
  <2>2. QED  BY <1>1, <2>1 DEF Waits, Row
<1>5. CASE PassTime
  <2>1. row'[r] = [row[r] EXCEPT !.wait = IF row[r].wait > 0 THEN row[r].wait - 1 ELSE 0]
    BY <1>5 DEF PassTime
  <2>2. row'[r].wait = row[r].wait - 1 /\ row'[r].status = row[r].status
        /\ row'[r].attempts = row[r].attempts
    BY <1>1, <2>1 DEF Row
  <2>3. QED  BY <1>1, <2>2 DEF Waits, Pending, Row
<1>6. ASSUME NEW w \in Workers, Ignore(w) \/ Create(w) \/ Note(w)
      PROVE  Waits(r)
  <2>1. worker[w].at # r
    BY <1>2, <1>6 DEF Ignore, Create, Note
  <2>2. row'[r] = row[r]
    BY <1>1, <1>6, <2>1 DEF Ignore, Create, Note, Marked
  <2>3. QED  BY <2>2, KeptRowWaits
<1>7. ASSUME NEW w \in Workers, Reschedule(w)
      PROVE  Waits(r)
  <2>1. Busy(w)
    BY <1>7 DEF Reschedule, Busy
  <2>2. worker[w].at \in worker[w].todo /\ Fresh(worker[w].tries[worker[w].at], worker[w].at)
    BY <2>1 DEF Consistent, ListsHold
  <2>3. PutsOff(worker[w]) => worker[w].at # r
    BY <1>1, <2>2 DEF PutsOff, Fresh, Row
  <2>4. row'[r] = row[r]
    BY <1>1, <1>7, <2>3 DEF Reschedule, PutOff
  <2>5. QED  BY <2>4, KeptRowWaits
<1>8. ASSUME UNCHANGED row PROVE Waits(r)
  BY <1>8, KeptRowWaits
<1>9. ASSUME NEW w \in Workers, WorkerStep(w) \/ Fail(w) \/ Die(w)
      PROVE  Waits(r)
  BY <1>6, <1>7, <1>8, <1>9 DEF WorkerStep, ReadDue, Begin, Lock, Claim, Fail, Die
<1>10. QED
  BY <1>3, <1>4, <1>5, <1>8, <1>9 DEF Next, DeleteTicket

\* A notice that was put off is neither processed nor put off again before its
\* time, whatever ticks listed it earlier.
THEOREM PutOffIsKept == Spec => BackoffHolds
<1>1. Consistent /\ [Next]_vars =>
        [\A r \in Rows : Pending(r) /\ row[r].wait > 0 =>
           /\ row'[r].status # "processed"
           /\ row'[r].attempts = row[r].attempts
           /\ row'[r].wait <= row[r].wait]_vars
  BY WaitingRowWaits DEF Waits
<1>2. QED  BY <1>1, AlwaysConsistent, PTL DEF Spec, BackoffHolds

-----------------------------------------------------------------------------
(* The cleanup.                                                            *)

Attached == \E r \in Rows : row[r].digest = "attached"

AbsentAreBlank ==
  \A r \in Rows : /\ row[r].status = "absent" <=> row[r].event = None
                  /\ row[r].status = "absent" <=> row[r].digest = "none"

OneUnderDigest ==
  \A q, r \in Rows :
    row[q].digest = "event" /\ row[r].digest = "event" /\ row[q].event = row[r].event => q = r

\* Row q is the copy the cleanup chooses before r, and chooses again.
StandsFor(q, r) ==
  /\ row[q].digest = "event" /\ row[q].event = row[r].event
  /\ row[r].status = "processed" => row[q].status = "processed" /\ q < r
  /\ row[q].status # "processed" => q < r

\* Once no digest counts attachments any more, every copy that was set aside
\* is done with, and the one that stands for it does so for good.
DuplicatesAreOut ==
  ~Attached =>
    \A r \in Rows : row[r].digest = "duplicate" => ~Pending(r) /\ \E q \in Rows : StandsFor(q, r)

OneCopyStands == AbsentAreBlank /\ OneUnderDigest /\ DuplicatesAreOut

\* A nonempty set of rows has an oldest one.
LEMMA OldestExists ==
  ASSUME NEW T, T \in SUBSET Rows, T # {}
  PROVE  \E m \in T : \A k \in T : m <= k
<1> DEFINE below(r) == {q \in Rows : q < r}
           downs == {below(r) : r \in T}
           order == StrictSubsetOrdering(Rows)
<1>1. IsWellFoundedOn(order, SUBSET Rows)
  <2>1. FiniteSubsetsOf(Rows) = SUBSET Rows
    BY ConstantsAssumption, FS_FiniteSubsetsOfFinite
  <2>2. QED  BY <2>1, FS_StrictSubsetOrderingWellFounded
<1>2. downs \subseteq SUBSET Rows /\ downs # {}
  OBVIOUS
<1>3. \E x \in downs : \A y \in downs : <<y, x>> \notin order
  <2> HIDE DEF downs, order
  <2> QED  BY <1>1, <1>2, WFMin
<1>4. PICK m \in T : \A k \in T : <<below(k), below(m)>> \notin order
  BY <1>3
<1>5. \A q \in Rows : q \in Nat
  BY ConstantsAssumption
<1>6. ASSUME NEW k \in T, k < m PROVE FALSE
  <2>1. k \in Rows /\ m \in Rows /\ k \in Nat /\ m \in Nat
    BY <1>5
  <2>2. below(k) \subseteq below(m) /\ k \in below(m) /\ k \notin below(k)
    <3>1. \A q \in Rows : q < k => q < m
      BY <1>5, <1>6, <2>1
    <3>2. k < m /\ ~(k < k)
      BY <1>6, <2>1
    <3>3. QED  BY <2>1, <3>1, <3>2
  <2>3. below(k) \in SUBSET Rows /\ below(m) \in SUBSET Rows /\ below(k) # below(m)
    BY <2>2
  <2>4. <<below(k), below(m)>> \in order
    BY <2>2, <2>3 DEF StrictSubsetOrdering
  <2>5. QED  BY <1>4, <2>4
<1>7. \A k \in T : k \in Nat /\ m \in Nat
  BY <1>5
<1>8. QED  BY <1>6, <1>7

\* The canonical copy is a copy, and none that counts is older.
LEMMA CanonicalStands ==
  ASSUME NEW r \in Rows
  PROVE  /\ Canonical(r) \in Copies(r)
         /\ \A q \in Copies(r) :
              /\ row[q].status = "processed" =>
                   row[Canonical(r)].status = "processed" /\ Canonical(r) <= q
              /\ row[Canonical(r)].status # "processed" => Canonical(r) <= q
<1> DEFINE done == {q \in Copies(r) : row[q].status = "processed"}
           among == IF done = {} THEN Copies(r) ELSE done
<1>1. r \in Copies(r) /\ Copies(r) \subseteq Rows
  BY DEF Copies
<1>2. among \in SUBSET Rows /\ among # {}
  BY <1>1
<1>3. Canonical(r) = CHOOSE q \in among : \A p \in among : q <= p
  BY DEF Canonical
<1>4. Canonical(r) \in among /\ \A p \in among : Canonical(r) <= p
  <2> HIDE DEF among
  <2> QED  BY <1>2, <1>3, OldestExists
<1>5. QED  BY <1>4

\* A copy that counts and is the oldest of those is the canonical one.
LEMMA OldestIsCanonical ==
  ASSUME NEW r \in Rows, NEW q \in Copies(r),
         \A p \in Copies(r) :
           /\ row[p].status = "processed" => row[q].status = "processed" /\ q <= p
           /\ row[q].status # "processed" => q <= p
  PROVE  Canonical(r) = q
<1> DEFINE c == Canonical(r)
<1>1. /\ c \in Copies(r)
      /\ row[q].status = "processed" => row[c].status = "processed" /\ c <= q
      /\ row[c].status # "processed" => c <= q
  BY CanonicalStands
<1>2. c \in Nat /\ q \in Nat
  BY <1>1, ConstantsAssumption DEF Copies
<1>3. c <= q /\ q <= c
  <2> HIDE DEF c
  <2> QED  BY <1>1
<1>4. QED  BY <1>2, <1>3

\* What the cleanup makes of a stored row.
LEMMA CleanedDigest ==
  ASSUME TypeOK, NEW r \in Rows, row[r].event # None
  PROVE  /\ Canonical(r) = r => Cleaned(r).digest = "event" /\ Cleaned(r).status = row[r].status
         /\ Canonical(r) # r => /\ Cleaned(r).digest = "duplicate" /\ Cleaned(r).status # "pending"
                                /\ row[r].status # "pending" => Cleaned(r).status = row[r].status
<1>1. row[r] \in Row
  BY DEF TypeOK
<1>2. CASE Canonical(r) = r
  <2>1. Cleaned(r) = [row[r] EXCEPT !.digest = "event"]
    BY <1>2 DEF Cleaned
  <2>2. QED  BY <1>1, <1>2, <2>1 DEF Row
<1>3. CASE Canonical(r) # r
  <2>1. PICK s : s = IF Pending(r) THEN "ignored" ELSE row[r].status
    OBVIOUS
  <2>2. Cleaned(r) = [row[r] EXCEPT !.digest = "duplicate", !.status = s]
    BY <1>3, <2>1 DEF Cleaned
  <2>3. Cleaned(r).digest = "duplicate" /\ Cleaned(r).status = s
    BY <1>1, <2>2 DEF Row
  <2>4. s # "pending" /\ (row[r].status # "pending" => s = row[r].status)
    BY <2>1 DEF Pending
  <2>5. QED  BY <1>3, <2>3, <2>4
<1>4. QED  BY <1>2, <1>3

-----------------------------------------------------------------------------
(* Each step keeps one copy standing for its content. *)

\* A row comes through with its content and digest, and only a pending one is
\* settled.
KeepsDigest(r) ==
  /\ row'[r].event = row[r].event /\ row'[r].digest = row[r].digest
  /\ \/ row'[r].status = row[r].status
     \/ row[r].status = "pending" /\ row'[r].status \in {"processed", "ignored"}

LEMMA DigestsKept ==
  ASSUME OneCopyStands, \A r \in Rows : KeepsDigest(r)
  PROVE  OneCopyStands'
<1>1. AbsentAreBlank' /\ OneUnderDigest'
  BY DEF OneCopyStands, AbsentAreBlank, OneUnderDigest, KeepsDigest
<1>2. ASSUME ~Attached', NEW r \in Rows, row'[r].digest = "duplicate"
      PROVE  Pending(r)' = FALSE /\ \E q \in Rows : StandsFor(q, r)'
  <2>1. ~Attached /\ row[r].digest = "duplicate"
    BY <1>2 DEF Attached, KeepsDigest
  <2>2. row[r].status # "pending"
    BY <2>1 DEF OneCopyStands, DuplicatesAreOut, Pending
  <2>3. PICK q \in Rows : StandsFor(q, r)
    BY <2>1 DEF OneCopyStands, DuplicatesAreOut
  <2>4. StandsFor(q, r)'
    BY <2>2, <2>3 DEF StandsFor, KeepsDigest
  <2>5. QED  BY <2>2, <2>4 DEF Pending, KeepsDigest
<1>3. QED  BY <1>1, <1>2 DEF OneCopyStands, DuplicatesAreOut

LEMMA ReceiveKeepsCopies ==
  ASSUME Consistent, OneCopyStands, NEW e \in Events, Receive(e)
  PROVE  OneCopyStands'
<1>1. PICK r \in Rows : row[r].status = "absent" /\ row' = [row EXCEPT ![r] = Stored(e, "event")]
  BY DEF Receive
<1>2. /\ row'[r].event = e /\ row'[r].digest = "event" /\ row'[r].status = "pending"
      /\ \A q \in Rows : q # r => row'[q] = row[q]
  BY <1>1 DEF Consistent, TypeOK, Stored
<1>3. row[r].digest = "none" /\ e # None
  BY <1>1, ConstantsAssumption DEF OneCopyStands, AbsentAreBlank
<1>4. AbsentAreBlank'
  BY <1>2, <1>3 DEF OneCopyStands, AbsentAreBlank
<1>5. \A q \in Rows : row[q].event = e => row[q].digest # "event"
  BY DEF Receive, Known
<1>6. OneUnderDigest'
  BY <1>2, <1>5 DEF OneCopyStands, OneUnderDigest
<1>7. ASSUME ~Attached', NEW p \in Rows, row'[p].digest = "duplicate"
      PROVE  Pending(p)' = FALSE /\ \E q \in Rows : StandsFor(q, p)'
  <2>1. p # r /\ row'[p] = row[p] /\ ~Attached
    BY <1>2, <1>3, <1>7 DEF Attached
  <2>2. PICK q \in Rows : StandsFor(q, p)
    BY <1>7, <2>1 DEF OneCopyStands, DuplicatesAreOut
  <2>3. row'[q] = row[q]
    BY <1>2, <1>3, <2>2 DEF StandsFor
  <2>4. StandsFor(q, p)'
    BY <2>1, <2>2, <2>3 DEF StandsFor
  <2>5. row[p].status # "pending"
    BY <1>7, <2>1 DEF OneCopyStands, DuplicatesAreOut, Pending
  <2>6. QED  BY <2>1, <2>4, <2>5 DEF Pending
<1>8. QED  BY <1>4, <1>6, <1>7 DEF OneCopyStands, DuplicatesAreOut

LEMMA CleanKeepsCopies ==
  ASSUME Consistent, OneCopyStands, Clean
  PROVE  OneCopyStands'
<1>1. \A r \in Rows : row'[r] = Cleaned(r)
  BY DEF Clean
<1>2. \A r \in Rows :
        /\ row'[r].event = row[r].event
        /\ \/ row'[r].status = row[r].status
           \/ row[r].status = "pending" /\ row'[r].status = "ignored"
  BY <1>1, CleanedKeeps DEF Consistent, Pending
<1>3. \A r \in Rows : row[r].event # None =>
        /\ Canonical(r) = r => row'[r].digest = "event" /\ row'[r].status = row[r].status
        /\ Canonical(r) # r => /\ row'[r].digest = "duplicate" /\ row'[r].status # "pending"
                               /\ row[r].status # "pending" => row'[r].status = row[r].status
  BY <1>1, CleanedDigest DEF Consistent
<1>4. \A r \in Rows : row[r].event = None => row'[r] = row[r]
  BY <1>1 DEF Cleaned
<1>5. AbsentAreBlank'
  <2> SUFFICES ASSUME NEW r \in Rows
               PROVE  /\ row'[r].status = "absent" <=> row'[r].event = None
                      /\ row'[r].status = "absent" <=> row'[r].digest = "none"
    BY DEF AbsentAreBlank
  <2>1. /\ row[r].status = "absent" <=> row[r].event = None
        /\ row[r].status = "absent" <=> row[r].digest = "none"
    BY DEF OneCopyStands, AbsentAreBlank
  <2>2. CASE row[r].event = None
    BY <1>4, <2>1, <2>2
  <2>3. CASE row[r].event # None
    <3>1. row'[r].digest \in {"event", "duplicate"}
      BY <1>3, <2>3
    <3>2. QED  BY <1>2, <2>1, <2>3, <3>1
  <2>4. QED  BY <2>2, <2>3
<1>6. \A q, r \in Rows : row[q].event = row[r].event => Canonical(q) = Canonical(r)
  BY DEF Canonical, Copies
<1>7. ASSUME NEW r \in Rows, row'[r].digest = "event"
      PROVE  row[r].event # None /\ Canonical(r) = r
  <2>1. row[r].event # None
    BY <1>4, <1>7 DEF OneCopyStands, AbsentAreBlank
  <2>2. QED  BY <1>3, <1>7, <2>1
<1>8. OneUnderDigest'
  <2> SUFFICES ASSUME NEW q \in Rows, NEW r \in Rows, row'[q].digest = "event",
                      row'[r].digest = "event", row'[q].event = row'[r].event
               PROVE  q = r
    BY DEF OneUnderDigest
  <2>1. row[q].event = row[r].event
    BY <1>2
  <2>2. Canonical(q) = q /\ Canonical(r) = r
    BY <1>7
  <2>3. QED  BY <1>6, <2>1, <2>2
<1>9. ASSUME NEW r \in Rows, row'[r].digest = "duplicate"
      PROVE  row'[r].status # "pending" /\ \E q \in Rows : StandsFor(q, r)'
  <2>1. row[r].event # None
    BY <1>4, <1>9 DEF OneCopyStands, AbsentAreBlank
  <2>2. Canonical(r) # r /\ row'[r].status # "pending"
    BY <1>3, <1>9, <2>1
  <2>3. PICK c : c = Canonical(r)
    OBVIOUS
  <2>4. /\ c \in Rows /\ row[c].event = row[r].event
        /\ row[r].status = "processed" => row[c].status = "processed" /\ c <= r
        /\ row[c].status # "processed" => c <= r
    BY <2>3, CanonicalStands DEF Copies
  <2>5. Canonical(c) = c
    BY <1>6, <2>3, <2>4
  <2>6. row'[c].digest = "event" /\ row'[c].status = row[c].status
    BY <1>3, <2>1, <2>4, <2>5
  <2>7. row'[r].status = "processed" => row[r].status = "processed"
    BY <1>2
  <2>8. c <= r => c < r
    BY <2>2, <2>3, <2>4, ConstantsAssumption
  <2>9. row'[c].event = row'[r].event
    BY <1>2, <2>4
  <2>10. StandsFor(c, r)'
    BY <2>4, <2>6, <2>7, <2>8, <2>9 DEF StandsFor
  <2>11. QED  BY <2>2, <2>4, <2>10
<1>10. QED  BY <1>5, <1>8, <1>9 DEF OneCopyStands, DuplicatesAreOut, Pending

LEMMA NextKeepsCopies == Consistent /\ OneCopyStands /\ [Next]_vars => OneCopyStands'
<1> SUFFICES ASSUME Consistent, OneCopyStands, [Next]_vars PROVE OneCopyStands'
  OBVIOUS
<1>1. \A r \in Rows : row[r] \in Row
  BY DEF Consistent, TypeOK
<1>2. row \in [Rows -> Row]
  BY DEF Consistent, TypeOK
<1>3. ASSUME UNCHANGED row PROVE OneCopyStands'
  BY <1>3, DigestsKept DEF KeepsDigest
<1>4. ASSUME NEW w \in Workers, Ignore(w) \/ Create(w) \/ Note(w) PROVE OneCopyStands'
  <2>1. worker[w].at \in Rows /\ row[worker[w].at].status = "pending"
    BY <1>4, ReadFacts DEF Ignore, Create, Note
  <2>2. CASE UNCHANGED row
    BY <1>3, <2>2
  <2>3. ASSUME NEW s \in {"processed", "ignored"}, row' = Marked(worker[w].at, s)
        PROVE  OneCopyStands'
    <3>1. \A r \in Rows : KeepsDigest(r)
      BY <1>1, <1>2, <2>1, <2>3 DEF Marked, KeepsDigest, Row
    <3>2. QED  BY <3>1, DigestsKept
  <2>4. QED  BY <1>4, <2>2, <2>3 DEF Ignore, Create, Note
<1>5. ASSUME NEW w \in Workers, Reschedule(w) PROVE OneCopyStands'
  <2>1. \A r \in Rows : KeepsDigest(r)
    BY <1>1, <1>2, <1>5 DEF Reschedule, PutOff, KeepsDigest, Row
  <2>2. QED  BY <2>1, DigestsKept
<1>6. CASE PassTime
  <2>1. \A r \in Rows : KeepsDigest(r)
    BY <1>1, <1>6 DEF PassTime, KeepsDigest, Row
  <2>2. QED  BY <2>1, DigestsKept
<1>7. ASSUME NEW w \in Workers, WorkerStep(w) \/ Fail(w) \/ Die(w) PROVE OneCopyStands'
  BY <1>3, <1>4, <1>5, <1>7 DEF WorkerStep, ReadDue, Begin, Lock, Claim, Fail, Die
<1>8. QED
  BY <1>3, <1>6, <1>7, ReceiveKeepsCopies, CleanKeepsCopies DEF Next, DeleteTicket, vars

LEMMA InitOneCopyStands == Init => OneCopyStands
<1> SUFFICES ASSUME Init PROVE OneCopyStands
  OBVIOUS
<1>1. \A r \in Rows : \/ row[r].digest = "attached" /\ row[r].status = "pending" /\ row[r].event \in Events
                      \/ row[r].digest = "none" /\ row[r].status = "absent" /\ row[r].event = None
  BY ConstantsAssumption DEF Init, Stored, NoRow
<1>2. QED
  BY <1>1, ConstantsAssumption
     DEF OneCopyStands, AbsentAreBlank, OneUnderDigest, DuplicatesAreOut

LEMMA StandingIsSettled == Consistent /\ OneCopyStands => CleanedIsSettled
<1> SUFFICES ASSUME Consistent, OneCopyStands, \A r \in Rows : row[r].digest # "attached",
                    NEW r \in Rows
             PROVE  /\ Cleaned(r) = row[r]
                    /\ Pending(r) => \A q \in Copies(r) : row[q].status # "processed"
  BY DEF CleanedIsSettled
<1>1. row[r] \in Row /\ \A q \in Rows : row[q] \in Row
  BY DEF Consistent, TypeOK
<1>2. \A q \in Rows : q \in Nat
  BY ConstantsAssumption
<1>3. CASE row[r].event = None
  BY <1>1, <1>3 DEF Cleaned, Copies, Pending, OneCopyStands, AbsentAreBlank
<1>4. ASSUME row[r].event # None, NEW q \in Rows, row[q].event = row[r].event,
             row[q].digest = "event"
      PROVE  /\ Canonical(r) = q
             /\ \A p \in Copies(r) : row[p].status = "processed" => row[q].status = "processed"
  <2>1. ASSUME NEW p \in Copies(r)
        PROVE  /\ row[p].status = "processed" => row[q].status = "processed" /\ q <= p
               /\ row[q].status # "processed" => q <= p
    <3>1. p \in Rows /\ row[p].event = row[r].event /\ p \in Nat /\ q \in Nat
      BY <1>2, <2>1 DEF Copies
    <3>2. row[p].digest \in {"event", "duplicate"}
      BY <1>1, <1>4, <3>1 DEF OneCopyStands, AbsentAreBlank, Row
    <3>3. CASE row[p].digest = "event"
      BY <1>4, <3>1, <3>3 DEF OneCopyStands, OneUnderDigest
    <3>4. CASE row[p].digest = "duplicate"
      <4>1. PICK k \in Rows : StandsFor(k, p)
        BY <3>1, <3>4 DEF OneCopyStands, DuplicatesAreOut, Attached
      <4>2. k = q
        BY <1>4, <3>1, <4>1 DEF StandsFor, OneCopyStands, OneUnderDigest
      <4>3. QED  BY <3>1, <4>1, <4>2 DEF StandsFor
    <3>5. QED  BY <3>2, <3>3, <3>4
  <2>2. q \in Copies(r)
    BY <1>4 DEF Copies
  <2>3. Canonical(r) = q
    BY <2>1, <2>2, OldestIsCanonical
  <2>4. QED  BY <2>1, <2>3
<1>5. CASE row[r].event # None /\ row[r].digest = "event"
  <2>1. Canonical(r) = r
        /\ \A p \in Copies(r) : row[p].status = "processed" => row[r].status = "processed"
    BY <1>4, <1>5
  <2>2. Cleaned(r) = [row[r] EXCEPT !.digest = "event"]
    BY <1>5, <2>1 DEF Cleaned
  <2>3. Cleaned(r) = row[r]
    BY <1>1, <1>5, <2>2 DEF Row
  <2>4. QED  BY <2>1, <2>3 DEF Pending
<1>6. CASE row[r].event # None /\ row[r].digest = "duplicate"
  <2>1. PICK q \in Rows : StandsFor(q, r)
    BY <1>6 DEF OneCopyStands, DuplicatesAreOut, Attached
  <2>2. Canonical(r) = q /\ q # r
    BY <1>4, <1>6, <2>1 DEF StandsFor
  <2>3. row[r].status # "pending"
    BY <1>6 DEF OneCopyStands, DuplicatesAreOut, Attached, Pending
  <2>4. Cleaned(r) = [[row[r] EXCEPT !.digest = "duplicate"] EXCEPT !.status = row[r].status]
    BY <1>6, <2>2, <2>3 DEF Cleaned, Pending
  <2>5. [row[r] EXCEPT !.digest = "duplicate"] = row[r]
    BY <1>1, <1>6 DEF Row
  <2>6. [row[r] EXCEPT !.status = row[r].status] = row[r]
    BY <1>1 DEF Row
  <2>7. Cleaned(r) = row[r]
    BY <2>4, <2>5, <2>6
  <2>8. QED  BY <2>3, <2>7 DEF Pending
<1>7. row[r].event # None => row[r].digest \in {"event", "duplicate"}
  BY <1>1 DEF OneCopyStands, AbsentAreBlank, Row
<1>8. QED  BY <1>3, <1>5, <1>6, <1>7

\* After the cleanup no copy of a content that has been processed is left to
\* process, and cleaning again would change nothing.
THEOREM CleanupIsOnce == Spec => []CleanedIsSettled
<1>1. Init => OneCopyStands
  BY InitOneCopyStands
<1>2. Consistent /\ OneCopyStands /\ [Next]_vars => OneCopyStands'
  BY NextKeepsCopies
<1>3. Consistent /\ OneCopyStands => CleanedIsSettled
  BY StandingIsSettled
<1>4. QED  BY <1>1, <1>2, <1>3, AlwaysConsistent, PTL DEF Spec
=============================================================================
