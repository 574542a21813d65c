---------------------------- MODULE CallbackProofs ----------------------------
(***************************************************************************)
(* Proofs about CallbackDelivery for any rows, ticks, operators, waits and *)
(* number of faults.                                                       *)
(***************************************************************************)
EXTENDS CallbackDelivery, TLAPS

\* What a tick is about to write: the row is one of those it has read, and a
\* success is one the platform confirmed.
Known(v) ==
  v.phase = "writing" =>
    /\ v.at \in v.todo
    /\ v.outcome = "delivered" => v.at \in accepted

WritesKnown == \A k \in Ticks : Known(tick[k])

-----------------------------------------------------------------------------
(* Types. *)

LEMMA WaitType ==
  ASSUME NEW attempts \in Nat, attempts # 0, NEW ago \in Age
  PROVE  Wait(attempts, ago) \in 0..DeadAfter
<1> DEFINE i == ((attempts - 1) % Len(Backoff)) + 1
           pause == Backoff[i]
<1>1. Len(Backoff) \in Nat \ {0} /\ attempts - 1 \in Nat
  BY ConstantsAssumption
<1>2. (attempts - 1) % Len(Backoff) \in 0..(Len(Backoff) - 1)
  BY <1>1
<1>3. i \in 1..Len(Backoff)
  BY <1>1, <1>2
<1>4. pause \in 0..DeadAfter
  BY <1>3, ConstantsAssumption
<1>5. Wait(attempts, ago) = IF pause > ago THEN pause - ago ELSE 0
  BY DEF Wait
<1>6. QED
  <2> HIDE DEF pause
  <2> QED  BY <1>4, <1>5, ConstantsAssumption DEF Age

LEMMA ResultType ==
  ASSUME NEW v \in Tick, v.at \in Deliveries, NEW r \in Row
  PROVE  Result(v, r) \in Row
<1> DEFINE read == v.read[v.at]
           attempts == read.attempts + 1
           first == IF read.first = None THEN v.ago ELSE read.first
<1>1. read.attempts \in Nat /\ attempts \in Nat /\ attempts # 0
  BY DEF Tick, Read
<1>2. read.first \in Age \union {None} /\ first \in Age \union {None} /\ v.ago \in Age
  BY DEF Tick, Read
<1>3. Wait(attempts, v.ago) \in 0..DeadAfter
  BY <1>1, <1>2, WaitType
<1>4. 0 \in 0..DeadAfter
  BY ConstantsAssumption
<1>5. r.status \in {"absent", "pending", "delivered", "dead"}
  BY DEF Row
<1>6. Result(v, r) =
       CASE v.outcome = "delivered" ->
              [status |-> "delivered", attempts |-> attempts, first |-> first, wait |-> 0]
         [] v.outcome = "dead" ->
              [status |-> "dead", attempts |-> attempts, first |-> first, wait |-> 0]
         [] v.outcome = "expired" ->
              [status |-> "dead", attempts |-> read.attempts, first |-> read.first, wait |-> 0]
         [] OTHER ->
              [status |-> r.status, attempts |-> attempts, first |-> first,
               wait |-> Wait(attempts, v.ago)]
  BY DEF Result
<1> HIDE DEF read, attempts, first
<1>7. QED
  BY <1>1, <1>2, <1>3, <1>4, <1>5, <1>6 DEF Row

LEMMA OlderType ==
  ASSUME NEW age \in Age \union {None}
  PROVE  /\ Older(age) \in Age \union {None}
         /\ age \in Age => Older(age) \in Age
         /\ Older(age) = None <=> age = None
  BY ConstantsAssumption DEF Older, Age

LEMMA AgedRowType ==
  ASSUME NEW r \in Row
  PROVE  AgedRow(r) \in Row /\ AgedRow(r).status = r.status
<1>1. Older(r.first) \in Age \union {None}
  BY OlderType DEF Row
<1>2. (IF r.wait > 0 THEN r.wait - 1 ELSE 0) \in 0..DeadAfter
  BY ConstantsAssumption DEF Row
<1>3. QED  BY <1>1, <1>2 DEF AgedRow, Row

LEMMA AgedTickType ==
  ASSUME NEW v \in Tick
  PROVE  /\ AgedTick(v) \in Tick
         /\ AgedTick(v).phase = v.phase /\ AgedTick(v).at = v.at
         /\ AgedTick(v).todo = v.todo /\ AgedTick(v).outcome = v.outcome
         /\ AgedTick(v).read = [d \in Deliveries |->
                [attempts |-> v.read[d].attempts, first |-> Older(v.read[d].first)]]
<1> DEFINE read == [d \in Deliveries |->
                     [attempts |-> v.read[d].attempts, first |-> Older(v.read[d].first)]]
           ago == IF v.phase = "writing" THEN Older(v.ago) ELSE 0
<1>1. read \in [Deliveries -> Read]
  BY OlderType DEF Tick, Read
<1>2. ago \in Age
  BY OlderType, ConstantsAssumption DEF Tick, Age
<1>3. AgedTick(v) = [v EXCEPT !.read = read, !.ago = ago]
  BY DEF AgedTick
<1> HIDE DEF read, ago
<1>4. /\ AgedTick(v) \in Tick
      /\ AgedTick(v).phase = v.phase /\ AgedTick(v).at = v.at
      /\ AgedTick(v).todo = v.todo /\ AgedTick(v).outcome = v.outcome
      /\ AgedTick(v).read = read
  BY <1>1, <1>2, <1>3 DEF Tick
<1>5. QED  BY <1>4 DEF read

LEMMA TakeUpType ==
  ASSUME NEW v \in Tick, NEW d \in v.todo, NEW outcome \in Outcome
  PROVE  /\ TakeUp(v, d, outcome) \in Tick
         /\ TakeUp(v, d, outcome).phase = "writing"
         /\ TakeUp(v, d, outcome).at = d
         /\ TakeUp(v, d, outcome).outcome = outcome
         /\ TakeUp(v, d, outcome).todo = v.todo
         /\ TakeUp(v, d, outcome).read = v.read
<1>1. d \in Deliveries /\ 0 \in Age
  BY ConstantsAssumption DEF Tick, Age
<1>2. QED  BY <1>1 DEF Tick, TakeUp

LEMMA IdleType == Idle \in Tick /\ Nothing \in [Deliveries -> Read] /\ Pending \in Row /\ NoRow \in Row
  BY ConstantsAssumption DEF Idle, Tick, Nothing, Read, Outcome, Age, Pending, NoRow, Row

LEMMA ReplyMeaning ==
  ASSUME NEW reply \in Reply, NEW d \in Deliveries, accepted \subseteq Deliveries,
         Platform(d, reply)
  PROVE  /\ Interpret(reply) \in Outcome \ {"none", "expired"}
         /\ Interpret(reply) = "delivered" => d \in accepted'
         /\ accepted' \in {accepted, accepted \union {d}}
  BY DEF Reply, Interpret, Outcome, Platform

LEMMA InitTypeOK == Init => TypeOK /\ WritesKnown
  BY IdleType, ConstantsAssumption
  DEF Init, TypeOK, WritesKnown, Known, Idle, Empty

\* A step that changes the state of one tick only.
LEMMA TickTypeOK ==
  ASSUME TypeOK, WritesKnown, NEW k \in Ticks, NEW v \in Tick,
         tick' = [tick EXCEPT ![k] = v], accepted \subseteq accepted',
         v.phase = "writing" => v.at \in v.todo,
         v.phase = "writing" /\ v.outcome = "delivered" => v.at \in accepted'
  PROVE  tick' \in [Ticks -> Tick] /\ WritesKnown'
<1>1. tick' \in [Ticks -> Tick]
  BY DEF TypeOK
<1>2. ASSUME NEW l \in Ticks
      PROVE  tick'[l] = IF l = k THEN v ELSE tick[l]
  BY DEF TypeOK
<1>3. QED  BY <1>1, <1>2 DEF WritesKnown, Known

LEMMA TypeStep ==
  ASSUME TypeOK, WritesKnown, [Next]_vars
  PROVE  TypeOK' /\ WritesKnown'
<1> USE DEF TypeOK
<1>1. ASSUME NEW d \in Deliveries, Commit(d)
      PROVE  TypeOK' /\ WritesKnown'
  BY <1>1, IdleType DEF Commit, WritesKnown, Known
<1>2. ASSUME NEW u \in Operators, NEW d \in Deliveries, BeginRedeliver(u, d)
      PROVE  TypeOK' /\ WritesKnown'
  BY <1>2 DEF BeginRedeliver, WritesKnown, Known
<1>3. ASSUME NEW u \in Operators, WriteRedeliver(u)
      PROVE  TypeOK' /\ WritesKnown'
  BY <1>3, IdleType DEF WriteRedeliver, Reset, WritesKnown, Known
<1>4. ASSUME NEW k \in Ticks, StartTick(k)
      PROVE  TypeOK' /\ WritesKnown'
  <2>1. [Idle EXCEPT !.phase = "reading"] \in Tick
    BY IdleType DEF Tick
  <2>2. tick' \in [Ticks -> Tick] /\ WritesKnown'
    BY <1>4, <2>1, TickTypeOK, IdleType DEF StartTick, Idle
  <2>3. QED  BY <1>4, <2>2, ConstantsAssumption DEF StartTick
<1>5. ASSUME NEW k \in Ticks, ReadDue(k)
      PROVE  TypeOK' /\ WritesKnown'
  <2> DEFINE due == {d \in Deliveries : Due(d)}
             read == [d \in Deliveries |-> IF d \in due
                        THEN [attempts |-> row[d].attempts, first |-> row[d].first]
                        ELSE Nothing[d]]
             v == [tick[k] EXCEPT !.phase = "next", !.todo = due, !.read = read]
  <2>1. due \subseteq Deliveries /\ read \in [Deliveries -> Read]
    BY IdleType DEF Row, Read
  <2>2. tick' = [tick EXCEPT ![k] = v]
    BY <1>5 DEF ReadDue
  <2>3. v \in Tick /\ v.phase = "next"
    <3> HIDE DEF due, read
    <3> QED  BY <2>1 DEF Tick
  <2> HIDE DEF v
  <2>4. tick' \in [Ticks -> Tick] /\ WritesKnown'
    BY <1>5, <2>2, <2>3, TickTypeOK DEF ReadDue
  <2>5. QED  BY <1>5, <2>4 DEF ReadDue
<1>6. ASSUME NEW k \in Ticks, NEW d \in Deliveries, Expire(k, d)
      PROVE  TypeOK' /\ WritesKnown'
  <2> DEFINE v == TakeUp(tick[k], d, "expired")
  <2>1. tick' = [tick EXCEPT ![k] = v]
    BY <1>6 DEF Expire
  <2>2. v \in Tick /\ v.at \in v.todo /\ v.outcome = "expired"
    <3>1. d \in tick[k].todo /\ "expired" \in Outcome
      BY <1>6 DEF Expire, IsNext, Outcome
    <3>2. QED  BY <3>1, TakeUpType
  <2> HIDE DEF v
  <2>3. tick' \in [Ticks -> Tick] /\ WritesKnown'
    BY <1>6, <2>1, <2>2, TickTypeOK DEF Expire
  <2>4. QED  BY <1>6, <2>3 DEF Expire
<1>7. ASSUME NEW k \in Ticks, NEW d \in Deliveries, NEW reply \in Reply, Send(k, d, reply)
      PROVE  TypeOK' /\ WritesKnown'
  <2> DEFINE v == TakeUp(tick[k], d, Interpret(reply))
  <2>1. tick' = [tick EXCEPT ![k] = v]
    BY <1>7 DEF Send
  <2>2. /\ Interpret(reply) \in Outcome
        /\ Interpret(reply) = "delivered" => d \in accepted'
        /\ accepted \subseteq accepted' /\ accepted' \subseteq Deliveries
    BY <1>7, ReplyMeaning DEF Send
  <2>3. /\ v \in Tick /\ v.at \in v.todo
        /\ v.outcome = "delivered" => v.at \in accepted'
    <3>1. d \in tick[k].todo
      BY <1>7 DEF Send, IsNext
    <3>2. QED  BY <2>2, <3>1, TakeUpType
  <2> HIDE DEF v
  <2>4. tick' \in [Ticks -> Tick] /\ WritesKnown'
    BY <2>1, <2>2, <2>3, TickTypeOK
  <2>5. QED  BY <1>7, <2>2, <2>4 DEF Send
<1>8. ASSUME NEW k \in Ticks, Write(k)
      PROVE  TypeOK' /\ WritesKnown'
  <2> DEFINE v == tick[k]
             read == [v.read EXCEPT ![v.at] = Nothing[v.at]]
             w == [Idle EXCEPT !.phase = "next", !.todo = v.todo \ {v.at}, !.read = read]
  <2>1. v \in Tick /\ v.at \in v.todo /\ v.at \in Deliveries
    BY <1>8 DEF Write, Runs, WritesKnown, Known, Tick
  <2>2. tick' = [tick EXCEPT ![k] = w]
    BY <1>8 DEF Write
  <2>3. row' \in [Deliveries -> Row]
    BY <1>8, <2>1, ResultType DEF Write
  <2>4. w \in Tick /\ w.phase = "next"
    <3>1. read \in [Deliveries -> Read] /\ v.todo \ {v.at} \in SUBSET Deliveries
      BY <2>1, IdleType DEF Tick
    <3> HIDE DEF read, v
    <3>2. QED  BY <3>1, IdleType DEF Tick, Idle
  <2>5. accepted' = accepted
    BY <1>8 DEF Write
  <2>6. tick' \in [Ticks -> Tick] /\ WritesKnown'
    <3> HIDE DEF w
    <3> QED  BY <2>2, <2>4, <2>5, TickTypeOK
  <2>7. QED  BY <1>8, <2>1, <2>3, <2>6 DEF Write
<1>9. ASSUME NEW k \in Ticks, Finish(k),
             UNCHANGED <<row, request, accepted, tried, alerted>>, faults' \in 0..MaxFaults
      PROVE  TypeOK' /\ WritesKnown'
  <2>1. tick' \in [Ticks -> Tick] /\ WritesKnown'
    BY <1>9, IdleType, TickTypeOK DEF Finish, Idle
  <2>2. QED  BY <1>9, <2>1, ConstantsAssumption DEF Finish, Released, Empty
<1>10. ASSUME NEW k \in Ticks, Hang(k) \/ Return(k)
       PROVE  TypeOK' /\ WritesKnown'
  <2> DEFINE v(hung) == [tick[k] EXCEPT !.hung = hung]
  <2>1. PICK hung \in BOOLEAN : tick' = [tick EXCEPT ![k] = v(hung)]
    BY <1>10 DEF Hang, Return
  <2>2. /\ v(hung) \in Tick
        /\ v(hung).phase = tick[k].phase /\ v(hung).at = tick[k].at
        /\ v(hung).todo = tick[k].todo /\ v(hung).outcome = tick[k].outcome
    BY DEF Tick
  <2>3. Known(tick[k]) /\ accepted' = accepted
    BY <1>10 DEF WritesKnown, Hang, Return
  <2> HIDE DEF v
  <2>4. tick' \in [Ticks -> Tick] /\ WritesKnown'
    BY <2>1, <2>2, <2>3, TickTypeOK DEF Known
  <2>5. QED  BY <1>10, <2>4, ConstantsAssumption DEF Hang, Return, Fault
<1>11. ASSUME Crash
       PROVE  TypeOK' /\ WritesKnown'
  BY <1>11, IdleType, ConstantsAssumption DEF Crash, Fault, Empty, WritesKnown, Known, Idle
<1>12. ASSUME PassTime
       PROVE  TypeOK' /\ WritesKnown'
  <2>1. row' \in [Deliveries -> Row]
    BY <1>12, AgedRowType DEF PassTime
  <2>2. tick' \in [Ticks -> Tick]
    BY <1>12, AgedTickType DEF PassTime
  <2>3. WritesKnown'
    <3>1. ASSUME NEW k \in Ticks
          PROVE  Known(tick[k])'
      <4>1. tick'[k] = AgedTick(tick[k]) /\ tick[k] \in Tick /\ accepted' = accepted
        BY <1>12 DEF PassTime
      <4>2. /\ tick'[k].phase = tick[k].phase /\ tick'[k].at = tick[k].at
            /\ tick'[k].todo = tick[k].todo /\ tick'[k].outcome = tick[k].outcome
        BY <4>1, AgedTickType
      <4>3. Known(tick[k])
        BY DEF WritesKnown
      <4>4. QED  BY <4>1, <4>2, <4>3 DEF Known
    <3>2. QED  BY <3>1 DEF WritesKnown
  <2>4. box' \in [holder : Ticks \union {None}, age : 0..(StuckAfter + 1)]
    <3>1. (IF box.holder # None /\ box.age <= StuckAfter THEN box.age + 1 ELSE box.age)
            \in 0..(StuckAfter + 1)
      BY ConstantsAssumption
    <3>2. QED  BY <1>12, <3>1 DEF PassTime, AgedBox
  <2>5. QED  BY <1>12, <2>1, <2>2, <2>3, <2>4 DEF PassTime
<1>13. CASE UNCHANGED vars
  BY <1>13 DEF vars, WritesKnown, Known
<1>14. QED
  <2>1. ASSUME NEW k \in Ticks, Done(k) \/ Fail(k)
        PROVE  TypeOK' /\ WritesKnown'
    BY <1>9, <2>1, ConstantsAssumption DEF Done, Fail, Fault
  <2>2. QED
    BY <1>1, <1>2, <1>3, <1>4, <1>5, <1>6, <1>7, <1>8, <2>1, <1>10, <1>11, <1>12, <1>13
    DEF Next, TickStep

\* THE TYPE INVARIANT: every variable keeps its type, and a tick only writes
\* rows it has read.
THEOREM TypeCorrect == Spec => [](TypeOK /\ WritesKnown)
  BY InitTypeOK, TypeStep, PTL DEF Spec

-----------------------------------------------------------------------------
(* Delivered means accepted, and the box. *)

\* What a step may do to the statuses and to what the platform and the
\* administrators know.
Quiet ==
  /\ \A d \in Deliveries : row'[d].status = row[d].status
  /\ UNCHANGED <<accepted, tried, alerted>>

LEMMA Effects ==
  ASSUME TypeOK, [Next]_vars
  PROVE  \/ \E d \in Deliveries : Commit(d)
         \/ \E u \in Operators : WriteRedeliver(u)
         \/ \E k \in Ticks, d \in Deliveries, reply \in Reply : Send(k, d, reply)
         \/ \E k \in Ticks : Write(k)
         \/ Quiet
<1>1. ASSUME PassTime
      PROVE  Quiet
  BY <1>1, AgedRowType DEF PassTime, Quiet, TypeOK
<1>2. CASE UNCHANGED vars
  BY <1>2 DEF vars, Quiet
<1>3. ASSUME NEW k \in Ticks, StartTick(k) \/ ReadDue(k) \/ (\E d \in Deliveries : Expire(k, d))
                \/ Done(k) \/ Fail(k) \/ Hang(k) \/ Return(k)
      PROVE  Quiet
  BY <1>3 DEF StartTick, ReadDue, Expire, Done, Fail, Hang, Return, Quiet
<1>4. ASSUME Crash \/ \E u \in Operators, d \in Deliveries : BeginRedeliver(u, d)
      PROVE  Quiet
  BY <1>4 DEF Crash, BeginRedeliver, Quiet
<1>5. QED  BY <1>1, <1>2, <1>3, <1>4 DEF Next, TickStep

\* What Write makes of a row.
LEMMA ResultMeaning ==
  ASSUME NEW v \in Tick, v.at \in Deliveries, NEW r \in Row
  PROVE  /\ v.outcome = "delivered" => Result(v, r).status = "delivered"
         /\ v.outcome \in {"dead", "expired"} => Result(v, r).status = "dead"
         /\ v.outcome \in {"none", "retry"} => Result(v, r).status = r.status
  BY DEF Result

LEMMA DeliveredStep ==
  ASSUME TypeOK, WritesKnown, DeliveredMeansAccepted, [Next]_vars
  PROVE  DeliveredMeansAccepted'
<1> USE DEF DeliveredMeansAccepted
<1>1. ASSUME NEW d \in Deliveries, Commit(d)
      PROVE  DeliveredMeansAccepted'
  BY <1>1 DEF Commit, Pending, TypeOK
<1>2. ASSUME NEW u \in Operators, WriteRedeliver(u)
      PROVE  DeliveredMeansAccepted'
  BY <1>2 DEF WriteRedeliver, Reset, Pending, TypeOK
<1>3. ASSUME NEW k \in Ticks, NEW d \in Deliveries, NEW reply \in Reply, Send(k, d, reply)
      PROVE  DeliveredMeansAccepted'
  <2>1. accepted \subseteq accepted'
    BY <1>3, ReplyMeaning DEF Send, TypeOK
  <2>2. QED  BY <1>3, <2>1 DEF Send
<1>4. ASSUME NEW k \in Ticks, Write(k)
      PROVE  DeliveredMeansAccepted'
  <2> DEFINE v == tick[k]
  <2>1. /\ v \in Tick /\ v.at \in Deliveries /\ row[v.at] \in Row
        /\ v.outcome = "delivered" => v.at \in accepted
    BY <1>4 DEF Write, Runs, WritesKnown, Known, Tick, TypeOK
  <2>2. /\ row' = [row EXCEPT ![v.at] = Result(v, row[v.at])]
        /\ accepted' = accepted
    BY <1>4 DEF Write
  <2>3. Result(v, row[v.at]).status = "delivered" =>
          v.outcome = "delivered" \/ row[v.at].status = "delivered"
    <3>1. v.outcome \in Outcome
      BY <2>1 DEF Tick
    <3>2. QED  BY <2>1, <3>1, ResultMeaning DEF Outcome
  <2> HIDE DEF v
  <2>4. QED  BY <2>1, <2>2, <2>3 DEF TypeOK
<1>5. ASSUME Quiet
      PROVE  DeliveredMeansAccepted'
  BY <1>5 DEF Quiet
<1>6. QED  BY <1>1, <1>2, <1>3, <1>4, <1>5, Effects

\* No row is marked delivered that the platform has not taken, however many
\* ticks overlap and operators redeliver, whatever fails.
THEOREM DeliveredIsAccepted == Spec => []DeliveredMeansAccepted
<1>1. Init => DeliveredMeansAccepted
  BY DEF Init, NoRow, DeliveredMeansAccepted
<1>2. QED  BY <1>1, DeliveredStep, TypeCorrect, PTL DEF Spec

LEMMA BoxStep ==
  ASSUME TypeOK, [Next]_vars, NEW k \in Ticks, box.holder = k, box'.holder # k
  PROVE  tick'[k].phase = "idle" \/ box.age > StuckAfter
<1>1. ASSUME NEW l \in Ticks, StartTick(l)
      PROVE  box.age > StuckAfter
  BY <1>1, ConstantsAssumption DEF StartTick, Free
<1>2. ASSUME NEW l \in Ticks, Finish(l)
      PROVE  tick'[k].phase = "idle"
  BY <1>2 DEF Finish, Released, Idle, TypeOK
<1>3. ASSUME Crash
      PROVE  tick'[k].phase = "idle"
  BY <1>3 DEF Crash, Idle
<1>4. ~PassTime
  BY DEF PassTime, AgedBox, TypeOK
<1>5. ASSUME box' = box
      PROVE  FALSE
  BY <1>5
<1>6. ASSUME NEW l \in Ticks, TickStep(l) \/ Fail(l) \/ Hang(l) \/ Return(l)
      PROVE  Finish(l) \/ box' = box
  BY <1>6 DEF TickStep, ReadDue, Expire, Send, Write, Done, Fail, Hang, Return
<1>7. ASSUME \/ \E d \in Deliveries : Commit(d)
             \/ \E u \in Operators, d \in Deliveries : BeginRedeliver(u, d)
             \/ \E u \in Operators : WriteRedeliver(u)
             \/ UNCHANGED vars
      PROVE  box' = box
  BY <1>7 DEF Commit, BeginRedeliver, WriteRedeliver, vars
<1>8. QED  BY <1>1, <1>2, <1>3, <1>4, <1>5, <1>6, <1>7 DEF Next

\* Only the watchdog or the end of the tick itself takes the box from a tick.
THEOREM BoxIsHeld == Spec => BoxIsKept
<1>1. TypeOK /\ [Next]_vars => [\A k \in Ticks : box.holder = k /\ box'.holder # k =>
                                tick'[k].phase = "idle" \/ box.age > StuckAfter]_vars
  BY BoxStep
<1>2. QED  BY <1>1, TypeCorrect, PTL DEF Spec, BoxIsKept

-----------------------------------------------------------------------------
(* One tick and one operator at a time. *)

Alone ==
  /\ \A k, l \in Ticks : k = l
  /\ \A u, w \in Operators : u = w

\* A step that leaves the rows and the operators alone keeps InStep if the
\* tick it changes does.
LEMMA InStepOfTick ==
  ASSUME TypeOK, InStep, Alone, NEW k \in Ticks, NEW v,
         tick' = [tick EXCEPT ![k] = v],
         UNCHANGED <<row, request>>, tried \subseteq tried',
         \A d \in v.todo : /\ row[d].status = "pending"
                           /\ v.read[d].first # None => d \in tried',
         v.phase = "writing" => v.at \in v.todo /\ v.at \in tried'
  PROVE  InStep'
<1>1. \A l \in Ticks : tick'[l] = v
  BY DEF Alone, TypeOK
<1>2. QED  BY <1>1 DEF InStep

LEMMA InStepStep ==
  ASSUME TypeOK, WritesKnown, InStep, Alone, [Next]_vars
  PROVE  InStep'
<1>1. ASSUME NEW d \in Deliveries, Commit(d)
      PROVE  InStep'
  <2>1. /\ row[d].status = "absent" /\ row' = [row EXCEPT ![d] = Pending]
        /\ UNCHANGED <<tick, request, tried>>
    BY <1>1 DEF Commit
  <2>2. Pending.status = "pending" /\ Pending.first = None
    BY DEF Pending
  <2>3. QED  BY <2>1, <2>2 DEF InStep, TypeOK, Tick
<1>2. ASSUME NEW u \in Operators, NEW d \in Deliveries, BeginRedeliver(u, d)
      PROVE  InStep'
  BY <1>2 DEF BeginRedeliver, InStep, TypeOK
<1>3. ASSUME NEW u \in Operators, WriteRedeliver(u)
      PROVE  InStep'
  <2> DEFINE d == request[u]
  <2>1. /\ d \in Deliveries /\ row[d].status = "dead"
        /\ row' = [row EXCEPT ![d] = Pending] /\ tried' = tried \ {d}
        /\ tick' = tick
    BY <1>3 DEF WriteRedeliver, Reset, TypeOK, InStep
  <2>2. \A w \in Operators : request'[w] = None
    BY <1>3 DEF WriteRedeliver, Alone, TypeOK
  <2>3. Pending.status = "pending" /\ Pending.first = None
    BY DEF Pending
  <2>4. \A k \in Ticks : d \notin tick[k].todo
    BY <2>1 DEF InStep
  <2> HIDE DEF d
  <2>5. QED  BY <2>1, <2>2, <2>3, <2>4 DEF InStep, TypeOK, Tick
<1>4. ASSUME NEW k \in Ticks, StartTick(k)
      PROVE  InStep'
  <2> DEFINE v == [Idle EXCEPT !.phase = "reading"]
  <2>1. tick' = [tick EXCEPT ![k] = v] /\ UNCHANGED <<row, request, tried>>
    BY <1>4 DEF StartTick
  <2>2. v.todo = {} /\ v.phase = "reading"
    BY DEF Idle
  <2> HIDE DEF v
  <2>3. QED  BY <2>1, <2>2, InStepOfTick
<1>5. ASSUME NEW k \in Ticks, ReadDue(k)
      PROVE  InStep'
  <2> DEFINE due == {d \in Deliveries : Due(d)}
             read == [d \in Deliveries |-> IF d \in due
                        THEN [attempts |-> row[d].attempts, first |-> row[d].first]
                        ELSE Nothing[d]]
             v == [tick[k] EXCEPT !.phase = "next", !.todo = due, !.read = read]
  <2>1. tick' = [tick EXCEPT ![k] = v] /\ UNCHANGED <<row, request, tried>>
    BY <1>5 DEF ReadDue
  <2>2. v.phase = "next" /\ v.todo = due /\ v.read = read
    <3> HIDE DEF due, read
    <3> QED  BY DEF TypeOK, Tick
  <2>3. \A d \in due : row[d].status = "pending" /\ read[d].first = row[d].first
    BY DEF Due
  <2>4. \A d \in due : read[d].first # None => d \in tried
    BY <2>3 DEF InStep
  <2> HIDE DEF v, due, read
  <2>5. QED  BY <2>1, <2>2, <2>3, <2>4, InStepOfTick
<1>6. ASSUME NEW k \in Ticks, NEW d \in Deliveries, Expire(k, d)
      PROVE  InStep'
  <2> DEFINE v == TakeUp(tick[k], d, "expired")
  <2>1. /\ tick' = [tick EXCEPT ![k] = v] /\ UNCHANGED <<row, request, tried>>
        /\ d \in tick[k].todo /\ tick[k].read[d].first # None
    BY <1>6 DEF Expire, IsNext, Expired
  <2>2. v.at = d /\ v.todo = tick[k].todo /\ v.read = tick[k].read
    BY <2>1, TakeUpType DEF TypeOK, Outcome
  <2> HIDE DEF v
  <2>3. QED  BY <2>1, <2>2, InStepOfTick DEF InStep
<1>7. ASSUME NEW k \in Ticks, NEW d \in Deliveries, NEW reply \in Reply, Send(k, d, reply)
      PROVE  InStep'
  <2> DEFINE v == TakeUp(tick[k], d, Interpret(reply))
  <2>1. /\ tick' = [tick EXCEPT ![k] = v] /\ UNCHANGED <<row, request>>
        /\ d \in tick[k].todo /\ tried' = tried \union {d}
    BY <1>7 DEF Send, IsNext
  <2>2. Interpret(reply) \in Outcome
    BY <1>7, ReplyMeaning DEF Send, TypeOK
  <2>3. v.at = d /\ v.todo = tick[k].todo /\ v.read = tick[k].read
    BY <2>1, <2>2, TakeUpType DEF TypeOK
  <2> HIDE DEF v
  <2>4. QED  BY <2>1, <2>3, InStepOfTick DEF InStep
<1>8. ASSUME NEW k \in Ticks, Write(k)
      PROVE  InStep'
  <2> DEFINE v == tick[k]
             d == v.at
             read == [v.read EXCEPT ![d] = Nothing[d]]
             w == [Idle EXCEPT !.phase = "next", !.todo = v.todo \ {d}, !.read = read]
  <2>1. v \in Tick /\ d \in v.todo /\ d \in Deliveries /\ d \in tried
    BY <1>8 DEF Write, Runs, WritesKnown, Known, TypeOK, Tick, InStep
  <2>2. /\ row' = [row EXCEPT ![d] = Result(v, row[d])]
        /\ tick' = [tick EXCEPT ![k] = w]
        /\ UNCHANGED <<request, tried>>
    BY <1>8 DEF Write
  <2>3. w.phase = "next" /\ w.todo = v.todo \ {d} /\ w.read = read
    <3> HIDE DEF v, d, read
    <3> QED  BY DEF Idle
  <2>4. \A l \in Ticks : tick'[l] = w
    <3> HIDE DEF w
    <3> QED  BY <2>2 DEF Alone, TypeOK
  <2>5. \A e \in v.todo \ {d} : read[e] = v.read[e] /\ row'[e] = row[e]
    BY <2>1, <2>2 DEF Tick, TypeOK
  <2>6. \A u \in Operators : request[u] # d
    BY <2>1, ConstantsAssumption DEF InStep
  <2>7. \A e \in Deliveries : row'[e].status = "dead" \/ row'[e].first # None => e \in tried
    BY <2>1, <2>2 DEF InStep, TypeOK
  <2>8. \A u \in Operators : request[u] # None => row'[request[u]].status = "dead"
    BY <2>2, <2>6 DEF InStep, TypeOK
  <2> HIDE DEF w, read
  <2>9. QED  BY <2>1, <2>2, <2>3, <2>4, <2>5, <2>7, <2>8 DEF InStep
<1>9. ASSUME NEW k \in Ticks, Done(k) \/ Fail(k)
      PROVE  InStep'
  <2>1. tick' = [tick EXCEPT ![k] = Idle] /\ UNCHANGED <<row, request, tried>>
    BY <1>9 DEF Done, Fail, Finish
  <2>2. Idle.todo = {} /\ Idle.phase = "idle"
    BY DEF Idle
  <2>3. QED  BY <2>1, <2>2, InStepOfTick
<1>10. ASSUME NEW k \in Ticks, Hang(k) \/ Return(k)
       PROVE  InStep'
  <2>1. PICK hung \in BOOLEAN : tick' = [tick EXCEPT ![k] = [tick[k] EXCEPT !.hung = hung]]
    BY <1>10 DEF Hang, Return
  <2> DEFINE v == [tick[k] EXCEPT !.hung = hung]
  <2>2. /\ v.phase = tick[k].phase /\ v.at = tick[k].at
        /\ v.todo = tick[k].todo /\ v.read = tick[k].read
    BY DEF TypeOK, Tick
  <2>3. UNCHANGED <<row, request, tried>>
    BY <1>10 DEF Hang, Return
  <2> HIDE DEF v
  <2>4. QED  BY <2>1, <2>2, <2>3, InStepOfTick DEF v, InStep
<1>11. ASSUME Crash
       PROVE  InStep'
  BY <1>11 DEF Crash, Idle, InStep
<1>12. ASSUME PassTime
       PROVE  InStep'
  <2>1. \A d \in Deliveries :
          /\ row'[d].status = row[d].status
          /\ row'[d].first = None <=> row[d].first = None
    <3>1. ASSUME NEW d \in Deliveries
          PROVE  row'[d].first = Older(row[d].first) /\ row'[d].status = row[d].status
      BY <1>12, AgedRowType DEF PassTime, AgedRow, TypeOK, Row
    <3>2. QED  BY <3>1, OlderType DEF TypeOK, Row
  <2>2. ASSUME NEW k \in Ticks
        PROVE  /\ tick'[k].phase = tick[k].phase /\ tick'[k].at = tick[k].at
               /\ tick'[k].todo = tick[k].todo
               /\ \A d \in Deliveries :
                    tick'[k].read[d].first = None <=> tick[k].read[d].first = None
    <3>1. tick'[k] = AgedTick(tick[k]) /\ tick[k] \in Tick
      BY <1>12 DEF PassTime, TypeOK
    <3>2. /\ tick'[k].phase = tick[k].phase /\ tick'[k].at = tick[k].at
          /\ tick'[k].todo = tick[k].todo
          /\ tick'[k].read = [d \in Deliveries |->
               [attempts |-> tick[k].read[d].attempts, first |-> Older(tick[k].read[d].first)]]
      BY <3>1, AgedTickType
    <3> \A d \in Deliveries : tick'[k].read[d].first = Older(tick[k].read[d].first)
      BY <3>2
    <3>3. \A d \in Deliveries : tick[k].read[d].first \in Age \union {None}
      BY <3>1 DEF Tick, Read
    <3>4. QED  BY <3>2, <3>3, OlderType
  <2>3. UNCHANGED <<request, tried>>
    BY <1>12 DEF PassTime
  <2>4. \A k \in Ticks : tick[k].todo \subseteq Deliveries
    BY DEF TypeOK, Tick
  <2>5. \A u \in Operators : request[u] # None => request[u] \in Deliveries
    BY DEF TypeOK
  <2>6. ASSUME NEW k \in Ticks, NEW d \in tick'[k].todo
        PROVE  row'[d].status = "pending" /\ (tick'[k].read[d].first # None => d \in tried')
    <3>1. d \in tick[k].todo /\ d \in Deliveries
      BY <2>2, <2>4, <2>6
    <3>2. row[d].status = "pending" /\ (tick[k].read[d].first # None => d \in tried)
      BY <3>1 DEF InStep
    <3>3. row'[d].status = row[d].status
      BY <2>1, <3>1
    <3>4. tick'[k].read[d].first = None <=> tick[k].read[d].first = None
      BY <2>2, <3>1
    <3>5. tried' = tried
      BY <2>3
    <3>6. QED  BY <3>2, <3>3, <3>4, <3>5
  <2>7. ASSUME NEW k \in Ticks, tick'[k].phase = "writing"
        PROVE  tick'[k].at \in tick'[k].todo /\ tick'[k].at \in tried'
    BY <2>2, <2>3, <2>7 DEF InStep
  <2>8. \A d \in Deliveries : row'[d].status = "dead" \/ row'[d].first # None => d \in tried'
    BY <2>1, <2>3 DEF InStep
  <2>9. \A u \in Operators : request'[u] # None => row'[request'[u]].status = "dead"
    BY <2>1, <2>3, <2>5 DEF InStep
  <2>10. QED  BY <2>6, <2>7, <2>8, <2>9 DEF InStep
<1>13. CASE UNCHANGED vars
  BY <1>13 DEF vars, InStep
<1>14. QED
  BY <1>1, <1>2, <1>3, <1>4, <1>5, <1>6, <1>7, <1>8, <1>9, <1>10, <1>11, <1>12, <1>13
  DEF Next, TickStep

LEMMA InitInStep == Init => InStep
  BY DEF Init, InStep, Idle, NoRow

\* What the ticks and the operators have in hand is still so when they act.
THEOREM AloneInStep ==
  ASSUME Alone
  PROVE  Spec => []InStep
<1>1. TypeOK /\ WritesKnown /\ InStep /\ [Next]_vars => InStep'
  BY InStepStep
<1>2. QED  BY <1>1, InitInStep, TypeCorrect, PTL DEF Spec

\* No callback is given up that was not sent since it was last put back.
THEOREM GivenUpWasTried ==
  ASSUME Alone
  PROVE  Spec => []DeadWasTried
<1>1. InStep => DeadWasTried
  BY DEF InStep, DeadWasTried
<1>2. QED  BY <1>1, AloneInStep, PTL

\* The statuses after one row is written.
LEMMA StatusOf ==
  ASSUME TypeOK, NEW d \in Deliveries, NEW r, row' = [row EXCEPT ![d] = r]
  PROVE  [e \in Deliveries |-> row'[e].status]
           = [[e \in Deliveries |-> row[e].status] EXCEPT ![d] = r.status]
  BY DEF TypeOK

LEMMA OutboxStep ==
  ASSUME TypeOK, WritesKnown, InStep, [Next]_vars
  PROVE  [Outbox!Next]_(Outbox!vars)
<1> DEFINE status == [d \in Deliveries |-> row[d].status]
<1>1. ASSUME NEW d \in Deliveries, Commit(d)
      PROVE  Outbox!Committed(d)
  <2>1. row' = [row EXCEPT ![d] = Pending] /\ Pending.status = "pending"
    BY <1>1 DEF Commit, Pending
  <2>2. status' = [status EXCEPT ![d] = "pending"]
    BY <2>1, StatusOf
  <2>3. QED  BY <1>1, <2>2 DEF Commit, Outbox!Committed, Outbox!Move
<1>2. ASSUME NEW u \in Operators, NEW d \in Deliveries, d = request[u], WriteRedeliver(u)
      PROVE  Outbox!Redelivered(d)
  <2>1. /\ row[d].status = "dead" /\ row' = [row EXCEPT ![d] = Pending]
        /\ Pending.status = "pending"
    BY <1>2, ConstantsAssumption DEF WriteRedeliver, Reset, Pending, InStep
  <2>2. status' = [status EXCEPT ![d] = "pending"]
    BY <2>1, StatusOf
  <2>3. QED
    BY <1>2, <2>1, <2>2 DEF WriteRedeliver, Outbox!Redelivered, Outbox!Move
<1>3. ASSUME NEW k \in Ticks, NEW d \in Deliveries, NEW reply \in Reply, Send(k, d, reply)
      PROVE  Outbox!Sent(d)
  <2>1. row[d].status = "pending"
    BY <1>3 DEF Send, IsNext, InStep
  <2>2. accepted' \in {accepted, accepted \union {d}}
    BY <1>3, ReplyMeaning DEF Send, TypeOK
  <2>3. QED  BY <1>3, <2>1, <2>2 DEF Send, Outbox!Sent
<1>4. ASSUME NEW k \in Ticks, NEW d \in Deliveries, d = tick[k].at, Write(k)
      PROVE  Outbox!Delivered(d) \/ Outbox!GivenUp(d) \/ UNCHANGED (Outbox!vars)
  <2> DEFINE v == tick[k]
             r == Result(v, row[d])
  <2>1. /\ v \in Tick /\ d \in Deliveries /\ row[d] \in Row
        /\ row[d].status = "pending" /\ d \in tried
        /\ v.outcome = "delivered" => d \in accepted
    BY <1>4 DEF Write, Runs, WritesKnown, Known, TypeOK, Tick, InStep
  <2>2. /\ row' = [row EXCEPT ![d] = r]
        /\ alerted' = IF v.outcome \in {"dead", "expired"} THEN alerted \union {d} ELSE alerted
        /\ UNCHANGED <<accepted, tried>>
    BY <1>4 DEF Write
  <2>3. status' = [status EXCEPT ![d] = r.status]
    <3> HIDE DEF r, v
    <3> QED  BY <2>2, StatusOf
  <2>4. /\ v.outcome = "delivered" => r.status = "delivered"
        /\ v.outcome \in {"dead", "expired"} => r.status = "dead"
        /\ v.outcome \in {"none", "retry"} => r.status = "pending"
    BY <1>4, <2>1, ResultMeaning
  <2>5. v.outcome \in Outcome
    BY <2>1 DEF Tick
  <2> HIDE DEF r, v
  <2>6. CASE v.outcome = "delivered"
    BY <2>1, <2>2, <2>3, <2>4, <2>6 DEF Outbox!Delivered, Outbox!Move, v
  <2>7. CASE v.outcome \in {"dead", "expired"}
    BY <2>1, <2>2, <2>3, <2>4, <2>7 DEF Outbox!GivenUp, Outbox!Move, v
  <2>8. CASE v.outcome \in {"none", "retry"}
    <3>1. status' = status
      BY <2>1, <2>3, <2>4, <2>8
    <3>2. QED  BY <2>2, <2>8, <3>1 DEF Outbox!vars
  <2>9. QED  BY <2>5, <2>6, <2>7, <2>8 DEF Outcome
<1>5. ASSUME Quiet
      PROVE  UNCHANGED (Outbox!vars)
  BY <1>5 DEF Quiet, Outbox!vars
<1>6. \A k \in Ticks : Write(k) => tick[k].at \in Deliveries
  BY DEF Write, Runs, WritesKnown, Known, TypeOK, Tick
<1>7. \A u \in Operators : WriteRedeliver(u) => request[u] \in Deliveries
  BY DEF WriteRedeliver, TypeOK
<1>8. QED
  <2>1. ASSUME NEW d \in Deliveries, Commit(d)
        PROVE  Outbox!Next
    BY <1>1, <2>1 DEF Outbox!Next
  <2>2. ASSUME NEW u \in Operators, WriteRedeliver(u)
        PROVE  Outbox!Next
    <3>1. PICK d \in Deliveries : d = request[u]
      BY <1>7, <2>2
    <3>2. QED  BY <1>2, <2>2, <3>1 DEF Outbox!Next
  <2>3. ASSUME NEW k \in Ticks, NEW d \in Deliveries, NEW reply \in Reply, Send(k, d, reply)
        PROVE  Outbox!Next
    BY <1>3, <2>3 DEF Outbox!Next
  <2>4. ASSUME NEW k \in Ticks, Write(k)
        PROVE  Outbox!Next \/ UNCHANGED (Outbox!vars)
    <3>1. PICK d \in Deliveries : d = tick[k].at
      BY <1>6, <2>4
    <3>2. QED  BY <1>4, <2>4, <3>1 DEF Outbox!Next
  <2>5. QED  BY <1>5, <2>1, <2>2, <2>3, <2>4, Effects

\* With one tick and one operator at a time the worker implements what the
\* documentation promises: pending to delivered or dead, delivered only what the
\* platform took, dead only what was tried and is reported, back only by hand.
THEOREM AloneImplementsOutbox ==
  ASSUME Alone
  PROVE  Spec => ImplementsOutbox
<1>1. Init => Outbox!Init
  BY DEF Init, NoRow, Outbox!Init
<1>2. TypeOK /\ WritesKnown /\ InStep /\ [Next]_vars => [Outbox!Next]_(Outbox!vars)
  BY OutboxStep
<1>3. QED  BY <1>1, <1>2, TypeCorrect, AloneInStep, PTL DEF Spec, ImplementsOutbox, Outbox!Spec
=============================================================================
