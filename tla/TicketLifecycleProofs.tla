------------------------ MODULE TicketLifecycleProofs ------------------------
(***************************************************************************)
(* Proofs about TicketLifecycle for any tickets, staff, policies, number   *)
(* of connections and number of requests: type correctness, the safety     *)
(* invariants, the action properties, and that one request at a time       *)
(* implements TicketContract.                                              *)
(*                                                                         *)
(* Every invariant speaks of one ticket at a time, so the steps are first  *)
(* reduced to what they may do to one ticket (TicketStep, EveryStep); the  *)
(* invariants are then preserved by a case analysis on TicketStep.  They   *)
(* are inductive together with ReadsStillHold: a write acts on what was    *)
(* read earlier, and only what still holds of it keeps a row consistent.   *)
(***************************************************************************)
EXTENDS TicketLifecycle, TLAPS, SequenceTheorems

(* Types. *)

\* The kinds of requests in flight are disjoint: op tells which one it is.
LEMMA RequestKinds ==
  ASSUME NEW q \in Request
  PROVE  /\ q.op = "assign" => q \in [op : {"assign"},
              plan : UNION {[S -> Staff] : S \in SUBSET Tickets},
              first : SUBSET Tickets, now : Nat]
         /\ q.op = "comment" => q \in [op : {"comment"}, ticket : Tickets, read : Status,
              internalOnly : BOOLEAN, now : Nat]
         /\ q.op = "resolve" => q \in [op : {"resolve"}, ticket : Tickets, from : Status, now : Nat]
         /\ q.op = "edit" => q \in [op : {"edit"}, ticket : Tickets, slaChanged : BOOLEAN,
              policy : Policies \union {None}, frozen : BOOLEAN, now : Nat]
         /\ q.op = "compensation" => q \in [op : {"compensation"}, ticket : RefundTickets,
              amount : Amounts \union {None}, now : Nat]
         /\ q.op = "delete" => q \in [op : {"delete"}, ticket : Tickets, now : Nat]
  BY DEF Request, Idle

LEMMA InitTypeOK == Init => TypeOK
  BY ConstantsAssumption DEF Init, TypeOK, Row, NoRow, Status, LogKind, Request, NoteType,
                              Newest, NoEntries

LEMMA StartTypeOK ==
  ASSUME TypeOK, NEW x \in Txs, NEW q \in Request, Start(x, q)
  PROVE  TypeOK'
  BY DEF TypeOK, Start

LEMMA BeginTypeOK ==
  ASSUME TypeOK, NEW x \in Txs, Begin(x)
  PROVE  TypeOK'
<1>0. clock \in Nat /\ row \in [Tickets -> Row]
  BY DEF TypeOK
<1>1. ASSUME NEW S \in SUBSET Tickets, NEW u \in Staff, BeginAssign(x, S, u)
      PROVE  TypeOK'
  <2> DEFINE todo == {t \in S : row[t].assignee # u}
             first == {t \in todo : row[t].assignee = None}
             q == [op |-> "assign", plan |-> [t \in todo |-> u], first |-> first, now |-> clock]
  <2>1. todo \in SUBSET Tickets /\ first \in SUBSET Tickets
    OBVIOUS
  <2>2. [t \in todo |-> u] \in UNION {[T -> Staff] : T \in SUBSET Tickets}
    <3> HIDE DEF todo
    <3>1. [t \in todo |-> u] \in [todo -> Staff]
      OBVIOUS
    <3>2. QED  BY <2>1, <3>1
  <2>3. q \in Request
    BY <1>0, <2>1, <2>2 DEF Request
  <2>4. Start(x, q)
    BY <1>1 DEF BeginAssign
  <2>5. QED  BY <2>3, <2>4, StartTypeOK
<1>2. ASSUME NEW S \in SUBSET Tickets, NEW plan \in [S -> Staff], BeginAutoAssign(x, plan)
      PROVE  TypeOK'
  <2> DEFINE q == [op |-> "assign", plan |-> plan, first |-> DOMAIN plan, now |-> clock]
  <2>1. plan \in UNION {[T -> Staff] : T \in SUBSET Tickets} /\ DOMAIN plan \in SUBSET Tickets
    OBVIOUS
  <2>2. q \in Request
    BY <1>0, <2>1 DEF Request
  <2>3. QED  BY <1>2, <2>2, StartTypeOK DEF BeginAutoAssign
<1>3. ASSUME NEW t \in Tickets, NEW b \in BOOLEAN, BeginComment(x, t, b)
      PROVE  TypeOK'
  <2>1. [op |-> "comment", ticket |-> t, read |-> row[t].status,
         internalOnly |-> b, now |-> clock] \in Request
    BY <1>0 DEF Request, Row
  <2>2. QED  BY <1>3, <2>1, StartTypeOK DEF BeginComment
<1>4. ASSUME NEW t \in Tickets, BeginResolve(x, t)
      PROVE  TypeOK'
  <2>1. [op |-> "resolve", ticket |-> t, from |-> row[t].status, now |-> clock] \in Request
    BY <1>0 DEF Request, Row
  <2>2. QED  BY <1>4, <2>1, StartTypeOK DEF BeginResolve
<1>5. ASSUME NEW t \in Tickets, NEW p \in Policies \union {None}, NEW b \in BOOLEAN,
             BeginEdit(x, t, p, b)
      PROVE  TypeOK'
  <2> DEFINE q == [op |-> "edit", ticket |-> t, slaChanged |-> (p # row[t].slaPolicy),
                   policy |-> p, frozen |-> (row[t].status = "completed"), now |-> clock]
  <2>1. q \in Request
    BY <1>0 DEF Request
  <2>2. Start(x, q)
    BY <1>5 DEF BeginEdit
  <2>3. QED  BY <2>1, <2>2, StartTypeOK
<1>6. ASSUME NEW t \in Tickets, NEW a \in Amounts \union {None}, BeginCompensation(x, t, a)
      PROVE  TypeOK'
  <2>1. t \in RefundTickets
    BY <1>6 DEF BeginCompensation
  <2>2. [op |-> "compensation", ticket |-> t, amount |-> a, now |-> clock] \in Request
    BY <1>0, <2>1 DEF Request
  <2>3. QED  BY <1>6, <2>2, StartTypeOK DEF BeginCompensation
<1>7. ASSUME NEW t \in Tickets, BeginDelete(x, t)
      PROVE  TypeOK'
  <2>1. [op |-> "delete", ticket |-> t, now |-> clock] \in Request
    BY <1>0 DEF Request
  <2>2. QED  BY <1>7, <2>1, StartTypeOK DEF BeginDelete
<1>8. QED  BY <1>1, <1>2, <1>3, <1>4, <1>5, <1>6, <1>7 DEF Begin

\* Writing changes a row only to a row, and its log only by one entry a kind.
LEMMA LoggedType ==
  ASSUME TypeOK, NEW t \in Tickets, NEW K
  PROVE  Logged(t, K) \in [LogKind -> Nat]
  BY DEF TypeOK, Logged

LEMMA FinishTypeOK ==
  ASSUME TypeOK, NEW x \in Txs, Finish(x)
  PROVE  tx' \in [Txs -> Request] /\ clock' \in Nat
  BY DEF TypeOK, Finish, Request

\* The ways a row is rewritten keep it a row.
LEMMA AssignedType ==
  ASSUME NEW r \in Row, NEW u \in Staff, NEW first \in BOOLEAN, NEW now \in Nat
  PROVE  Assigned(r, u, first, now) \in Row
<1>1. [r EXCEPT !.assignee = u, !.assignedAt = now, !.status = "assigned"] \in Row
  BY DEF Row, Status
<1>2. [r EXCEPT !.assignee = u] \in Row
  BY DEF Row
<1>3. QED  BY <1>1, <1>2 DEF Assigned

LEMMA CountedCommentType ==
  ASSUME NEW r \in Row, NEW claimed \in BOOLEAN
  PROVE  CountedComment(r, claimed) \in Row
<1>1. r.contactCount + 1 \in Nat /\ r.status \in Status /\ "processing" \in Status
  BY DEF Row, Status
<1>2. CASE claimed
  <2>1. [r EXCEPT !.contactCount = r.contactCount + 1, !.status = "processing"] \in Row
    BY <1>1 DEF Row
  <2>2. QED  BY <1>2, <2>1 DEF CountedComment
<1>3. CASE ~claimed
  <2>1. [r EXCEPT !.contactCount = r.contactCount + 1, !.status = r.status] \in Row
    BY <1>1 DEF Row
  <2>2. QED  BY <1>3, <2>1 DEF CountedComment
<1>4. QED  BY <1>2, <1>3

LEMMA RestampedType ==
  ASSUME NEW r \in Row, NEW q, q.policy \in Policies \union {None}
  PROVE  Restamped(r, q) \in Row
<1>1. [r EXCEPT !.slaPolicy = q.policy] \in Row
  BY DEF Row
<1>2. [r EXCEPT !.slaPolicy = q.policy, !.due = q.policy] \in Row
  BY DEF Row
<1>3. QED  BY <1>1, <1>2 DEF Restamped

LEMMA CompletedType ==
  ASSUME NEW r \in Row, NEW now \in Nat
  PROVE  [r EXCEPT !.status = "completed", !.completionTime = now] \in Row
  BY DEF Row, Status

LEMMA CompensatedType ==
  ASSUME NEW r \in Row, NEW a \in Amounts \union {None}
  PROVE  [r EXCEPT !.compensation = a] \in Row
  BY DEF Row

LEMMA DeletedType ==
  ASSUME NEW r \in Row, NEW now \in Nat
  PROVE  [r EXCEPT !.deletedAt = now] \in Row
  BY DEF Row

\* A new entry is told by a record of the same type.
LEMMA EntryTypes ==
  ASSUME NEW n \in Newest, NEW at \in Nat
  PROVE  /\ \A s \in Status : StatusEntry(n, s, at) \in Newest
         /\ \A u \in Staff : OwnerEntry(n, u, at) \in Newest
<1>1. ASSUME NEW s \in Status
      PROVE  StatusEntry(n, s, at) \in Newest
  BY <1>1 DEF StatusEntry, Newest
<1>2. ASSUME NEW u \in Staff
      PROVE  OwnerEntry(n, u, at) \in Newest
  BY <1>2 DEF OwnerEntry, Newest
<1>3. QED  BY <1>1, <1>2

LEMMA OneElement ==
  ASSUME NEW S, NEW e \in S
  PROVE  <<e>> \in Seq(S) /\ Len(<<e>>) = 1
  OBVIOUS

LEMMA RowWritten ==
  ASSUME TypeOK, NEW t \in Tickets, NEW r \in Row, row' = [row EXCEPT ![t] = r]
  PROVE  row' \in [Tickets -> Row]
  BY DEF TypeOK

LEMMA WriteAssignTypeOK ==
  ASSUME TypeOK, NEW x \in Txs, WriteAssign(x)
  PROVE  TypeOK'
<1> DEFINE q == tx[x]
<1>1. q \in Request /\ q.op = "assign"
  BY DEF TypeOK, WriteAssign
<1>2. PICK S \in SUBSET Tickets : q.plan \in [S -> Staff]
  BY <1>1, RequestKinds
<1>3. q.first \in SUBSET Tickets /\ q.now \in Nat
  BY <1>1, RequestKinds
<1>4. ASSUME NEW t \in DOMAIN q.plan
      PROVE  t \in Tickets /\ q.plan[t] \in Staff
  BY <1>2
<1> HIDE DEF q
<1>5. row' \in [Tickets -> Row]
  <2>1. ASSUME NEW t \in Tickets
        PROVE  (IF t \in DOMAIN q.plan
                 THEN Assigned(row[t], q.plan[t], t \in q.first, q.now) ELSE row[t]) \in Row
    <3>1. row[t] \in Row /\ (t \in q.first) \in BOOLEAN
      BY DEF TypeOK
    <3>2. CASE t \in DOMAIN q.plan
      <4>1. q.plan[t] \in Staff
        BY <1>4, <3>2
      <4>2. Assigned(row[t], q.plan[t], t \in q.first, q.now) \in Row
        BY <1>3, <3>1, <4>1, AssignedType
      <4>3. QED  BY <3>2, <4>2
    <3>3. CASE t \notin DOMAIN q.plan
      BY <3>1, <3>3
    <3>4. QED  BY <3>2, <3>3
  <2>2. QED  BY <2>1 DEF WriteAssign, q
<1>6. entries' \in [Tickets -> [LogKind -> Nat]]
  BY LoggedType DEF WriteAssign, q, TypeOK
<1>7. newest' \in [Tickets -> Newest]
  <2>1. ASSUME NEW t \in Tickets
        PROVE  (IF t \notin DOMAIN q.plan THEN newest[t]
                ELSE LET n == OwnerEntry(newest[t], q.plan[t], q.now) IN
                     IF t \in q.first THEN StatusEntry(n, "assigned", q.now) ELSE n) \in Newest
    <3>1. newest[t] \in Newest /\ "assigned" \in Status
      BY DEF TypeOK, Status
    <3>2. CASE t \notin DOMAIN q.plan
      BY <3>1, <3>2
    <3>3. CASE t \in DOMAIN q.plan
      <4>1. q.plan[t] \in Staff
        BY <1>4, <3>3
      <4>2. PICK n \in Newest : n = OwnerEntry(newest[t], q.plan[t], q.now)
        BY <1>3, <3>1, <4>1, EntryTypes
      <4>3. StatusEntry(n, "assigned", q.now) \in Newest
        BY <1>3, <3>1, EntryTypes
      <4>4. QED  BY <3>3, <4>2, <4>3
    <3>4. QED  BY <3>2, <3>3
  <2>2. QED  BY <2>1 DEF WriteAssign, q
<1>8. notified' \in [Tickets -> SUBSET (NoteType \X (Staff \union {Submitter}))]
  <2>1. ASSUME NEW t \in Tickets
        PROVE  notified[t] \union
                 (IF t \in DOMAIN q.plan THEN {<<"assigned", q.plan[t]>>} ELSE {})
               \in SUBSET (NoteType \X (Staff \union {Submitter}))
    BY <1>4 DEF TypeOK, NoteType
  <2>2. QED  BY <2>1 DEF WriteAssign, q
<1>9. QED
  BY <1>5, <1>6, <1>7, <1>8, FinishTypeOK DEF WriteAssign, TypeOK

LEMMA ToSubmitterType ==
  ASSUME NEW t \in Tickets, NEW type \in NoteType
  PROVE  ToSubmitter(t, type) \in SUBSET (NoteType \X (Staff \union {Submitter}))
  BY DEF ToSubmitter

LEMMA WriteCommentTypeOK ==
  ASSUME TypeOK, NEW x \in Txs, WriteComment(x)
  PROVE  TypeOK'
<1> DEFINE t == tx[x].ticket
           claimed == ClaimsFirstFollowUp(t, tx[x].read)
<1>1. t \in Tickets /\ claimed \in BOOLEAN
  BY RequestKinds DEF TypeOK, WriteComment, ClaimsFirstFollowUp
<1>2. CountedComment(row[t], claimed) \in Row
  BY <1>1, CountedCommentType DEF TypeOK
<1>3. row' \in [Tickets -> Row]
  BY <1>1, <1>2 DEF TypeOK, WriteComment
<1>4. entries' \in [Tickets -> [LogKind -> Nat]]
  BY <1>1, LoggedType DEF TypeOK, WriteComment
<1>5. newest' \in [Tickets -> Newest]
  <2>1. newest[t] \in Newest /\ tx[x].now \in Nat /\ "processing" \in Status
    BY <1>1, RequestKinds DEF TypeOK, WriteComment, Status
  <2>2. StatusEntry(newest[t], "processing", tx[x].now) \in Newest
    BY <2>1, EntryTypes
  <2>3. QED  BY <1>1, <2>1, <2>2 DEF TypeOK, WriteComment
<1>6. notified' \in [Tickets -> SUBSET (NoteType \X (Staff \union {Submitter}))]
  <2>1. ToSubmitter(t, "external_reply") \in SUBSET (NoteType \X (Staff \union {Submitter}))
    BY <1>1, ToSubmitterType DEF NoteType
  <2>2. QED  BY <1>1, <2>1 DEF TypeOK, WriteComment
<1>7. QED
  BY <1>3, <1>4, <1>5, <1>6, FinishTypeOK DEF WriteComment, TypeOK

LEMMA WriteResolveTypeOK ==
  ASSUME TypeOK, NEW x \in Txs, WriteResolve(x)
  PROVE  TypeOK'
<1> DEFINE t == tx[x].ticket
<1>1. t \in Tickets /\ tx[x].now \in Nat
  BY RequestKinds DEF TypeOK, WriteResolve
<1>2. row' \in [Tickets -> Row]
  <2>1. [row[t] EXCEPT !.status = "completed", !.completionTime = tx[x].now] \in Row
    <3>1. row[t] \in Row
      BY <1>1 DEF TypeOK
    <3>2. QED  BY <1>1, <3>1, CompletedType
  <2>2. row' = [row EXCEPT ![t] =
                  [row[t] EXCEPT !.status = "completed", !.completionTime = tx[x].now]]
    BY <1>1 DEF TypeOK, WriteResolve
  <2>3. QED  BY <1>1, <2>1, <2>2, RowWritten
<1>3. entries' \in [Tickets -> [LogKind -> Nat]]
  BY <1>1, LoggedType DEF TypeOK, WriteResolve
<1>4. newest' \in [Tickets -> Newest]
  <2>1. newest[t] \in Newest /\ "completed" \in Status
    BY <1>1 DEF TypeOK, Status
  <2>2. StatusEntry(newest[t], "completed", tx[x].now) \in Newest
    BY <1>1, <2>1, EntryTypes
  <2>3. QED  BY <1>1, <2>2 DEF TypeOK, WriteResolve
<1>5. outbox' \in [Tickets -> Seq(Amounts \union {None})]
  <2>1. CallbackFor(t) \in Seq(Amounts \union {None})
    <3>1. row[t].compensation \in Amounts \union {None}
      BY <1>1 DEF TypeOK, Row
    <3>2. <<row[t].compensation>> \in Seq(Amounts \union {None})
      BY <3>1, OneElement
    <3>3. << >> \in Seq(Amounts \union {None})
      OBVIOUS
    <3>4. QED  BY <3>2, <3>3 DEF CallbackFor
  <2>2. QED  BY <1>1, <2>1 DEF TypeOK, WriteResolve
<1>6. notified' \in [Tickets -> SUBSET (NoteType \X (Staff \union {Submitter}))]
  <2>1. ToSubmitter(t, "external_resolved") \in SUBSET (NoteType \X (Staff \union {Submitter}))
    BY <1>1, ToSubmitterType DEF NoteType
  <2>2. QED  BY <1>1, <2>1 DEF TypeOK, WriteResolve
<1>7. QED
  BY <1>2, <1>3, <1>4, <1>5, <1>6, FinishTypeOK DEF WriteResolve, TypeOK

LEMMA WriteEditTypeOK ==
  ASSUME TypeOK, NEW x \in Txs, WriteEdit(x)
  PROVE  TypeOK'
<1> DEFINE t == tx[x].ticket
<1>1. t \in Tickets /\ tx[x].policy \in Policies \union {None}
  BY RequestKinds DEF TypeOK, WriteEdit
<1>2. Restamped(row[t], tx[x]) \in Row
  BY <1>1, RestampedType DEF TypeOK
<1>3. row' \in [Tickets -> Row]
  BY <1>1, <1>2 DEF TypeOK, WriteEdit
<1>4. entries' \in [Tickets -> [LogKind -> Nat]]
  BY <1>1, LoggedType DEF TypeOK, WriteEdit
<1>5. QED
  BY <1>3, <1>4, FinishTypeOK DEF WriteEdit, TypeOK

LEMMA WriteCompensationTypeOK ==
  ASSUME TypeOK, NEW x \in Txs, WriteCompensation(x)
  PROVE  TypeOK'
<1> DEFINE t == tx[x].ticket
<1>1. t \in Tickets /\ tx[x].amount \in Amounts \union {None}
  BY RequestKinds, ConstantsAssumption DEF TypeOK, WriteCompensation
<1>2. row' \in [Tickets -> Row]
  <2>1. [row[t] EXCEPT !.compensation = tx[x].amount] \in Row
    <3>1. row[t] \in Row
      BY <1>1 DEF TypeOK
    <3>2. QED  BY <1>1, <3>1, CompensatedType
  <2>2. QED  BY <1>1, <2>1, RowWritten DEF TypeOK, WriteCompensation
<1>3. entries' \in [Tickets -> [LogKind -> Nat]]
  BY <1>1, LoggedType DEF TypeOK, WriteCompensation
<1>4. QED
  BY <1>2, <1>3, FinishTypeOK DEF WriteCompensation, TypeOK

LEMMA WriteDeleteTypeOK ==
  ASSUME TypeOK, NEW x \in Txs, WriteDelete(x)
  PROVE  TypeOK'
<1> DEFINE t == tx[x].ticket
<1>1. t \in Tickets /\ tx[x].now \in Nat
  BY RequestKinds DEF TypeOK, WriteDelete
<1>2. row' \in [Tickets -> Row]
  <2>1. [row[t] EXCEPT !.deletedAt = tx[x].now] \in Row
    <3>1. row[t] \in Row
      BY <1>1 DEF TypeOK
    <3>2. QED  BY <1>1, <3>1, DeletedType
  <2>2. QED  BY <1>1, <2>1, RowWritten DEF TypeOK, WriteDelete
<1>3. QED
  BY <1>2, FinishTypeOK DEF WriteDelete, TypeOK

LEMMA CreateTypeOK ==
  ASSUME TypeOK, NEW t \in Tickets, NEW p \in Policies \union {None}, CreateTicket(t, p)
  PROVE  TypeOK'
<1>1. [NoRow EXCEPT !.status = "unassigned", !.slaPolicy = p, !.due = p] \in Row
  BY DEF NoRow, Row, Status
<1>2. row' \in [Tickets -> Row]
  BY <1>1 DEF TypeOK, CreateTicket
<1>3. entries' \in [Tickets -> [LogKind -> Nat]]
  BY LoggedType DEF TypeOK, CreateTicket
<1>4. QED
  BY <1>2, <1>3 DEF CreateTicket, TypeOK

LEMMA FallsBackTypeOK ==
  ASSUME TypeOK, NEW x \in Txs, ResolveFallsBack(x)
  PROVE  TypeOK'
<1>1. tx[x] \in [op : {"resolve"}, ticket : Tickets, from : Status, now : Nat]
  BY RequestKinds DEF TypeOK, ResolveFallsBack
<1>2. [tx[x] EXCEPT !.from = "processing"] \in Request
  BY <1>1 DEF Request, Status
<1>3. QED  BY <1>2 DEF ResolveFallsBack, TypeOK

LEMMA StepTypeOK == TypeOK /\ [Next]_vars => TypeOK'
<1> SUFFICES ASSUME TypeOK, [Next]_vars
             PROVE  TypeOK'
  OBVIOUS
<1>1. ASSUME NEW t \in Tickets, NEW p \in Policies \union {None}, CreateTicket(t, p)
      PROVE  TypeOK'
  BY <1>1, CreateTypeOK
<1>2. ASSUME NEW x \in Txs, Begin(x)
      PROVE  TypeOK'
  BY <1>2, BeginTypeOK
<1>3. ASSUME NEW x \in Txs, Write(x)
      PROVE  TypeOK'
  BY <1>3, WriteAssignTypeOK, WriteCommentTypeOK, WriteResolveTypeOK, WriteEditTypeOK,
     WriteCompensationTypeOK, WriteDeleteTypeOK DEF Write
<1>4. ASSUME NEW x \in Txs, Abort(x)
      PROVE  TypeOK'
  BY <1>4, FinishTypeOK DEF Abort, TypeOK
<1>5. CASE UNCHANGED vars
  BY <1>5 DEF vars, TypeOK
<1>6. QED  BY <1>1, <1>2, <1>3, <1>4, <1>5, FallsBackTypeOK DEF Next

\* Every variable keeps its type: rows, logs, payloads and requests in flight.
THEOREM TypeCorrect == Spec => []TypeOK
<1>1. QED  BY InitTypeOK, StepTypeOK, PTL DEF Spec

-----------------------------------------------------------------------------
(* The safety invariants. *)

\* What is not opened has never been written.
AbsentIsBlank == \A t \in Tickets : row[t].status = "absent" => row[t] = NoRow

Consistent ==
  /\ TypeOK
  /\ AbsentIsBlank
  /\ ReadsStillHold
  /\ UnownedIffUnassigned
  /\ CompletionsAreClaimed
  /\ CallbackPerCompletion
  /\ ContactCountIsTimeline
  /\ StatusFlowBalances
  /\ DueFollowsPolicy
  /\ NotesReachThoseConcerned

-----------------------------------------------------------------------------
(* What a step may do to one ticket.                                       *)

Same(t) ==
  /\ row'[t] = row[t] /\ entries'[t] = entries[t]
  /\ outbox'[t] = outbox[t] /\ notified'[t] = notified[t]

Opened(t, p) ==
  /\ row[t].status = "absent"
  /\ row'[t] = [NoRow EXCEPT !.status = "unassigned", !.slaPolicy = p, !.due = p]
  /\ entries'[t] = Logged(t, {"create"})
  /\ outbox'[t] = outbox[t] /\ notified'[t] = notified[t]

FirstOwned(t, u, now) ==
  /\ row[t].status # "absent"
  /\ row'[t] = [row[t] EXCEPT !.assignee = u, !.assignedAt = now, !.status = "assigned"]
  /\ entries'[t] = Logged(t, {"assign", "to_assigned"})
  /\ notified'[t] = notified[t] \union {<<"assigned", u>>}
  /\ outbox'[t] = outbox[t]

Reowned(t, u) ==
  /\ row[t].assignee # None
  /\ row'[t] = [row[t] EXCEPT !.assignee = u]
  /\ entries'[t] = Logged(t, {"assign"})
  /\ notified'[t] = notified[t] \union {<<"assigned", u>>}
  /\ outbox'[t] = outbox[t]

FirstFollowedUp(t, kind) ==
  /\ row[t].status = "assigned"
  /\ row'[t] = [row[t] EXCEPT !.contactCount = row[t].contactCount + 1, !.status = "processing"]
  /\ entries'[t] = Logged(t, {kind, "to_processing"})
  /\ outbox'[t] = outbox[t]
  /\ \A u \in Staff : <<"assigned", u>> \in notified[t] => <<"assigned", u>> \in notified'[t]

FollowedUp(t, kind) ==
  /\ row[t].status \notin {"absent", "unassigned"}
  /\ row'[t] = [row[t] EXCEPT !.contactCount = row[t].contactCount + 1]
  /\ entries'[t] = Logged(t, {kind})
  /\ outbox'[t] = outbox[t]
  /\ \A u \in Staff : <<"assigned", u>> \in notified[t] => <<"assigned", u>> \in notified'[t]

Completed(t, from, now) ==
  /\ row[t].status = from
  /\ row'[t] = [row[t] EXCEPT !.status = "completed", !.completionTime = now]
  /\ entries'[t] = Logged(t, IF from = "assigned"
                               THEN {"resolve", "to_completed", "completed_directly"}
                               ELSE {"resolve", "to_completed"})
  /\ outbox'[t] = outbox[t] \o CallbackFor(t)
  /\ \A u \in Staff : <<"assigned", u>> \in notified[t] => <<"assigned", u>> \in notified'[t]

Edited(t, q) ==
  /\ row[t].status # "absent"
  /\ q.frozen => entries[t]["resolve"] > 0
  /\ row'[t] = Restamped(row[t], q)
  /\ entries'[t] = Logged(t, {"edit"})
  /\ outbox'[t] = outbox[t] /\ notified'[t] = notified[t]

Compensated(t, a) ==
  /\ row[t].status # "absent"
  /\ row'[t] = [row[t] EXCEPT !.compensation = a]
  /\ entries'[t] = Logged(t, {"edit"})
  /\ outbox'[t] = outbox[t] /\ notified'[t] = notified[t]

Deleted(t, now) ==
  /\ row[t].status # "absent" /\ row[t].deletedAt = None
  /\ row'[t] = [row[t] EXCEPT !.deletedAt = now]
  /\ entries'[t] = entries[t]
  /\ outbox'[t] = outbox[t] /\ notified'[t] = notified[t]

TicketStep(t) ==
  \/ Same(t)
  \/ \E p \in Policies \union {None} : Opened(t, p)
  \/ \E u \in Staff, now \in Nat : FirstOwned(t, u, now)
  \/ \E u \in Staff : Reowned(t, u)
  \/ \E kind \in {"comment", "internal_comment"} : FirstFollowedUp(t, kind)
  \/ \E kind \in {"comment", "internal_comment"} : FollowedUp(t, kind)
  \/ \E from \in {"assigned", "processing"}, now \in Nat : Completed(t, from, now)
  \/ \E q \in Request : q.op = "edit" /\ Edited(t, q)
  \/ \E a \in Amounts \union {None} : Compensated(t, a)
  \/ \E now \in Nat : Deleted(t, now)

-----------------------------------------------------------------------------
(* Every step of the system is a TicketStep of every ticket.               *)

LEMMA CreateIsTicketStep ==
  ASSUME TypeOK, NEW s \in Tickets, NEW p \in Policies \union {None}, CreateTicket(s, p),
         NEW t \in Tickets
  PROVE  TicketStep(t)
<1>1. CASE t = s
  <2>1. Opened(t, p)
    BY <1>1 DEF CreateTicket, Opened, TypeOK
  <2>2. QED  BY <2>1 DEF TicketStep
<1>2. CASE t # s
  BY <1>2 DEF CreateTicket, TicketStep, Same, TypeOK
<1>3. QED  BY <1>1, <1>2

LEMMA AssignIsTicketStep ==
  ASSUME TypeOK, ReadsStillHold, NEW x \in Txs, WriteAssign(x), NEW t \in Tickets
  PROVE  TicketStep(t)
<1> DEFINE q == tx[x]
<1>1. q \in Request /\ q.op = "assign"
  BY DEF TypeOK, WriteAssign
<1>2. PICK S \in SUBSET Tickets : q.plan \in [S -> Staff]
  BY <1>1, RequestKinds
<1>3. q.now \in Nat
  BY <1>1, RequestKinds
<1>4. CASE t \notin DOMAIN q.plan
  <2>1. notified'[t] = notified[t] \union {}
    BY <1>4 DEF WriteAssign
  <2>2. Same(t)
    BY <1>4, <2>1 DEF WriteAssign, Same
  <2>3. QED  BY <2>2 DEF TicketStep
<1>5. CASE t \in DOMAIN q.plan /\ t \in q.first
  <2>1. q.plan[t] \in Staff
    BY <1>2, <1>5
  <2>2. row[t].status # "absent"
    BY <1>1, <1>5 DEF ReadsStillHold
  <2>3. row'[t] = Assigned(row[t], q.plan[t], TRUE, q.now)
    BY <1>5 DEF WriteAssign, Assigned
  <2>4. entries'[t] = Logged(t, {"assign", "to_assigned"})
    <3>1. {"assign"} \union {"to_assigned"} = {"assign", "to_assigned"}
      OBVIOUS
    <3>2. entries'[t] = Logged(t, {"assign"} \union {"to_assigned"})
      BY <1>5 DEF WriteAssign
    <3>3. QED  BY <3>1, <3>2
  <2>5. notified'[t] = notified[t] \union {<<"assigned", q.plan[t]>>}
        /\ outbox'[t] = outbox[t]
    BY <1>5 DEF WriteAssign
  <2>6. FirstOwned(t, q.plan[t], q.now)
    BY <2>2, <2>3, <2>4, <2>5 DEF FirstOwned, Assigned
  <2>7. QED  BY <1>3, <2>1, <2>6 DEF TicketStep
<1>6. CASE t \in DOMAIN q.plan /\ t \notin q.first
  <2>1. q.plan[t] \in Staff
    BY <1>2, <1>6
  <2>2. row[t].assignee # None
    BY <1>1, <1>6 DEF ReadsStillHold
  <2>3. row'[t] = Assigned(row[t], q.plan[t], FALSE, q.now)
    BY <1>6 DEF WriteAssign, Assigned
  <2>4. entries'[t] = Logged(t, {"assign"})
    <3>1. {"assign"} \union {} = {"assign"}
      OBVIOUS
    <3>2. entries'[t] = Logged(t, {"assign"} \union {})
      BY <1>6 DEF WriteAssign
    <3>3. QED  BY <3>1, <3>2
  <2>5. notified'[t] = notified[t] \union {<<"assigned", q.plan[t]>>}
        /\ outbox'[t] = outbox[t]
    BY <1>6 DEF WriteAssign
  <2>6. Reowned(t, q.plan[t])
    BY <2>2, <2>3, <2>4, <2>5 DEF Reowned, Assigned
  <2>7. QED  BY <2>1, <2>6 DEF TicketStep
<1>7. QED  BY <1>4, <1>5, <1>6

LEMMA CommentIsTicketStep ==
  ASSUME TypeOK, ReadsStillHold, NEW x \in Txs, WriteComment(x), NEW t \in Tickets
  PROVE  TicketStep(t)
<1> DEFINE q == tx[x]
           kind == IF q.internalOnly THEN "internal_comment" ELSE "comment"
           claimed == ClaimsFirstFollowUp(q.ticket, q.read)
<1>1. q \in Request /\ q.op = "comment" /\ q.ticket \in Tickets
  BY RequestKinds DEF TypeOK, WriteComment
<1>2. CASE t # q.ticket
  BY <1>2 DEF WriteComment, TicketStep, Same, TypeOK
<1>3. CASE t = q.ticket
  <2>1. row[t].status \notin {"absent", "unassigned"}
    BY <1>1, <1>3 DEF ReadsStillHold
  <2>2. \A u \in Staff : <<"assigned", u>> \in notified[t] => <<"assigned", u>> \in notified'[t]
    BY <1>1, <1>3 DEF WriteComment, TypeOK
  <2>3. row'[t] = CountedComment(row[t], claimed)
    BY <1>1, <1>3 DEF WriteComment, TypeOK
  <2>4. entries'[t] = Logged(t, {kind} \union (IF claimed THEN {"to_processing"} ELSE {}))
    BY <1>1, <1>3 DEF WriteComment, TypeOK
  <2>5. outbox'[t] = outbox[t]
    BY <1>1, <1>3 DEF WriteComment, TypeOK
  <2>6. CASE claimed
    <3>1. {kind} \union {"to_processing"} = {kind, "to_processing"}
      OBVIOUS
    <3>2. entries'[t] = Logged(t, {kind, "to_processing"})
      BY <2>4, <2>6, <3>1
    <3>3. row[t].status = "assigned"
      BY <1>3, <2>6 DEF ClaimsFirstFollowUp
    <3>4. row'[t] = [row[t] EXCEPT !.contactCount = row[t].contactCount + 1,
                                   !.status = "processing"]
      BY <2>3, <2>6 DEF CountedComment
    <3>5. FirstFollowedUp(t, kind)
      BY <2>2, <2>5, <2>6, <3>2, <3>3, <3>4 DEF FirstFollowedUp
    <3>6. QED  BY <3>5 DEF TicketStep
  <2>7. CASE ~claimed
    <3>1. {kind} \union {} = {kind}
      OBVIOUS
    <3>2. entries'[t] = Logged(t, {kind})
      BY <2>4, <2>7, <3>1
    <3>3. row[t] \in Row
      BY DEF TypeOK
    <3>4. [row[t] EXCEPT !.contactCount = row[t].contactCount + 1, !.status = row[t].status]
            = [row[t] EXCEPT !.contactCount = row[t].contactCount + 1]
      BY <3>3 DEF Row
    <3>5. row'[t] = [row[t] EXCEPT !.contactCount = row[t].contactCount + 1]
      BY <2>3, <2>7, <3>4 DEF CountedComment
    <3>6. FollowedUp(t, kind)
      BY <2>1, <2>2, <2>5, <2>7, <3>2, <3>5 DEF FollowedUp
    <3>7. QED  BY <3>6 DEF TicketStep
  <2>8. QED  BY <2>6, <2>7
<1>4. QED  BY <1>2, <1>3

LEMMA ResolveIsTicketStep ==
  ASSUME TypeOK, ReadsStillHold, NEW x \in Txs, WriteResolve(x), NEW t \in Tickets
  PROVE  TicketStep(t)
<1> DEFINE q == tx[x]
<1>1. q \in Request /\ q.op = "resolve" /\ q.ticket \in Tickets /\ q.now \in Nat
  BY RequestKinds DEF TypeOK, WriteResolve
<1>2. CASE t # q.ticket
  BY <1>2 DEF WriteResolve, TicketStep, Same, TypeOK
<1>3. CASE t = q.ticket
  <2>1. q.from \in {"assigned", "processing"} /\ row[t].status = q.from
    BY <1>1, <1>3 DEF ReadsStillHold, WriteResolve, ClaimsCompletion
  <2>2. entries'[t] = Logged(t, IF q.from = "assigned"
                                 THEN {"resolve", "to_completed", "completed_directly"}
                                 ELSE {"resolve", "to_completed"})
    <3>1. PICK K : K = {"resolve", "to_completed"}
                         \union (IF q.from = "assigned" THEN {"completed_directly"} ELSE {})
      OBVIOUS
    <3>2. K = (IF q.from = "assigned" THEN {"resolve", "to_completed", "completed_directly"}
                                       ELSE {"resolve", "to_completed"})
      BY <3>1
    <3>3. entries'[t] = Logged(t, K)
      BY <1>1, <1>3, <3>1 DEF WriteResolve, TypeOK
    <3>4. QED  BY <3>2, <3>3
  <2>3. \A u \in Staff : <<"assigned", u>> \in notified[t] => <<"assigned", u>> \in notified'[t]
    BY <1>1, <1>3 DEF WriteResolve, TypeOK
  <2>4. Completed(t, q.from, q.now)
    BY <1>1, <1>3, <2>1, <2>2, <2>3 DEF WriteResolve, Completed, TypeOK
  <2>5. QED  BY <1>1, <2>1, <2>4 DEF TicketStep
<1>4. QED  BY <1>2, <1>3

LEMMA EditIsTicketStep ==
  ASSUME TypeOK, ReadsStillHold, NEW x \in Txs, WriteEdit(x), NEW t \in Tickets
  PROVE  TicketStep(t)
<1> DEFINE q == tx[x]
<1>1. q \in Request /\ q.op = "edit" /\ q.ticket \in Tickets
  BY RequestKinds DEF TypeOK, WriteEdit
<1>2. CASE t # q.ticket
  BY <1>2 DEF WriteEdit, TicketStep, Same, TypeOK
<1>3. CASE t = q.ticket
  <2>1. row[t].status # "absent" /\ (q.frozen => entries[t]["resolve"] > 0)
    BY <1>1, <1>3 DEF ReadsStillHold
  <2>2. Edited(t, q)
    BY <1>1, <1>3, <2>1 DEF WriteEdit, Edited, TypeOK
  <2>3. QED  BY <1>1, <2>2 DEF TicketStep
<1>4. QED  BY <1>2, <1>3

LEMMA CompensationIsTicketStep ==
  ASSUME TypeOK, ReadsStillHold, NEW x \in Txs, WriteCompensation(x), NEW t \in Tickets
  PROVE  TicketStep(t)
<1> DEFINE q == tx[x]
<1>1. q.ticket \in Tickets /\ q.amount \in Amounts \union {None}
  BY RequestKinds, ConstantsAssumption DEF TypeOK, WriteCompensation
<1>2. CASE t # q.ticket
  BY <1>2 DEF WriteCompensation, TicketStep, Same, TypeOK
<1>3. CASE t = q.ticket
  <2>1. row[t].status # "absent"
    BY <1>3 DEF WriteCompensation, ReadsStillHold
  <2>2. Compensated(t, q.amount)
    BY <1>1, <1>3, <2>1 DEF WriteCompensation, Compensated, TypeOK
  <2>3. QED  BY <1>1, <2>2 DEF TicketStep
<1>4. QED  BY <1>2, <1>3

LEMMA DeleteIsTicketStep ==
  ASSUME TypeOK, ReadsStillHold, NEW x \in Txs, WriteDelete(x), NEW t \in Tickets
  PROVE  TicketStep(t)
<1> DEFINE q == tx[x]
<1>1. q.ticket \in Tickets /\ q.now \in Nat
  BY RequestKinds DEF TypeOK, WriteDelete
<1>2. CASE t # q.ticket
  BY <1>2 DEF WriteDelete, TicketStep, Same, TypeOK
<1>3. CASE t = q.ticket
  <2>1. row[t].status # "absent"
    BY <1>3 DEF WriteDelete, ReadsStillHold
  <2>2. Deleted(t, q.now)
    BY <1>1, <1>3, <2>1 DEF WriteDelete, Deleted, ClaimsDeletion, TypeOK
  <2>3. QED  BY <1>1, <2>2 DEF TicketStep
<1>4. QED  BY <1>2, <1>3

LEMMA EveryStep ==
  ASSUME TypeOK, ReadsStillHold, [Next]_vars, NEW t \in Tickets
  PROVE  TicketStep(t)
<1>1. ASSUME NEW s \in Tickets, NEW p \in Policies \union {None}, CreateTicket(s, p)
      PROVE  TicketStep(t)
  BY <1>1, CreateIsTicketStep
<1>2. ASSUME NEW x \in Txs, Begin(x)
      PROVE  TicketStep(t)
  <2>1. Same(t)
    BY <1>2 DEF Begin, BeginAssign, BeginAutoAssign, BeginComment, BeginResolve, BeginEdit,
               BeginCompensation, BeginDelete, Start, Same
  <2>2. QED  BY <2>1 DEF TicketStep
<1>3. ASSUME NEW x \in Txs, Write(x)
      PROVE  TicketStep(t)
  BY <1>3, AssignIsTicketStep, CommentIsTicketStep, ResolveIsTicketStep, EditIsTicketStep,
     CompensationIsTicketStep, DeleteIsTicketStep DEF Write
<1>4. ASSUME NEW x \in Txs, Abort(x)
      PROVE  TicketStep(t)
  BY <1>4 DEF Abort, Same, TicketStep
<1>5. ASSUME NEW x \in Txs, ResolveFallsBack(x)
      PROVE  TicketStep(t)
  BY <1>5 DEF ResolveFallsBack, Same, TicketStep
<1>6. CASE UNCHANGED vars
  BY <1>6 DEF vars, Same, TicketStep
<1>7. QED  BY <1>1, <1>2, <1>3, <1>4, <1>6, <1>5 DEF Next

-----------------------------------------------------------------------------
(* A TicketStep preserves each invariant of the ticket.                    *)

LEMMA LoggedAt ==
  ASSUME TypeOK, NEW t \in Tickets, NEW K, NEW k \in LogKind
  PROVE  /\ entries[t][k] \in Nat
         /\ k \in K => Logged(t, K)[k] = entries[t][k] + 1
         /\ k \notin K => Logged(t, K)[k] = entries[t][k]
  BY DEF TypeOK, Logged

LEMMA RestampedFacts ==
  ASSUME NEW r \in Row, NEW q
  PROVE  LET w == Restamped(r, q) IN
         /\ w.status = r.status /\ w.assignee = r.assignee /\ w.contactCount = r.contactCount
         /\ w.deletedAt = r.deletedAt
         /\ ~q.frozen /\ r.due = r.slaPolicy => w.due = w.slaPolicy
<1>1. CASE ~q.slaChanged
  BY <1>1 DEF Restamped
<1>2. CASE q.slaChanged /\ q.frozen
  BY <1>2 DEF Restamped, Row
<1>3. CASE q.slaChanged /\ ~q.frozen
  BY <1>3 DEF Restamped, Row
<1>4. QED  BY <1>1, <1>2, <1>3

\* The columns of the row that the invariants speak of, after a step.
After(t, status, assignee, contacts, due, policy) ==
  /\ row'[t].status = status /\ row'[t].assignee = assignee
  /\ row'[t].contactCount = contacts
  /\ row'[t].due = due /\ row'[t].slaPolicy = policy

LEMMA RowAfter ==
  ASSUME TypeOK, NEW t \in Tickets
  PROVE  LET r == row[t] IN
         /\ \A p \in Policies \union {None} :
              Opened(t, p) => After(t, "unassigned", None, 0, p, p)
         /\ \A u \in Staff, now \in Nat :
              FirstOwned(t, u, now) => After(t, "assigned", u, r.contactCount, r.due, r.slaPolicy)
         /\ \A u \in Staff :
              Reowned(t, u) => After(t, r.status, u, r.contactCount, r.due, r.slaPolicy)
         /\ \A kind : FirstFollowedUp(t, kind) =>
              After(t, "processing", r.assignee, r.contactCount + 1, r.due, r.slaPolicy)
         /\ \A kind : FollowedUp(t, kind) =>
              After(t, r.status, r.assignee, r.contactCount + 1, r.due, r.slaPolicy)
         /\ \A from : \A now \in Nat : Completed(t, from, now) =>
              After(t, "completed", r.assignee, r.contactCount, r.due, r.slaPolicy)
         /\ \A a \in Amounts \union {None} : Compensated(t, a) =>
              After(t, r.status, r.assignee, r.contactCount, r.due, r.slaPolicy)
         /\ \A now \in Nat : Deleted(t, now) =>
              After(t, r.status, r.assignee, r.contactCount, r.due, r.slaPolicy)
<1> DEFINE r == row[t]
<1>0. row[t] \in Row
  BY DEF TypeOK
<1>1. ASSUME NEW p \in Policies \union {None}, Opened(t, p)
      PROVE  After(t, "unassigned", None, 0, p, p)
  BY <1>0, <1>1 DEF Opened, NoRow, After
<1>2. ASSUME NEW u \in Staff, NEW now \in Nat, FirstOwned(t, u, now)
      PROVE  After(t, "assigned", u, r.contactCount, r.due, r.slaPolicy)
  BY <1>0, <1>2 DEF FirstOwned, Row, After
<1>3. ASSUME NEW u \in Staff, Reowned(t, u)
      PROVE  After(t, r.status, u, r.contactCount, r.due, r.slaPolicy)
  BY <1>0, <1>3 DEF Reowned, Row, After
<1>4. ASSUME NEW kind, FirstFollowedUp(t, kind)
      PROVE  After(t, "processing", r.assignee, r.contactCount + 1, r.due, r.slaPolicy)
  BY <1>0, <1>4 DEF FirstFollowedUp, Row, After
<1>5. ASSUME NEW kind, FollowedUp(t, kind)
      PROVE  After(t, r.status, r.assignee, r.contactCount + 1, r.due, r.slaPolicy)
  BY <1>0, <1>5 DEF FollowedUp, Row, After
<1>6. ASSUME NEW from, NEW now \in Nat, Completed(t, from, now)
      PROVE  After(t, "completed", r.assignee, r.contactCount, r.due, r.slaPolicy)
  BY <1>0, <1>6 DEF Completed, Row, After
<1>7. ASSUME NEW a \in Amounts \union {None}, Compensated(t, a)
      PROVE  After(t, r.status, r.assignee, r.contactCount, r.due, r.slaPolicy)
  BY <1>0, <1>7 DEF Compensated, Row, After
<1>8. ASSUME NEW now \in Nat, Deleted(t, now)
      PROVE  After(t, r.status, r.assignee, r.contactCount, r.due, r.slaPolicy)
  BY <1>0, <1>8 DEF Deleted, Row, After
<1>9. QED  BY <1>1, <1>2, <1>3, <1>4, <1>5, <1>6, <1>7, <1>8

\* The counts of the timeline that the invariants speak of, after a step that
\* logs so many more of each.
More(t, comments, resolves, assigned, completed) ==
  /\ entries'[t]["comment"] + entries'[t]["internal_comment"]
       = entries[t]["comment"] + entries[t]["internal_comment"] + comments
  /\ entries'[t]["resolve"] = entries[t]["resolve"] + resolves
  /\ entries'[t]["to_assigned"] = entries[t]["to_assigned"] + assigned
  /\ entries'[t]["to_completed"] = entries[t]["to_completed"] + completed

LEMMA MoreLogged ==
  ASSUME TypeOK, NEW t \in Tickets
  PROVE  /\ \A k \in {"create", "assign", "edit"} :
              entries'[t] = Logged(t, {k}) => More(t, 0, 0, 0, 0)
         /\ entries'[t] = Logged(t, {"assign", "to_assigned"}) => More(t, 0, 0, 1, 0)
         /\ \A k \in {"comment", "internal_comment"} :
              /\ entries'[t] = Logged(t, {k}) => More(t, 1, 0, 0, 0)
              /\ entries'[t] = Logged(t, {k, "to_processing"}) => More(t, 1, 0, 0, 0)
         /\ entries'[t] = Logged(t, {"resolve", "to_completed"}) => More(t, 0, 1, 0, 1)
         /\ entries'[t] = Logged(t, {"resolve", "to_completed", "completed_directly"}) =>
              More(t, 0, 1, 0, 1)
         /\ entries'[t] = entries[t] => More(t, 0, 0, 0, 0)
<1>0. \A k \in LogKind : entries[t][k] \in Nat
  BY DEF TypeOK
<1>1. ASSUME NEW k \in {"create", "assign", "edit"}, entries'[t] = Logged(t, {k})
      PROVE  More(t, 0, 0, 0, 0)
  BY <1>0, <1>1 DEF Logged, LogKind, More
<1>2. ASSUME entries'[t] = Logged(t, {"assign", "to_assigned"})
      PROVE  More(t, 0, 0, 1, 0)
  BY <1>0, <1>2 DEF Logged, LogKind, More
<1>3. ASSUME NEW k \in {"comment", "internal_comment"}, entries'[t] = Logged(t, {k})
      PROVE  More(t, 1, 0, 0, 0)
  BY <1>0, <1>3 DEF Logged, LogKind, More
<1>4. ASSUME NEW k \in {"comment", "internal_comment"},
             entries'[t] = Logged(t, {k, "to_processing"})
      PROVE  More(t, 1, 0, 0, 0)
  BY <1>0, <1>4 DEF Logged, LogKind, More
<1>5. ASSUME entries'[t] = Logged(t, {"resolve", "to_completed"})
      PROVE  More(t, 0, 1, 0, 1)
  BY <1>0, <1>5 DEF Logged, LogKind, More
<1>6. ASSUME entries'[t] = Logged(t, {"resolve", "to_completed", "completed_directly"})
      PROVE  More(t, 0, 1, 0, 1)
  BY <1>0, <1>6 DEF Logged, LogKind, More
<1>7. ASSUME entries'[t] = entries[t]
      PROVE  More(t, 0, 0, 0, 0)
  BY <1>0, <1>7 DEF LogKind, More
<1>8. QED  BY <1>1, <1>2, <1>3, <1>4, <1>5, <1>6, <1>7

\* Each kind of TicketStep, with what it adds to the timeline.
LEMMA LogAfter ==
  ASSUME TypeOK, NEW t \in Tickets
  PROVE  /\ Same(t) => More(t, 0, 0, 0, 0)
         /\ \A p : Opened(t, p) => More(t, 0, 0, 0, 0)
         /\ \A u, now : FirstOwned(t, u, now) => More(t, 0, 0, 1, 0)
         /\ \A u : Reowned(t, u) => More(t, 0, 0, 0, 0)
         /\ \A kind \in {"comment", "internal_comment"} :
              FirstFollowedUp(t, kind) \/ FollowedUp(t, kind) => More(t, 1, 0, 0, 0)
         /\ \A from, now : Completed(t, from, now) => More(t, 0, 1, 0, 1)
         /\ \A q : Edited(t, q) => More(t, 0, 0, 0, 0)
         /\ \A a : Compensated(t, a) => More(t, 0, 0, 0, 0)
         /\ \A now : Deleted(t, now) => More(t, 0, 0, 0, 0)
  BY MoreLogged DEF Same, Opened, FirstOwned, Reowned, FirstFollowedUp, FollowedUp, Completed,
                    Edited, Compensated, Deleted

\* What each kind of TicketStep requires of the row, and what an edit keeps.
LEMMA Guards ==
  ASSUME TypeOK, NEW t \in Tickets
  PROVE  /\ \A p : Opened(t, p) => row[t].status = "absent"
         /\ \A u : Reowned(t, u) => row[t].assignee # None
         /\ \A kind : FirstFollowedUp(t, kind) => row[t].status = "assigned"
         /\ \A kind : FollowedUp(t, kind) => row[t].status \notin {"absent", "unassigned"}
         /\ \A from, now : Completed(t, from, now) => row[t].status = from
         /\ \A q : Edited(t, q) =>
              /\ q.frozen => entries[t]["resolve"] > 0
              /\ row'[t].status = row[t].status /\ row'[t].assignee = row[t].assignee
              /\ row'[t].contactCount = row[t].contactCount
              /\ ~q.frozen /\ row[t].due = row[t].slaPolicy => row'[t].due = row'[t].slaPolicy
<1>1. row[t] \in Row
  BY DEF TypeOK
<1>2. ASSUME NEW q, Edited(t, q)
      PROVE  /\ q.frozen => entries[t]["resolve"] > 0
             /\ row'[t].status = row[t].status /\ row'[t].assignee = row[t].assignee
             /\ row'[t].contactCount = row[t].contactCount
             /\ ~q.frozen /\ row[t].due = row[t].slaPolicy => row'[t].due = row'[t].slaPolicy
  BY <1>1, <1>2, RestampedFacts DEF Edited
<1>3. QED
  BY <1>2 DEF Opened, Reowned, FirstFollowedUp, FollowedUp, Completed

LEMMA UnownedStep ==
  ASSUME TypeOK, UnownedIffUnassigned, NEW t \in Tickets, TicketStep(t)
  PROVE  (row'[t].assignee = None) <=> (row'[t].status \in {"absent", "unassigned"})
<1>0. (row[t].assignee = None) <=> (row[t].status \in {"absent", "unassigned"})
  BY DEF UnownedIffUnassigned
<1>1. None \notin Staff
  BY ConstantsAssumption
<1>2. CASE Same(t)
  BY <1>0, <1>2 DEF Same
<1>3. CASE \E p \in Policies \union {None} : Opened(t, p)
  BY <1>3, RowAfter DEF After
<1>4. CASE \E u \in Staff, now \in Nat : FirstOwned(t, u, now)
  BY <1>1, <1>4, RowAfter DEF After
<1>5. CASE \E u \in Staff : Reowned(t, u)
  BY <1>0, <1>1, <1>5, RowAfter DEF Reowned, After
<1>6. CASE \E kind \in {"comment", "internal_comment"} : FirstFollowedUp(t, kind)
  BY <1>0, <1>6, RowAfter DEF FirstFollowedUp, After
<1>7. CASE \E kind \in {"comment", "internal_comment"} : FollowedUp(t, kind)
  BY <1>0, <1>7, RowAfter DEF After
<1>8. CASE \E from \in {"assigned", "processing"}, now \in Nat : Completed(t, from, now)
  BY <1>0, <1>8, RowAfter DEF Completed, After
<1>9. CASE \E q \in Request : q.op = "edit" /\ Edited(t, q)
  BY <1>0, <1>9, RestampedFacts DEF Edited, TypeOK
<1>10. CASE \E a \in Amounts \union {None} : Compensated(t, a)
  BY <1>0, <1>10, RowAfter DEF After
<1>11. CASE \E now \in Nat : Deleted(t, now)
  BY <1>0, <1>11, RowAfter DEF After
<1>12. QED
  BY <1>2, <1>3, <1>4, <1>5, <1>6, <1>7, <1>8, <1>9, <1>10, <1>11 DEF TicketStep

\* Completion is claimed at most once an assignment.
LEMMA CompletionsStep ==
  ASSUME TypeOK, CompletionsAreClaimed, NEW t \in Tickets, TicketStep(t)
  PROVE  /\ entries'[t]["to_completed"] + (IF row'[t].status \in {"assigned", "processing"} THEN 1 ELSE 0)
              <= entries'[t]["to_assigned"]
         /\ entries'[t]["resolve"] = entries'[t]["to_completed"]
         /\ row'[t].status = "completed" => entries'[t]["resolve"] > 0
<1>0. /\ entries[t]["to_completed"] + (IF row[t].status \in {"assigned", "processing"} THEN 1 ELSE 0)
           <= entries[t]["to_assigned"]
      /\ entries[t]["resolve"] = entries[t]["to_completed"]
      /\ row[t].status = "completed" => entries[t]["resolve"] > 0
      /\ entries[t]["to_completed"] \in Nat /\ entries[t]["to_assigned"] \in Nat
  BY DEF CompletionsAreClaimed, TypeOK, LogKind
<1>2. CASE Same(t)
  BY <1>0, LogAfter, <1>2 DEF More, Same
<1>3. CASE \E p \in Policies \union {None} : Opened(t, p)
  BY <1>0, LogAfter, RowAfter, Guards, <1>3 DEF More, After
<1>4. CASE \E u \in Staff, now \in Nat : FirstOwned(t, u, now)
  BY <1>0, LogAfter, RowAfter, Guards, <1>4 DEF More, After
<1>5. CASE \E u \in Staff : Reowned(t, u)
  BY <1>0, LogAfter, RowAfter, Guards, <1>5 DEF More, After
<1>6. CASE \E kind \in {"comment", "internal_comment"} : FirstFollowedUp(t, kind)
  BY <1>0, LogAfter, RowAfter, Guards, <1>6 DEF More, After
<1>7. CASE \E kind \in {"comment", "internal_comment"} : FollowedUp(t, kind)
  BY <1>0, LogAfter, RowAfter, Guards, <1>7 DEF More, After
<1>8. CASE \E from \in {"assigned", "processing"}, now \in Nat : Completed(t, from, now)
  BY <1>0, LogAfter, RowAfter, Guards, <1>8 DEF More, After
<1>9. CASE \E q \in Request : q.op = "edit" /\ Edited(t, q)
  BY <1>0, LogAfter, Guards, <1>9 DEF More
<1>10. CASE \E a \in Amounts \union {None} : Compensated(t, a)
  BY <1>0, LogAfter, RowAfter, Guards, <1>10 DEF More, After
<1>11. CASE \E now \in Nat : Deleted(t, now)
  BY <1>0, LogAfter, RowAfter, Guards, <1>11 DEF More, After
<1>12. QED
  BY <1>2, <1>3, <1>4, <1>5, <1>6, <1>7, <1>8, <1>9, <1>10, <1>11 DEF TicketStep

\* Every follow-up is counted and logged together.
LEMMA ContactsStep ==
  ASSUME TypeOK, UnownedIffUnassigned, ContactCountIsTimeline, NEW t \in Tickets, TicketStep(t)
  PROVE  /\ row'[t].contactCount = entries'[t]["comment"] + entries'[t]["internal_comment"]
         /\ row'[t].status = "absent" => row'[t].contactCount = 0
<1>0. /\ row[t].contactCount = entries[t]["comment"] + entries[t]["internal_comment"]
      /\ row[t].status = "absent" => row[t].contactCount = 0
      /\ row[t].contactCount \in Nat
  BY DEF ContactCountIsTimeline, TypeOK, Row
<1>1. (row[t].assignee = None) <=> (row[t].status \in {"absent", "unassigned"})
  BY DEF UnownedIffUnassigned
<1>2. CASE Same(t)
  BY <1>0, <1>1, LogAfter, <1>2 DEF More, Same
<1>3. CASE \E p \in Policies \union {None} : Opened(t, p)
  BY <1>0, <1>1, LogAfter, RowAfter, Guards, <1>3 DEF More, After
<1>4. CASE \E u \in Staff, now \in Nat : FirstOwned(t, u, now)
  BY <1>0, <1>1, LogAfter, RowAfter, Guards, <1>4 DEF More, After
<1>5. CASE \E u \in Staff : Reowned(t, u)
  BY <1>0, <1>1, LogAfter, RowAfter, Guards, <1>5 DEF More, After
<1>6. CASE \E kind \in {"comment", "internal_comment"} : FirstFollowedUp(t, kind)
  BY <1>0, <1>1, LogAfter, RowAfter, Guards, <1>6 DEF More, After
<1>7. CASE \E kind \in {"comment", "internal_comment"} : FollowedUp(t, kind)
  BY <1>0, <1>1, LogAfter, RowAfter, Guards, <1>7 DEF More, After
<1>8. CASE \E from \in {"assigned", "processing"}, now \in Nat : Completed(t, from, now)
  BY <1>0, <1>1, LogAfter, RowAfter, Guards, <1>8 DEF More, After
<1>9. CASE \E q \in Request : q.op = "edit" /\ Edited(t, q)
  BY <1>0, <1>1, LogAfter, Guards, <1>9 DEF More
<1>10. CASE \E a \in Amounts \union {None} : Compensated(t, a)
  BY <1>0, <1>1, LogAfter, RowAfter, Guards, <1>10 DEF More, After
<1>11. CASE \E now \in Nat : Deleted(t, now)
  BY <1>0, <1>1, LogAfter, RowAfter, Guards, <1>11 DEF More, After
<1>12. QED
  BY <1>2, <1>3, <1>4, <1>5, <1>6, <1>7, <1>8, <1>9, <1>10, <1>11 DEF TicketStep

\* dueAt is frozen only after a completion.
LEMMA DueStep ==
  ASSUME TypeOK, DueFollowsPolicy, NEW t \in Tickets, TicketStep(t)
  PROVE  entries'[t]["resolve"] = 0 => row'[t].due = row'[t].slaPolicy
<1>0. /\ entries[t]["resolve"] = 0 => row[t].due = row[t].slaPolicy
      /\ entries[t]["resolve"] \in Nat
  BY DEF DueFollowsPolicy, TypeOK, LogKind
<1>2. CASE Same(t)
  BY <1>0, LogAfter, <1>2 DEF More, Same
<1>3. CASE \E p \in Policies \union {None} : Opened(t, p)
  BY <1>0, LogAfter, RowAfter, Guards, <1>3 DEF More, After
<1>4. CASE \E u \in Staff, now \in Nat : FirstOwned(t, u, now)
  BY <1>0, LogAfter, RowAfter, Guards, <1>4 DEF More, After
<1>5. CASE \E u \in Staff : Reowned(t, u)
  BY <1>0, LogAfter, RowAfter, Guards, <1>5 DEF More, After
<1>6. CASE \E kind \in {"comment", "internal_comment"} : FirstFollowedUp(t, kind)
  BY <1>0, LogAfter, RowAfter, Guards, <1>6 DEF More, After
<1>7. CASE \E kind \in {"comment", "internal_comment"} : FollowedUp(t, kind)
  BY <1>0, LogAfter, RowAfter, Guards, <1>7 DEF More, After
<1>8. CASE \E from \in {"assigned", "processing"}, now \in Nat : Completed(t, from, now)
  BY <1>0, LogAfter, RowAfter, Guards, <1>8 DEF More, After
<1>9. CASE \E q \in Request : q.op = "edit" /\ Edited(t, q)
  BY <1>0, LogAfter, Guards, <1>9 DEF More
<1>10. CASE \E a \in Amounts \union {None} : Compensated(t, a)
  BY <1>0, LogAfter, RowAfter, Guards, <1>10 DEF More, After
<1>11. CASE \E now \in Nat : Deleted(t, now)
  BY <1>0, LogAfter, RowAfter, Guards, <1>11 DEF More, After
<1>12. QED
  BY <1>2, <1>3, <1>4, <1>5, <1>6, <1>7, <1>8, <1>9, <1>10, <1>11 DEF TicketStep

\* A completion adds the callback of the ticket to the outbox, nothing else does.
LEMMA OutboxAfter ==
  ASSUME TypeOK, NEW t \in Tickets, TicketStep(t)
  PROVE  \/ outbox'[t] = outbox[t] /\ entries'[t]["resolve"] = entries[t]["resolve"]
         \/ /\ outbox'[t] = outbox[t] \o CallbackFor(t)
            /\ entries'[t]["resolve"] = entries[t]["resolve"] + 1
<1>1. /\ entries[t]["resolve"] \in Nat
      /\ \A c, a, d : More(t, c, 0, a, d) => entries'[t]["resolve"] = entries[t]["resolve"]
      /\ \A c, a, d : More(t, c, 1, a, d) => entries'[t]["resolve"] = entries[t]["resolve"] + 1
  BY DEF TypeOK, LogKind, More
<1>2. /\ Same(t) => outbox'[t] = outbox[t]
      /\ \A p : Opened(t, p) => outbox'[t] = outbox[t]
      /\ \A u, now : FirstOwned(t, u, now) => outbox'[t] = outbox[t]
      /\ \A u : Reowned(t, u) => outbox'[t] = outbox[t]
      /\ \A kind : FirstFollowedUp(t, kind) \/ FollowedUp(t, kind) => outbox'[t] = outbox[t]
      /\ \A from, now : Completed(t, from, now) => outbox'[t] = outbox[t] \o CallbackFor(t)
      /\ \A q : Edited(t, q) => outbox'[t] = outbox[t]
      /\ \A a : Compensated(t, a) => outbox'[t] = outbox[t]
      /\ \A now : Deleted(t, now) => outbox'[t] = outbox[t]
  BY DEF Same, Opened, FirstOwned, Reowned, FirstFollowedUp, FollowedUp, Completed, Edited,
         Compensated, Deleted
<1>3. QED  BY <1>1, <1>2, LogAfter DEF TicketStep

LEMMA CallbackStep ==
  ASSUME TypeOK, CallbackPerCompletion, NEW t \in Tickets, TicketStep(t)
  PROVE  Len(outbox'[t]) = IF t \in RefundTickets THEN entries'[t]["resolve"] ELSE 0
<1>0. /\ Len(outbox[t]) = (IF t \in RefundTickets THEN entries[t]["resolve"] ELSE 0)
      /\ outbox[t] \in Seq(Amounts \union {None})
      /\ row[t].compensation \in Amounts \union {None}
  BY DEF CallbackPerCompletion, TypeOK, Row
<1>1. CASE t \in RefundTickets
  <2>1. CallbackFor(t) \in Seq(Amounts \union {None}) /\ Len(CallbackFor(t)) = 1
    BY <1>0, <1>1, OneElement DEF CallbackFor
  <2>2. Len(outbox[t] \o CallbackFor(t)) = Len(outbox[t]) + 1
    BY <1>0, <2>1, ConcatProperties
  <2>3. QED  BY <1>0, <1>1, <2>2, OutboxAfter
<1>2. CASE t \notin RefundTickets
  <2>1. outbox[t] \o CallbackFor(t) = outbox[t]
    <3>1. CallbackFor(t) = << >>
      BY <1>2 DEF CallbackFor
    <3>2. QED  BY <1>0, <3>1
  <2>2. QED  BY <1>0, <1>2, <2>1, OutboxAfter
<1>3. QED  BY <1>1, <1>2

\* The status changes that a step logs.
Flows(t, assigned, processing, direct, completed) ==
  /\ entries'[t]["to_assigned"] = entries[t]["to_assigned"] + assigned
  /\ entries'[t]["to_processing"] = entries[t]["to_processing"] + processing
  /\ entries'[t]["completed_directly"] = entries[t]["completed_directly"] + direct
  /\ entries'[t]["to_completed"] = entries[t]["to_completed"] + completed

LEMMA FlowsLogged ==
  ASSUME TypeOK, NEW t \in Tickets
  PROVE  /\ \A k \in {"create", "assign", "edit", "comment", "internal_comment"} :
              entries'[t] = Logged(t, {k}) => Flows(t, 0, 0, 0, 0)
         /\ entries'[t] = Logged(t, {"assign", "to_assigned"}) => Flows(t, 1, 0, 0, 0)
         /\ \A k \in {"comment", "internal_comment"} :
              entries'[t] = Logged(t, {k, "to_processing"}) => Flows(t, 0, 1, 0, 0)
         /\ entries'[t] = Logged(t, {"resolve", "to_completed"}) => Flows(t, 0, 0, 0, 1)
         /\ entries'[t] = Logged(t, {"resolve", "to_completed", "completed_directly"}) =>
              Flows(t, 0, 0, 1, 1)
         /\ entries'[t] = entries[t] => Flows(t, 0, 0, 0, 0)
<1>0. \A k \in LogKind : entries[t][k] \in Nat
  BY DEF TypeOK
<1>1. ASSUME NEW k \in {"create", "assign", "edit", "comment", "internal_comment"},
             entries'[t] = Logged(t, {k})
      PROVE  Flows(t, 0, 0, 0, 0)
  BY <1>0, <1>1 DEF Logged, LogKind, Flows
<1>2. ASSUME entries'[t] = Logged(t, {"assign", "to_assigned"})
      PROVE  Flows(t, 1, 0, 0, 0)
  BY <1>0, <1>2 DEF Logged, LogKind, Flows
<1>3. ASSUME NEW k \in {"comment", "internal_comment"},
             entries'[t] = Logged(t, {k, "to_processing"})
      PROVE  Flows(t, 0, 1, 0, 0)
  BY <1>0, <1>3 DEF Logged, LogKind, Flows
<1>4. ASSUME entries'[t] = Logged(t, {"resolve", "to_completed"})
      PROVE  Flows(t, 0, 0, 0, 1)
  BY <1>0, <1>4 DEF Logged, LogKind, Flows
<1>5. ASSUME entries'[t] = Logged(t, {"resolve", "to_completed", "completed_directly"})
      PROVE  Flows(t, 0, 0, 1, 1)
  BY <1>0, <1>5 DEF Logged, LogKind, Flows
<1>6. ASSUME entries'[t] = entries[t]
      PROVE  Flows(t, 0, 0, 0, 0)
  BY <1>0, <1>6 DEF LogKind, Flows
<1>7. QED  BY <1>1, <1>2, <1>3, <1>4, <1>5, <1>6

\* Each kind of TicketStep, with the status changes it logs.
LEMMA FlowAfter ==
  ASSUME TypeOK, NEW t \in Tickets
  PROVE  /\ Same(t) => Flows(t, 0, 0, 0, 0)
         /\ \A p : Opened(t, p) => Flows(t, 0, 0, 0, 0)
         /\ \A u, now : FirstOwned(t, u, now) => Flows(t, 1, 0, 0, 0)
         /\ \A u : Reowned(t, u) => Flows(t, 0, 0, 0, 0)
         /\ \A kind \in {"comment", "internal_comment"} :
              /\ FirstFollowedUp(t, kind) => Flows(t, 0, 1, 0, 0)
              /\ FollowedUp(t, kind) => Flows(t, 0, 0, 0, 0)
         /\ \A from, now : Completed(t, from, now) =>
              Flows(t, 0, 0, IF from = "assigned" THEN 1 ELSE 0, 1)
         /\ \A q : Edited(t, q) => Flows(t, 0, 0, 0, 0)
         /\ \A a : Compensated(t, a) => Flows(t, 0, 0, 0, 0)
         /\ \A now : Deleted(t, now) => Flows(t, 0, 0, 0, 0)
  BY FlowsLogged DEF Same, Opened, FirstOwned, Reowned, FirstFollowedUp, FollowedUp, Completed,
                     Edited, Compensated, Deleted

\* The status changes of a timeline balance, with the status the row has.
Balances(n, status) ==
  /\ n["to_processing"] + n["completed_directly"] + (IF status = "assigned" THEN 1 ELSE 0)
       <= n["to_assigned"]
  /\ n["to_completed"] + (IF status = "processing" THEN 1 ELSE 0)
       <= n["to_processing"] + n["completed_directly"]

\* A claim leaves the status it logs as left, and only a row in it.
LEMMA FlowStep ==
  ASSUME TypeOK, StatusFlowBalances, NEW t \in Tickets, TicketStep(t)
  PROVE  Balances(entries'[t], row'[t].status)
<1>0. /\ Balances(entries[t], row[t].status)
      /\ \A k \in LogKind : entries[t][k] \in Nat
  BY DEF StatusFlowBalances, Balances, TypeOK
<1>1. /\ entries[t]["to_assigned"] \in Nat /\ entries[t]["to_processing"] \in Nat
      /\ entries[t]["to_completed"] \in Nat /\ entries[t]["completed_directly"] \in Nat
  BY <1>0 DEF LogKind
<1>2. CASE Same(t)
  BY <1>0, <1>2 DEF Same
<1>3. CASE \E p \in Policies \union {None} : Opened(t, p)
  BY <1>0, <1>1, FlowAfter, RowAfter, Guards, <1>3 DEF Flows, After, Balances
<1>4. CASE \E u \in Staff, now \in Nat : FirstOwned(t, u, now)
  BY <1>0, <1>1, FlowAfter, RowAfter, Guards, <1>4 DEF Flows, After, Balances
<1>5. CASE \E u \in Staff : Reowned(t, u)
  BY <1>0, <1>1, FlowAfter, RowAfter, Guards, <1>5 DEF Flows, After, Balances
<1>6. CASE \E kind \in {"comment", "internal_comment"} : FirstFollowedUp(t, kind)
  BY <1>0, <1>1, FlowAfter, RowAfter, Guards, <1>6 DEF Flows, After, Balances
<1>7. CASE \E kind \in {"comment", "internal_comment"} : FollowedUp(t, kind)
  BY <1>0, <1>1, FlowAfter, RowAfter, Guards, <1>7 DEF Flows, After, Balances
<1>8. CASE \E from \in {"assigned", "processing"}, now \in Nat : Completed(t, from, now)
  BY <1>0, <1>1, FlowAfter, RowAfter, Guards, <1>8 DEF Flows, After, Balances
<1>9. CASE \E q \in Request : q.op = "edit" /\ Edited(t, q)
  BY <1>0, <1>1, FlowAfter, Guards, <1>9 DEF Flows, Balances
<1>10. CASE \E a \in Amounts \union {None} : Compensated(t, a)
  BY <1>0, <1>1, FlowAfter, RowAfter, Guards, <1>10 DEF Flows, After, Balances
<1>11. CASE \E now \in Nat : Deleted(t, now)
  BY <1>0, <1>1, FlowAfter, RowAfter, Guards, <1>11 DEF Flows, After, Balances
<1>12. QED
  BY <1>2, <1>3, <1>4, <1>5, <1>6, <1>7, <1>8, <1>9, <1>10, <1>11 DEF TicketStep

\* A ticket's notifications of its owners only grow, and a new owner is told.
LEMMA OwnerTold ==
  ASSUME TypeOK, NotesReachThoseConcerned, NEW t \in Tickets, TicketStep(t)
  PROVE  row'[t].assignee # None => <<"assigned", row'[t].assignee>> \in notified'[t]
<1>0. /\ row[t].assignee # None => <<"assigned", row[t].assignee>> \in notified[t]
      /\ row[t].assignee \in Staff \union {None} /\ None \notin Staff
  BY ConstantsAssumption DEF NotesReachThoseConcerned, TypeOK, Row
<1>1. \A u \in Staff : <<"assigned", u>> \in notified[t] => <<"assigned", u>> \in notified'[t]
  BY DEF TicketStep, Same, Opened, FirstOwned, Reowned, FirstFollowedUp, FollowedUp, Completed,
         Edited, Compensated, Deleted
<1>2. CASE \E u \in Staff, now \in Nat : FirstOwned(t, u, now)
  <2>1. PICK u \in Staff, now \in Nat : FirstOwned(t, u, now)
    BY <1>2
  <2>2. row'[t].assignee = u
    BY <2>1, RowAfter DEF After
  <2>3. <<"assigned", u>> \in notified'[t]
    BY <2>1 DEF FirstOwned
  <2>4. QED  BY <2>2, <2>3
<1>3. CASE \E u \in Staff : Reowned(t, u)
  <2>1. PICK u \in Staff : Reowned(t, u)
    BY <1>3
  <2>2. row'[t].assignee = u
    BY <2>1, RowAfter DEF After
  <2>3. <<"assigned", u>> \in notified'[t]
    BY <2>1 DEF Reowned
  <2>4. QED  BY <2>2, <2>3
<1>4. CASE \E p \in Policies \union {None} : Opened(t, p)
  BY <1>4, RowAfter DEF After
<1>5. CASE row'[t].assignee = row[t].assignee
  BY <1>0, <1>1, <1>5
<1>6. QED
  BY <1>2, <1>3, <1>4, <1>5, RowAfter, Guards DEF TicketStep, Same, After

-----------------------------------------------------------------------------
(* What the submitter of a ticket hears: a note about an owner is of       *)
(* another type, and the other two are raised with the entry they tell of. *)

Hears(t) ==
  /\ <<"external_reply", Submitter>> \in notified'[t] <=>
       \/ <<"external_reply", Submitter>> \in notified[t]
       \/ t \in ExternalTickets /\ entries'[t]["comment"] # entries[t]["comment"]
  /\ <<"external_resolved", Submitter>> \in notified'[t] <=>
       \/ <<"external_resolved", Submitter>> \in notified[t]
       \/ t \in ExternalTickets /\ entries'[t]["resolve"] # entries[t]["resolve"]
  /\ entries'[t]["comment"] \in {entries[t]["comment"], entries[t]["comment"] + 1}
  /\ entries'[t]["resolve"] \in {entries[t]["resolve"], entries[t]["resolve"] + 1}

LEMMA AssignHears ==
  ASSUME TypeOK, NEW x \in Txs, WriteAssign(x), NEW t \in Tickets
  PROVE  Hears(t)
<1> DEFINE q == tx[x]
<1>1. PICK K : K = {"assign"} \union (IF t \in q.first THEN {"to_assigned"} ELSE {})
  OBVIOUS
<1>2. entries'[t] = entries[t] \/ entries'[t] = Logged(t, K)
  BY <1>1 DEF WriteAssign
<1>3. "comment" \notin K /\ "resolve" \notin K
  BY <1>1
<1>4. /\ entries'[t]["comment"] = entries[t]["comment"]
      /\ entries'[t]["resolve"] = entries[t]["resolve"]
  BY <1>2, <1>3, LoggedAt DEF LogKind
<1>5. \A type \in {"external_reply", "external_resolved"} :
        <<type, Submitter>> \in notified'[t] <=> <<type, Submitter>> \in notified[t]
  BY DEF WriteAssign
<1>6. QED  BY <1>4, <1>5 DEF Hears

LEMMA CommentHears ==
  ASSUME TypeOK, NEW x \in Txs, WriteComment(x), NEW t \in Tickets, t = tx[x].ticket
  PROVE  Hears(t)
<1> DEFINE q == tx[x]
           K == {IF q.internalOnly THEN "internal_comment" ELSE "comment"}
                  \union (IF ClaimsFirstFollowUp(t, q.read) THEN {"to_processing"} ELSE {})
<1>1. entries'[t] = Logged(t, K)
  BY DEF WriteComment, TypeOK
<1>2. notified'[t] =
        notified[t] \union (IF q.internalOnly THEN {} ELSE ToSubmitter(t, "external_reply"))
  BY DEF WriteComment, TypeOK
<1>3. entries'[t]["resolve"] = entries[t]["resolve"] /\ entries[t]["comment"] \in Nat
  <2>1. "resolve" \notin K
    OBVIOUS
  <2>2. QED  BY <1>1, <2>1, LoggedAt DEF LogKind
<1>4. CASE q.internalOnly
  <2>1. "comment" \notin K
    BY <1>4
  <2>2. entries'[t]["comment"] = entries[t]["comment"]
    BY <1>1, <2>1, LoggedAt DEF LogKind
  <2>3. QED  BY <1>2, <1>3, <1>4, <2>2 DEF Hears
<1>5. CASE ~q.internalOnly
  <2>1. "comment" \in K
    BY <1>5
  <2>2. entries'[t]["comment"] = entries[t]["comment"] + 1
    BY <1>1, <2>1, LoggedAt DEF LogKind
  <2>3. entries'[t]["comment"] # entries[t]["comment"]
    BY <1>3, <2>2
  <2>4. QED  BY <1>2, <1>3, <1>5, <2>2, <2>3 DEF Hears, ToSubmitter
<1>6. QED  BY <1>4, <1>5

LEMMA ResolveHears ==
  ASSUME TypeOK, NEW x \in Txs, WriteResolve(x), NEW t \in Tickets, t = tx[x].ticket
  PROVE  Hears(t)
<1> DEFINE K == {"resolve", "to_completed"}
                  \union (IF tx[x].from = "assigned" THEN {"completed_directly"} ELSE {})
<1>1. entries'[t] = Logged(t, K)
  BY DEF WriteResolve, TypeOK
<1>2. /\ entries'[t]["resolve"] = entries[t]["resolve"] + 1
      /\ entries'[t]["comment"] = entries[t]["comment"] /\ entries[t]["resolve"] \in Nat
  <2>1. "resolve" \in K /\ "comment" \notin K
    OBVIOUS
  <2>2. QED  BY <1>1, <2>1, LoggedAt DEF LogKind
<1>3. entries'[t]["resolve"] # entries[t]["resolve"]
  BY <1>2
<1>4. notified'[t] = notified[t] \union ToSubmitter(t, "external_resolved")
  BY DEF WriteResolve, TypeOK
<1>5. QED  BY <1>2, <1>3, <1>4 DEF Hears, ToSubmitter

LEMMA EveryStepHears ==
  ASSUME TypeOK, [Next]_vars, NEW t \in Tickets
  PROVE  Hears(t)
<1>1. ASSUME entries'[t] \in {entries[t], Logged(t, {"create"}), Logged(t, {"edit"})},
             notified'[t] = notified[t]
      PROVE  Hears(t)
  <2>1. /\ entries'[t]["comment"] = entries[t]["comment"]
        /\ entries'[t]["resolve"] = entries[t]["resolve"]
    BY <1>1, LoggedAt DEF LogKind
  <2>2. QED  BY <1>1, <2>1 DEF Hears
<1>2. ASSUME NEW s \in Tickets, NEW p \in Policies \union {None}, CreateTicket(s, p)
      PROVE  Hears(t)
  BY <1>1, <1>2 DEF CreateTicket, TypeOK
<1>3. ASSUME NEW x \in Txs, Begin(x) \/ Abort(x) \/ ResolveFallsBack(x)
      PROVE  Hears(t)
  BY <1>1, <1>3 DEF Begin, BeginAssign, BeginAutoAssign, BeginComment, BeginResolve, BeginEdit,
                    BeginCompensation, BeginDelete, Start, Abort, ResolveFallsBack
<1>4. ASSUME NEW x \in Txs, WriteComment(x)
      PROVE  Hears(t)
  BY <1>1, <1>4, CommentHears DEF WriteComment, TypeOK
<1>5. ASSUME NEW x \in Txs, WriteResolve(x)
      PROVE  Hears(t)
  BY <1>1, <1>5, ResolveHears DEF WriteResolve, TypeOK
<1>6. ASSUME NEW x \in Txs, WriteEdit(x) \/ WriteCompensation(x) \/ WriteDelete(x)
      PROVE  Hears(t)
  BY <1>1, <1>6 DEF WriteEdit, WriteCompensation, WriteDelete, TypeOK
<1>7. CASE UNCHANGED vars
  BY <1>1, <1>7 DEF vars
<1>8. QED
  BY <1>2, <1>3, <1>4, <1>5, <1>6, <1>7, AssignHears DEF Next, Write

LEMMA NotesStep ==
  ASSUME TypeOK, NotesReachThoseConcerned, [Next]_vars, \A t \in Tickets : TicketStep(t)
  PROVE  NotesReachThoseConcerned'
<1>1. \A t \in Tickets :
        Hears(t) /\ entries[t]["comment"] \in Nat /\ entries[t]["resolve"] \in Nat
  BY EveryStepHears DEF TypeOK, LogKind
<1>2. ASSUME NEW t \in Tickets
      PROVE  row'[t].assignee # None => <<"assigned", row'[t].assignee>> \in notified'[t]
  BY OwnerTold
<1>3. \A t \in Tickets :
        /\ <<"external_reply", Submitter>> \in notified'[t]
             <=> t \in ExternalTickets /\ entries'[t]["comment"] > 0
        /\ <<"external_resolved", Submitter>> \in notified'[t]
             <=> t \in ExternalTickets /\ entries'[t]["resolve"] > 0
  <2>1. \A t \in Tickets :
          /\ <<"external_reply", Submitter>> \in notified[t]
               <=> t \in ExternalTickets /\ entries[t]["comment"] > 0
          /\ <<"external_resolved", Submitter>> \in notified[t]
               <=> t \in ExternalTickets /\ entries[t]["resolve"] > 0
    BY DEF NotesReachThoseConcerned
  <2>2. QED  BY <1>1, <2>1 DEF Hears
<1>4. QED  BY <1>2, <1>3 DEF NotesReachThoseConcerned

-----------------------------------------------------------------------------
(* What was read keeps holding: rows only move away from "absent" and      *)
(* "unassigned", owners are replaced but never removed, logs only grow.    *)

Grows(t) ==
  /\ row[t].status # "absent" => row'[t].status # "absent"
  /\ row[t].assignee # None => row'[t].assignee # None
  /\ row[t].status \notin {"absent", "unassigned"} =>
       row'[t].status \notin {"absent", "unassigned"}
  /\ entries[t]["resolve"] > 0 => entries'[t]["resolve"] > 0

LEMMA RowsGrow ==
  ASSUME TypeOK, UnownedIffUnassigned, NEW t \in Tickets, TicketStep(t)
  PROVE  Grows(t)
<1>1. /\ (row[t].assignee = None) <=> (row[t].status \in {"absent", "unassigned"})
      /\ (row'[t].assignee = None) <=> (row'[t].status \in {"absent", "unassigned"})
  BY UnownedStep DEF UnownedIffUnassigned
<1>2. entries[t]["resolve"] > 0 => entries'[t]["resolve"] > 0
  <2>1. entries[t]["resolve"] \in Nat
    BY DEF TypeOK, LogKind
  <2>2. QED  BY <2>1, OutboxAfter
<1>3. row[t].status \notin {"absent", "unassigned"} =>
        row'[t].status \notin {"absent", "unassigned"}
  BY <1>1, RowAfter, Guards DEF TicketStep, After, Same
<1>4. row[t].status # "absent" => row'[t].status # "absent"
  BY <1>1, RowAfter, Guards DEF TicketStep, After, Same
<1>5. QED  BY <1>1, <1>2, <1>3, <1>4 DEF Grows

LEMMA BlankStep ==
  ASSUME TypeOK, UnownedIffUnassigned, AbsentIsBlank, NEW t \in Tickets, TicketStep(t)
  PROVE  row'[t].status = "absent" => row'[t] = NoRow
<1> SUFFICES ASSUME row'[t].status = "absent"
             PROVE  row'[t] = NoRow
  OBVIOUS
<1>1. row[t].status = "absent" /\ row[t] = NoRow /\ row[t].assignee = None
  BY RowsGrow DEF Grows, AbsentIsBlank, NoRow
<1>2. Same(t)
  BY <1>1, RowAfter, Guards DEF TicketStep, After, FirstOwned, Edited, Compensated, Deleted
<1>3. QED  BY <1>1, <1>2 DEF Same

\* What one request relies on.
Relies(q) ==
  /\ q.op = "assign" =>
       \A t \in DOMAIN q.plan :
         row[t].status # "absent" /\ (t \notin q.first => row[t].assignee # None)
  /\ q.op = "comment" => q.read \in {"assigned", "processing"}
  /\ q.op = "resolve" => q.from \in {"assigned", "processing"}
  /\ q.op \in {"comment", "resolve"} => row[q.ticket].status \notin {"absent", "unassigned"}
  /\ q.op \in {"edit", "compensation", "delete"} => row[q.ticket].status # "absent"
  /\ q.op = "edit" /\ q.frozen => entries[q.ticket]["resolve"] > 0

LEMMA ReliesStep ==
  ASSUME NEW q \in Request, Relies(q), \A t \in Tickets : Grows(t)
  PROVE  Relies(q)'
<1>1. ASSUME q.op = "assign", NEW t \in DOMAIN q.plan
      PROVE  row'[t].status # "absent" /\ (t \notin q.first => row'[t].assignee # None)
  <2>1. t \in Tickets
    <3>1. PICK S \in SUBSET Tickets : q.plan \in [S -> Staff]
      BY <1>1, RequestKinds
    <3>2. QED  BY <1>1, <3>1
  <2>2. row[t].status # "absent" /\ (t \notin q.first => row[t].assignee # None)
    BY <1>1 DEF Relies
  <2>3. QED  BY <2>1, <2>2 DEF Grows
<1>2. ASSUME q.op \in {"comment", "resolve"}
      PROVE  /\ q.op = "comment" => q.read \in {"assigned", "processing"}
             /\ q.op = "resolve" => q.from \in {"assigned", "processing"}
             /\ row'[q.ticket].status \notin {"absent", "unassigned"}
  <2>1. q.ticket \in Tickets
    BY <1>2, RequestKinds
  <2>2. QED  BY <1>2, <2>1 DEF Relies, Grows
<1>3. ASSUME q.op \in {"edit", "compensation", "delete"}
      PROVE  /\ row'[q.ticket].status # "absent"
             /\ q.op = "edit" /\ q.frozen => entries'[q.ticket]["resolve"] > 0
  <2>1. q.ticket \in Tickets
    BY <1>3, RequestKinds, ConstantsAssumption
  <2>2. QED  BY <1>3, <2>1 DEF Relies, Grows
<1>4. QED  BY <1>1, <1>2, <1>3 DEF Relies

\* Starting a request establishes what it relies on.
LEMMA BeginRelies ==
  ASSUME TypeOK, UnownedIffUnassigned, CompletionsAreClaimed, NEW x \in Txs, Begin(x)
  PROVE  \E q \in Request : Start(x, q) /\ Relies(q)
<1>0. /\ \A t \in Tickets : row[t] \in Row
      /\ clock \in Nat
  BY DEF TypeOK
<1>1. ASSUME NEW S \in SUBSET Tickets, NEW u \in Staff, BeginAssign(x, S, u)
      PROVE  \E q \in Request : Start(x, q) /\ Relies(q)
  <2> DEFINE todo == {t \in S : row[t].assignee # u}
             first == {t \in todo : row[t].assignee = None}
             q == [op |-> "assign", plan |-> [t \in todo |-> u], first |-> first, now |-> clock]
  <2>1. todo \in SUBSET Tickets /\ first \in SUBSET Tickets
    OBVIOUS
  <2>2. [t \in todo |-> u] \in UNION {[T -> Staff] : T \in SUBSET Tickets}
    <3> HIDE DEF todo
    <3>1. [t \in todo |-> u] \in [todo -> Staff]
      OBVIOUS
    <3>2. QED  BY <2>1, <3>1
  <2>3. q \in Request
    BY <1>0, <2>1, <2>2 DEF Request
  <2>4. Start(x, q)
    BY <1>1 DEF BeginAssign
  <2>5. \A t \in todo : row[t].status # "absent"
    BY <1>1 DEF BeginAssign, Visible
  <2>6. Relies(q)
    BY <2>5 DEF Relies
  <2>7. QED  BY <2>3, <2>4, <2>6
<1>2. ASSUME NEW S \in SUBSET Tickets, NEW plan \in [S -> Staff], BeginAutoAssign(x, plan)
      PROVE  \E q \in Request : Start(x, q) /\ Relies(q)
  <2> DEFINE q == [op |-> "assign", plan |-> plan, first |-> DOMAIN plan, now |-> clock]
  <2>1. plan \in UNION {[T -> Staff] : T \in SUBSET Tickets} /\ DOMAIN plan \in SUBSET Tickets
    OBVIOUS
  <2>2. q \in Request
    BY <1>0, <2>1 DEF Request
  <2>3. Relies(q)
    BY <1>2 DEF BeginAutoAssign, Visible, Relies
  <2>4. QED  BY <1>2, <2>2, <2>3 DEF BeginAutoAssign
<1>3. ASSUME NEW t \in Tickets, NEW b \in BOOLEAN, BeginComment(x, t, b)
      PROVE  \E q \in Request : Start(x, q) /\ Relies(q)
  <2> DEFINE q == [op |-> "comment", ticket |-> t, read |-> row[t].status,
                   internalOnly |-> b, now |-> clock]
  <2>1. row[t].status \in Status
    BY <1>0 DEF Row
  <2>2. q \in Request
    BY <1>0, <2>1 DEF Request
  <2>3. row[t].status \in {"assigned", "processing"}
    BY <1>3, <2>1 DEF BeginComment, Visible, Status
  <2>4. QED  BY <1>3, <2>2, <2>3 DEF BeginComment, Relies
<1>4. ASSUME NEW t \in Tickets, BeginResolve(x, t)
      PROVE  \E q \in Request : Start(x, q) /\ Relies(q)
  <2> DEFINE q == [op |-> "resolve", ticket |-> t, from |-> row[t].status, now |-> clock]
  <2>1. row[t].status \in Status
    BY <1>0 DEF Row
  <2>2. q \in Request
    BY <1>0, <2>1 DEF Request
  <2>3. row[t].status \in {"assigned", "processing"}
    BY <1>4, <2>1 DEF BeginResolve, Visible, Status
  <2>4. QED  BY <1>4, <2>2, <2>3 DEF BeginResolve, Relies
<1>5. ASSUME NEW t \in Tickets, NEW p \in Policies \union {None}, NEW b \in BOOLEAN,
             BeginEdit(x, t, p, b)
      PROVE  \E q \in Request : Start(x, q) /\ Relies(q)
  <2> DEFINE q == [op |-> "edit", ticket |-> t, slaChanged |-> (p # row[t].slaPolicy),
                   policy |-> p, frozen |-> (row[t].status = "completed"), now |-> clock]
  <2>1. q \in Request
    BY <1>0 DEF Request
  <2>2. Start(x, q) /\ row[t].status # "absent"
    BY <1>5 DEF BeginEdit, Visible
  <2>3. row[t].status = "completed" => entries[t]["resolve"] > 0
    BY DEF CompletionsAreClaimed
  <2>4. QED  BY <2>1, <2>2, <2>3 DEF Relies
<1>6. ASSUME NEW t \in Tickets, NEW a \in Amounts \union {None}, BeginCompensation(x, t, a)
      PROVE  \E q \in Request : Start(x, q) /\ Relies(q)
  <2> DEFINE q == [op |-> "compensation", ticket |-> t, amount |-> a, now |-> clock]
  <2>1. q \in Request
    BY <1>0, <1>6 DEF Request, BeginCompensation
  <2>2. QED  BY <1>6, <2>1 DEF BeginCompensation, Visible, Relies
<1>7. ASSUME NEW t \in Tickets, BeginDelete(x, t)
      PROVE  \E q \in Request : Start(x, q) /\ Relies(q)
  <2> DEFINE q == [op |-> "delete", ticket |-> t, now |-> clock]
  <2>1. q \in Request
    BY <1>0 DEF Request
  <2>2. QED  BY <1>7, <2>1 DEF BeginDelete, Visible, Relies
<1>8. QED  BY <1>1, <1>2, <1>3, <1>4, <1>5, <1>6, <1>7 DEF Begin

LEMMA ReadsStep ==
  ASSUME TypeOK, UnownedIffUnassigned, CompletionsAreClaimed, ReadsStillHold, [Next]_vars,
         \A t \in Tickets : Grows(t)
  PROVE  ReadsStillHold'
<1> DEFINE Kept(y) == tx'[y] = tx[y] \/ tx'[y] = Idle
<1>0. /\ \A y \in Txs : tx[y] \in Request /\ Relies(tx[y])
      /\ tx \in [Txs -> Request]
  BY DEF ReadsStillHold, Relies, TypeOK
<1>1. ASSUME NEW y \in Txs, Kept(y)
      PROVE  Relies(tx[y])' 
  <2>1. CASE tx'[y] = tx[y]
    <3>1. PICK q \in Request : q = tx[y]
      BY <1>0
    <3>2. Relies(q)'
      BY <1>0, <3>1, ReliesStep
    <3>3. QED  BY <2>1, <3>1, <3>2 DEF Relies
  <2>2. CASE tx'[y] = Idle
    BY <2>2 DEF Relies, Idle
  <2>3. QED  BY <1>1, <2>1, <2>2
<1>2. ASSUME NEW x \in Txs, Begin(x)
      PROVE  \A y \in Txs : Relies(tx[y])'
  <2>1. PICK q \in Request : Start(x, q) /\ Relies(q)
    BY <1>2, BeginRelies
  <2>2. Relies(q)'
    BY <2>1, ReliesStep
  <2>3. tx'[x] = q /\ \A y \in Txs \ {x} : Kept(y)
    BY <1>0, <2>1 DEF Start
  <2>4. Relies(tx[x])'
    BY <2>2, <2>3 DEF Relies
  <2>5. QED  BY <1>1, <2>3, <2>4
<1>3. ASSUME NEW x \in Txs, Finish(x)
      PROVE  \A y \in Txs : Relies(tx[y])'
  <2>1. \A y \in Txs : Kept(y)
    BY <1>0, <1>3 DEF Finish
  <2>2. QED  BY <1>1, <2>1
<1>4. CASE UNCHANGED tx
  <2>1. \A y \in Txs : Kept(y)
    BY <1>4
  <2>2. QED  BY <1>1, <2>1 DEF ReadsStillHold, Relies
<1>5. ASSUME NEW x \in Txs, ResolveFallsBack(x)
      PROVE  \A y \in Txs : Relies(tx[y])'
  <2>1. tx[x].op = "resolve" /\ Relies(tx[x]) /\ row' = row
    BY <1>0, <1>5 DEF ResolveFallsBack
  <2>2. \A y \in Txs \ {x} : Kept(y)
    BY <1>0, <1>5 DEF ResolveFallsBack
  <2>3. tx[x] \in [op : {"resolve"}, ticket : Tickets, from : Status, now : Nat]
    BY <1>0, <2>1, RequestKinds
  <2>4. /\ tx'[x].op = "resolve" /\ tx'[x].from = "processing"
        /\ tx'[x].ticket = tx[x].ticket
    BY <1>0, <1>5, <2>3 DEF ResolveFallsBack
  <2>5. Relies(tx[x])'
    BY <2>1, <2>4 DEF Relies
  <2>6. QED  BY <1>1, <2>2, <2>5
<1>6. ASSUME NEW x \in Txs, Write(x) \/ Abort(x)
      PROVE  Finish(x)
  BY <1>6 DEF Write, Abort, WriteAssign, WriteComment, WriteResolve, WriteEdit,
              WriteCompensation, WriteDelete
<1>7. CASE Next
  <2>1. CASE \E t \in Tickets, p \in Policies \union {None} : CreateTicket(t, p)
    BY <1>4, <2>1 DEF CreateTicket
  <2>2. CASE \E x \in Txs : Begin(x) \/ ResolveFallsBack(x) \/ Write(x) \/ Abort(x)
    BY <1>2, <1>3, <1>6, <1>5, <2>2 DEF ReadsStillHold, Relies
  <2>3. QED  BY <1>7, <2>1, <2>2 DEF Next
<1>8. QED  BY <1>4, <1>7 DEF vars

-----------------------------------------------------------------------------

LEMMA InitConsistent == Init => Consistent
<1> SUFFICES ASSUME Init
             PROVE  Consistent
  OBVIOUS
<1>1. TypeOK
  BY InitTypeOK
<1>2. \A t \in Tickets :
        /\ row[t].status = "absent" /\ row[t].assignee = None /\ row[t].contactCount = 0
        /\ row[t].due = row[t].slaPolicy
        /\ outbox[t] = << >>
  BY DEF Init, NoRow
<1>3. \A t \in Tickets, k \in LogKind : entries[t][k] = 0
  BY DEF Init
<1>4. ReadsStillHold
  BY DEF Init, Idle, ReadsStillHold
<1>5. UnownedIffUnassigned /\ DueFollowsPolicy
  BY <1>2 DEF UnownedIffUnassigned, DueFollowsPolicy
<1>6. CompletionsAreClaimed /\ ContactCountIsTimeline /\ StatusFlowBalances
  BY <1>2, <1>3 DEF CompletionsAreClaimed, ContactCountIsTimeline, StatusFlowBalances, LogKind
<1>7. CallbackPerCompletion
  <2>1. Len(<< >>) = 0
    OBVIOUS
  <2>2. \A t \in Tickets : Len(outbox[t]) = 0 /\ entries[t]["resolve"] = 0
    BY <1>2, <1>3, <2>1 DEF LogKind
  <2>3. QED  BY <2>2 DEF CallbackPerCompletion
<1>8. AbsentIsBlank /\ NotesReachThoseConcerned
  BY <1>2, <1>3 DEF Init, AbsentIsBlank, NotesReachThoseConcerned, LogKind
<1>9. QED  BY <1>1, <1>4, <1>5, <1>6, <1>7, <1>8 DEF Consistent

LEMMA StepConsistent == Consistent /\ [Next]_vars => Consistent'
<1> SUFFICES ASSUME Consistent, [Next]_vars
             PROVE  Consistent'
  OBVIOUS
<1> USE DEF Consistent
<1>1. TypeOK'
  BY StepTypeOK
<1>2. \A t \in Tickets : TicketStep(t)
  BY EveryStep
<1>3. UnownedIffUnassigned'
  BY <1>2, UnownedStep DEF UnownedIffUnassigned
<1>4. CompletionsAreClaimed'
  BY <1>2, CompletionsStep DEF CompletionsAreClaimed
<1>5. CallbackPerCompletion'
  BY <1>2, CallbackStep DEF CallbackPerCompletion
<1>6. ContactCountIsTimeline'
  BY <1>2, ContactsStep DEF ContactCountIsTimeline
<1>7. StatusFlowBalances'
  <2>1. \A t \in Tickets : Balances(entries'[t], row'[t].status)
    BY <1>2, FlowStep
  <2>2. QED  BY <2>1 DEF StatusFlowBalances, Balances
<1>8. DueFollowsPolicy'
  BY <1>2, DueStep DEF DueFollowsPolicy
<1>9. ReadsStillHold'
  BY <1>2, RowsGrow, ReadsStep
<1>10. AbsentIsBlank'
  BY <1>2, BlankStep DEF AbsentIsBlank
<1>11. NotesReachThoseConcerned'
  BY <1>2, NotesStep
<1>12. QED  BY <1>1, <1>3, <1>4, <1>5, <1>6, <1>7, <1>8, <1>9, <1>10, <1>11

\* The inductive invariant: a write only relies on what still holds.
THEOREM AlwaysConsistent == Spec => []Consistent
<1>1. QED  BY InitConsistent, StepConsistent, PTL DEF Spec

\* No interleaving leaves a ticket in work without an owner (applyAssignment,
\* addTicketComment and resolveTicket write the row on the strength of old reads).
THEOREM OwnerIffAssigned == Spec => []UnownedIffUnassigned
<1>1. Consistent => UnownedIffUnassigned
  BY DEF Consistent
<1>2. QED  BY <1>1, AlwaysConsistent, PTL

\* Completion is claimed by the conditional UPDATE of resolveTicket: racing
\* completions of one assignment never both succeed.
THEOREM CompletionClaimedOnce == Spec => []CompletionsAreClaimed
<1>1. Consistent => CompletionsAreClaimed
  BY DEF Consistent
<1>2. QED  BY <1>1, AlwaysConsistent, PTL

\* Each completion of a refund leaves exactly one callback in the outbox
\* (createRefundCallbackDelivery runs in the claiming transaction).
THEOREM OneCallbackPerCompletion == Spec => []CallbackPerCompletion
<1>1. Consistent => CallbackPerCompletion
  BY DEF Consistent
<1>2. QED  BY <1>1, AlwaysConsistent, PTL

\* No racing follow-up is lost from contactCount (an increment in the database).
THEOREM NoFollowUpLost == Spec => []ContactCountIsTimeline
<1>1. Consistent => ContactCountIsTimeline
  BY DEF Consistent
<1>2. QED  BY <1>1, AlwaysConsistent, PTL

\* The status changes of a timeline balance (the claims of addTicketComment and the
\* two claims of resolveTicket, with the status each logs as left).
THEOREM TimelineBalances == Spec => []StatusFlowBalances
<1>1. Consistent => StatusFlowBalances
  BY DEF Consistent
<1>2. QED  BY <1>1, AlwaysConsistent, PTL

\* Until the first completion dueAt is that of the present policy.
THEOREM DueIsOfPolicy == Spec => []DueFollowsPolicy
<1>1. Consistent => DueFollowsPolicy
  BY DEF Consistent
<1>2. QED  BY <1>1, AlwaysConsistent, PTL

\* What a request has read still holds, as far as its write relies on it.
THEOREM ReadsHold == Spec => []ReadsStillHold
<1>1. Consistent => ReadsStillHold
  BY DEF Consistent
<1>2. QED  BY <1>1, AlwaysConsistent, PTL

\* Whoever owns a ticket has been told (applyAssignment notifies in the transaction
\* that makes the owner); a submitter hears of public follow-ups and of the
\* completion, and nobody outside of anything else
\* (writeExternalCreatorNotification in addTicketComment and resolveTicket).
THEOREM ThoseConcernedAreTold == Spec => []NotesReachThoseConcerned
<1>1. Consistent => NotesReachThoseConcerned
  BY DEF Consistent
<1>2. QED  BY <1>1, AlwaysConsistent, PTL

-----------------------------------------------------------------------------
(* The action properties.                                                  *)

LEMMA DeletionStep ==
  ASSUME TypeOK, AbsentIsBlank, NEW t \in Tickets, TicketStep(t)
  PROVE  row[t].deletedAt # None => row'[t].deletedAt = row[t].deletedAt
<1> SUFFICES ASSUME row[t].deletedAt # None
             PROVE  row'[t].deletedAt = row[t].deletedAt
  OBVIOUS
<1>0. row[t] \in Row /\ row[t].status # "absent"
  BY DEF TypeOK, AbsentIsBlank, NoRow
<1>1. CASE \E q \in Request : q.op = "edit" /\ Edited(t, q)
  BY <1>0, <1>1, RestampedFacts DEF Edited
<1>2. CASE \E u \in Staff, now \in Nat : FirstOwned(t, u, now)
  BY <1>0, <1>2 DEF FirstOwned, Row
<1>3. CASE \E u \in Staff : Reowned(t, u)
  BY <1>0, <1>3 DEF Reowned, Row
<1>4. CASE \E kind \in {"comment", "internal_comment"} :
             FirstFollowedUp(t, kind) \/ FollowedUp(t, kind)
  BY <1>0, <1>4 DEF FirstFollowedUp, FollowedUp, Row
<1>5. CASE \E from \in {"assigned", "processing"}, now \in Nat : Completed(t, from, now)
  BY <1>0, <1>5 DEF Completed, Row
<1>6. CASE \E a \in Amounts \union {None} : Compensated(t, a)
  BY <1>0, <1>6 DEF Compensated, Row
<1>7. QED
  BY <1>0, <1>1, <1>2, <1>3, <1>4, <1>5, <1>6 DEF TicketStep, Same, Opened, Deleted

\* Racing deletions stamp a ticket once, and nothing undoes it (the conditional
\* UPDATE of deleteTicket; every other write leaves deletedAt alone).
THEOREM DeletionIsForGood == Spec => DeletedStaysDeleted
<1>1. Consistent /\ [Next]_vars =>
        [\A t \in Tickets : row[t].deletedAt # None => row'[t].deletedAt = row[t].deletedAt]_vars
  BY EveryStep, DeletionStep DEF Consistent
<1>2. QED  BY <1>1, AlwaysConsistent, PTL DEF Spec, DeletedStaysDeleted

-----------------------------------------------------------------------------
(* One request at a time implements TicketContract: what its write relies  *)
(* on is then not only true (ReadsStillHold) but everything it has read.   *)

\* What one request in flight has read.
ReadIsNow(q) ==
  /\ q.op = "assign" =>
       \A t \in DOMAIN q.plan :
         /\ Visible(t) /\ row[t].status # "completed"
         /\ t \in q.first <=> row[t].assignee = None
  /\ q.op = "comment" => Visible(q.ticket) /\ row[q.ticket].status = q.read
  /\ q.op = "resolve" => Visible(q.ticket) /\ row[q.ticket].status = q.from
  /\ q.op = "edit" =>
       Visible(q.ticket) /\ (q.frozen <=> row[q.ticket].status = "completed")
  /\ q.op = "compensation" => Visible(q.ticket) /\ row[q.ticket].status # "completed"
  /\ q.op = "delete" => Visible(q.ticket)

ReadsAreNow == \A x \in Txs : ReadIsNow(tx[x])

\* No completion is ever undone, so a callback means that the ticket is completed.
CalledBackIsFinal == \A t \in Tickets : row[t].status # "completed" => outbox[t] = << >>

\* The last entries of a timeline are older than a stamp.
Precede(n, at) ==
  /\ n.status # None => n.statusAt < at
  /\ n.owner # None => n.ownerAt < at

\* What is on the timelines was stamped before the request in flight was.
StampsArePast ==
  /\ \A t \in Tickets : Precede(newest[t], clock)
  /\ \A x \in Txs : tx[x].op # "idle" =>
       tx[x].now < clock /\ \A t \in Tickets : Precede(newest[t], tx[x].now)

OneAtATime ==
  /\ Consistent
  /\ ReadsAreNow
  /\ CalledBackIsFinal
  /\ TimelineTellsTicket
  /\ StampsArePast

\* The view, by its fields, and what a change of the status and of another
\* field makes of it.
View(s, at, due, comp, n, cb, del) ==
  [status |-> s, assignedAt |-> at, due |-> due, compensation |-> comp,
   contacts |-> n, callbacks |-> cb, deletedAt |-> del]

LEMMA SeenIs ==
  ASSUME NEW t \in Tickets
  PROVE  /\ Seen[t] = View(row[t].status, row[t].assignedAt, row[t].due, row[t].compensation,
                           row[t].contactCount, outbox[t], row[t].deletedAt)
         /\ Seen'[t] = View(row'[t].status, row'[t].assignedAt, row'[t].due,
                            row'[t].compensation, row'[t].contactCount, outbox'[t],
                            row'[t].deletedAt)
         /\ Seen[t].status = row[t].status /\ Seen[t].deletedAt = row[t].deletedAt
  BY DEF Seen, View

\* The moves of the contract that change two fields, field by field.
LEMMA OpenedMoves ==
  ASSUME NEW s, NEW at, NEW due, NEW comp, NEW n, NEW cb, NEW del, NEW y,
         s = "absent"
  PROVE  Contract!Opened(View(s, at, due, comp, n, cb, del),
                     View("unassigned", at, y, comp, n, cb, del))
<1>1. PICK v : v = View(s, at, due, comp, n, cb, del)
  OBVIOUS
<1>2. PICK w : w = View("unassigned", at, y, comp, n, cb, del)
  OBVIOUS
<1>3. v.status = s /\ v.contacts = n /\ v.compensation = comp /\ w.due = y
  BY <1>1, <1>2 DEF View
<1>4. [v EXCEPT !.status = "unassigned"] = View("unassigned", at, due, comp, n, cb, del)
  BY <1>1 DEF View
<1>5. [View("unassigned", at, due, comp, n, cb, del) EXCEPT !.due = y] = w
  BY <1>2 DEF View
<1>6. [v EXCEPT !.status = "unassigned", !.due = y] = w
  <2>1. [v EXCEPT !.status = "unassigned", !.due = y]
          = [[v EXCEPT !.status = "unassigned"] EXCEPT !.due = y]
    OBVIOUS
  <2>2. QED  BY <1>4, <1>5, <2>1
<1>7. Contract!Opened(v, w)
  BY <1>3, <1>6 DEF Contract!Opened
<1>8. QED  BY <1>1, <1>2, <1>7

LEMMA FirstAssignedMoves ==
  ASSUME NEW s, NEW at, NEW due, NEW comp, NEW n, NEW cb, NEW del, NEW y,
         s = "unassigned"
  PROVE  Contract!FirstAssigned(View(s, at, due, comp, n, cb, del),
                     View("assigned", y, due, comp, n, cb, del))
<1>1. PICK v : v = View(s, at, due, comp, n, cb, del)
  OBVIOUS
<1>2. PICK w : w = View("assigned", y, due, comp, n, cb, del)
  OBVIOUS
<1>3. v.status = s /\ v.contacts = n /\ v.compensation = comp /\ w.assignedAt = y
  BY <1>1, <1>2 DEF View
<1>4. [v EXCEPT !.status = "assigned"] = View("assigned", at, due, comp, n, cb, del)
  BY <1>1 DEF View
<1>5. [View("assigned", at, due, comp, n, cb, del) EXCEPT !.assignedAt = y] = w
  BY <1>2 DEF View
<1>6. [v EXCEPT !.status = "assigned", !.assignedAt = y] = w
  <2>1. [v EXCEPT !.status = "assigned", !.assignedAt = y]
          = [[v EXCEPT !.status = "assigned"] EXCEPT !.assignedAt = y]
    OBVIOUS
  <2>2. QED  BY <1>4, <1>5, <2>1
<1>7. Contract!FirstAssigned(v, w)
  BY <1>3, <1>6 DEF Contract!FirstAssigned
<1>8. QED  BY <1>1, <1>2, <1>7

LEMMA FollowedUpMoves ==
  ASSUME NEW s, NEW at, NEW due, NEW comp, NEW n, NEW cb, NEW del,
         s \in {"assigned", "processing"}
  PROVE  Contract!FollowedUp(View(s, at, due, comp, n, cb, del),
                     View("processing", at, due, comp, n + 1, cb, del))
<1>1. PICK v : v = View(s, at, due, comp, n, cb, del)
  OBVIOUS
<1>2. PICK w : w = View("processing", at, due, comp, n + 1, cb, del)
  OBVIOUS
<1>3. v.status = s /\ v.contacts = n /\ v.compensation = comp /\ w.contacts = n + 1
  BY <1>1, <1>2 DEF View
<1>4. [v EXCEPT !.status = "processing"] = View("processing", at, due, comp, n, cb, del)
  BY <1>1 DEF View
<1>5. [View("processing", at, due, comp, n, cb, del) EXCEPT !.contacts = n + 1] = w
  BY <1>2 DEF View
<1>6. [v EXCEPT !.status = "processing", !.contacts = n + 1] = w
  <2>1. [v EXCEPT !.status = "processing", !.contacts = n + 1]
          = [[v EXCEPT !.status = "processing"] EXCEPT !.contacts = n + 1]
    OBVIOUS
  <2>2. QED  BY <1>4, <1>5, <2>1
<1>7. Contract!FollowedUp(v, w)
  BY <1>3, <1>6 DEF Contract!FollowedUp
<1>8. QED  BY <1>1, <1>2, <1>7

LEMMA CompletedMoves ==
  ASSUME NEW s, NEW at, NEW due, NEW comp, NEW n, NEW cb, NEW del, NEW y,
         s \in {"assigned", "processing"},
         NEW t \in Tickets, y = (IF t \in RefundTickets THEN <<comp>> ELSE << >>)
  PROVE  Contract!Completed(t, View(s, at, due, comp, n, cb, del),
                     View("completed", at, due, comp, n, y, del))
<1>1. PICK v : v = View(s, at, due, comp, n, cb, del)
  OBVIOUS
<1>2. PICK w : w = View("completed", at, due, comp, n, y, del)
  OBVIOUS
<1>3. v.status = s /\ v.contacts = n /\ v.compensation = comp /\ w.callbacks = y
  BY <1>1, <1>2 DEF View
<1>4. [v EXCEPT !.status = "completed"] = View("completed", at, due, comp, n, cb, del)
  BY <1>1 DEF View
<1>5. [View("completed", at, due, comp, n, cb, del) EXCEPT !.callbacks = y] = w
  BY <1>2 DEF View
<1>6. [v EXCEPT !.status = "completed", !.callbacks = y] = w
  <2>1. [v EXCEPT !.status = "completed", !.callbacks = y]
          = [[v EXCEPT !.status = "completed"] EXCEPT !.callbacks = y]
    OBVIOUS
  <2>2. QED  BY <1>4, <1>5, <2>1
<1>7. Contract!Completed(t, v, w)
  BY <1>3, <1>6 DEF Contract!Completed
<1>8. QED  BY <1>1, <1>2, <1>7

\* A ticket is left as it is seen: nothing happens to it, or to its owner or
\* policy only.
LEMMA LeftAsSeen ==
  ASSUME NEW t \in Tickets, outbox'[t] = outbox[t],
         /\ row'[t].status = row[t].status /\ row'[t].assignedAt = row[t].assignedAt
         /\ row'[t].due = row[t].due /\ row'[t].compensation = row[t].compensation
         /\ row'[t].contactCount = row[t].contactCount
         /\ row'[t].deletedAt = row[t].deletedAt
  PROVE  Contract!Allowed(t, Seen[t], Seen'[t])
  BY DEF Seen, Contract!Allowed

LEMMA CreateAllowed ==
  ASSUME OneAtATime, NEW s \in Tickets, NEW p \in Policies \union {None}, CreateTicket(s, p),
         NEW t \in Tickets
  PROVE  Contract!Allowed(t, Seen[t], Seen'[t])
<1>1. CASE t # s
  BY <1>1, LeftAsSeen DEF CreateTicket, OneAtATime, Consistent, TypeOK
<1>2. CASE t = s
  <2>1. row[t] = NoRow /\ outbox'[t] = outbox[t]
    BY <1>2 DEF CreateTicket, OneAtATime, Consistent, AbsentIsBlank
  <2>2. row'[t] = [NoRow EXCEPT !.status = "unassigned", !.slaPolicy = p, !.due = p]
    BY <1>2 DEF CreateTicket, OneAtATime, Consistent, TypeOK
  <2>3. Seen[t] = View("absent", None, None, None, 0, outbox[t], None)
    BY <2>1 DEF Seen, View, NoRow
  <2>4. Seen'[t] = View("unassigned", None, p, None, 0, outbox[t], None)
    BY <2>1, <2>2 DEF Seen, View, NoRow
  <2>5. Contract!Opened(Seen[t], Seen'[t]) /\ Seen[t].deletedAt = None
    BY <2>1, <2>3, <2>4, OpenedMoves, SeenIs DEF NoRow
  <2>6. QED  BY <2>5 DEF Contract!Allowed
<1>3. QED  BY <1>1, <1>2

LEMMA AssignAllowed ==
  ASSUME OneAtATime, NEW x \in Txs, WriteAssign(x), NEW t \in Tickets
  PROVE  Contract!Allowed(t, Seen[t], Seen'[t])
<1> DEFINE q == tx[x]
<1>0. row[t] \in Row /\ outbox'[t] = outbox[t]
  BY DEF WriteAssign, OneAtATime, Consistent, TypeOK
<1>1. CASE t \notin DOMAIN q.plan
  BY <1>0, <1>1, LeftAsSeen DEF WriteAssign
<1>2. CASE t \in DOMAIN q.plan /\ t \notin q.first
  <2>1. row'[t] = [row[t] EXCEPT !.assignee = q.plan[t]]
    BY <1>2 DEF WriteAssign, Assigned
  <2>2. QED  BY <1>0, <2>1, LeftAsSeen DEF Row
<1>3. CASE t \in DOMAIN q.plan /\ t \in q.first
  <2>1. row[t].status = "unassigned" /\ row[t].deletedAt = None
    BY <1>3 DEF WriteAssign, OneAtATime, Consistent, ReadsAreNow, ReadIsNow, Visible,
                UnownedIffUnassigned
  <2>2. row'[t] = [row[t] EXCEPT !.assignee = q.plan[t], !.assignedAt = q.now,
                                 !.status = "assigned"]
    BY <1>3 DEF WriteAssign, Assigned
  <2>3. Seen[t] = View("unassigned", row[t].assignedAt, row[t].due, row[t].compensation,
                       row[t].contactCount, outbox[t], None)
    BY <2>1 DEF Seen, View
  <2>4. Seen'[t] = View("assigned", q.now, row[t].due, row[t].compensation,
                        row[t].contactCount, outbox[t], None)
    BY <1>0, <2>1, <2>2 DEF Seen, View, Row
  <2>5. Contract!FirstAssigned(Seen[t], Seen'[t]) /\ Seen[t].deletedAt = None
    BY <2>1, <2>3, <2>4, FirstAssignedMoves, SeenIs
  <2>6. QED  BY <2>5 DEF Contract!Allowed
<1>4. QED  BY <1>1, <1>2, <1>3

LEMMA CommentAllowed ==
  ASSUME OneAtATime, NEW x \in Txs, WriteComment(x), NEW t \in Tickets
  PROVE  Contract!Allowed(t, Seen[t], Seen'[t])
<1> DEFINE q == tx[x]
<1>0. row[t] \in Row /\ outbox'[t] = outbox[t]
  BY DEF WriteComment, OneAtATime, Consistent, TypeOK
<1>1. CASE t # q.ticket
  BY <1>0, <1>1, LeftAsSeen DEF WriteComment, OneAtATime, Consistent, TypeOK
<1>2. CASE t = q.ticket
  <2>1. /\ row[t].status \in {"assigned", "processing"} /\ row[t].deletedAt = None
        /\ row[t].status = q.read
    BY <1>2 DEF WriteComment, OneAtATime, Consistent, ReadsAreNow, ReadIsNow,
                ReadsStillHold, Visible
  <2>2. row'[t] = CountedComment(row[t], row[t].status = "assigned")
    BY <1>2, <2>1 DEF WriteComment, ClaimsFirstFollowUp, OneAtATime, Consistent, TypeOK
  <2>3. row'[t] = [row[t] EXCEPT !.contactCount = row[t].contactCount + 1,
                                 !.status = "processing"]
    BY <2>1, <2>2 DEF CountedComment
  <2>4. Seen[t] = View(row[t].status, row[t].assignedAt, row[t].due, row[t].compensation,
                       row[t].contactCount, outbox[t], None)
    BY <2>1 DEF Seen, View
  <2>5. Seen'[t] = View("processing", row[t].assignedAt, row[t].due, row[t].compensation,
                        row[t].contactCount + 1, outbox[t], None)
    BY <1>0, <2>1, <2>3 DEF Seen, View, Row
  <2>6. Contract!FollowedUp(Seen[t], Seen'[t]) /\ Seen[t].deletedAt = None
    BY <2>1, <2>4, <2>5, FollowedUpMoves, SeenIs
  <2>7. QED  BY <2>6 DEF Contract!Allowed
<1>3. QED  BY <1>1, <1>2

LEMMA ResolveAllowed ==
  ASSUME OneAtATime, NEW x \in Txs, WriteResolve(x), NEW t \in Tickets
  PROVE  Contract!Allowed(t, Seen[t], Seen'[t])
<1> DEFINE q == tx[x]
<1>0. row[t] \in Row
  BY DEF OneAtATime, Consistent, TypeOK
<1>1. CASE t # q.ticket
  BY <1>0, <1>1, LeftAsSeen DEF WriteResolve, OneAtATime, Consistent, TypeOK
<1>2. CASE t = q.ticket
  <2>1. /\ row[t].status \in {"assigned", "processing"} /\ row[t].deletedAt = None
        /\ outbox[t] = << >>
    BY <1>2 DEF WriteResolve, OneAtATime, Consistent, ReadsAreNow, ReadIsNow,
                ReadsStillHold, Visible, CalledBackIsFinal
  <2>2. row'[t] = [row[t] EXCEPT !.status = "completed", !.completionTime = q.now]
    BY <1>2 DEF WriteResolve, OneAtATime, Consistent, TypeOK
  <2>3. outbox'[t] = CallbackFor(t)
    BY <1>2, <2>1 DEF WriteResolve, CallbackFor, OneAtATime, Consistent, TypeOK
  <2>4. Seen[t] = View(row[t].status, row[t].assignedAt, row[t].due, row[t].compensation,
                       row[t].contactCount, outbox[t], None)
    BY <2>1 DEF Seen, View
  <2>5. Seen'[t] = View("completed", row[t].assignedAt, row[t].due, row[t].compensation,
                        row[t].contactCount, outbox'[t], None)
    BY <1>0, <2>1, <2>2 DEF Seen, View, Row
  <2>6. Contract!Completed(t, Seen[t], Seen'[t]) /\ Seen[t].deletedAt = None
    BY <2>1, <2>3, <2>4, <2>5, CompletedMoves, SeenIs DEF CallbackFor
  <2>7. QED  BY <2>6 DEF Contract!Allowed
<1>3. QED  BY <1>1, <1>2

LEMMA EditAllowed ==
  ASSUME OneAtATime, NEW x \in Txs, WriteEdit(x), NEW t \in Tickets
  PROVE  Contract!Allowed(t, Seen[t], Seen'[t])
<1> DEFINE q == tx[x]
<1>0. row[t] \in Row /\ outbox'[t] = outbox[t]
  BY DEF WriteEdit, OneAtATime, Consistent, TypeOK
<1>1. CASE t # q.ticket
  BY <1>0, <1>1, LeftAsSeen DEF WriteEdit, OneAtATime, Consistent, TypeOK
<1>2. CASE t = q.ticket
  <2>1. /\ row[t].status # "absent" /\ row[t].deletedAt = None
        /\ q.frozen <=> row[t].status = "completed"
    BY <1>2 DEF WriteEdit, OneAtATime, ReadsAreNow, ReadIsNow, Visible
  <2>2. row'[t] = Restamped(row[t], q)
    BY <1>2 DEF WriteEdit, OneAtATime, Consistent, TypeOK
  <2>3. CASE ~q.slaChanged \/ q.frozen
    BY <1>0, <2>2, <2>3, LeftAsSeen DEF Restamped, Row
  <2>4. CASE q.slaChanged /\ ~q.frozen
    <3>1. row'[t] = [row[t] EXCEPT !.slaPolicy = q.policy, !.due = q.policy]
      BY <2>2, <2>4 DEF Restamped
    <3>2. /\ row'[t].status = row[t].status /\ row'[t].assignedAt = row[t].assignedAt
          /\ row'[t].compensation = row[t].compensation
          /\ row'[t].contactCount = row[t].contactCount
          /\ row'[t].deletedAt = row[t].deletedAt
      BY <1>0, <3>1 DEF Row
    <3>3. Seen'[t] = [Seen[t] EXCEPT !.due = Seen'[t].due]
      BY <1>0, <3>2 DEF Seen
    <3>4. QED
      BY <2>1, <2>4, <3>3, SeenIs DEF Contract!Restamped, Contract!Allowed
  <2>5. QED  BY <2>3, <2>4
<1>3. QED  BY <1>1, <1>2

LEMMA CompensationAllowed ==
  ASSUME OneAtATime, NEW x \in Txs, WriteCompensation(x), NEW t \in Tickets
  PROVE  Contract!Allowed(t, Seen[t], Seen'[t])
<1> DEFINE q == tx[x]
<1>0. row[t] \in Row /\ outbox'[t] = outbox[t]
  BY DEF WriteCompensation, OneAtATime, Consistent, TypeOK
<1>1. CASE t # q.ticket
  BY <1>0, <1>1, LeftAsSeen DEF WriteCompensation, OneAtATime, Consistent, TypeOK
<1>2. CASE t = q.ticket
  <2>1. /\ row[t].status \notin {"absent", "completed"} /\ row[t].deletedAt = None
        /\ t \in RefundTickets
    BY <1>2, RequestKinds
    DEF WriteCompensation, OneAtATime, Consistent, TypeOK, ReadsAreNow, ReadIsNow, Visible
  <2>2. row'[t] = [row[t] EXCEPT !.compensation = q.amount]
    BY <1>2 DEF WriteCompensation, OneAtATime, Consistent, TypeOK
  <2>3. Contract!Compensated(t, Seen[t], Seen'[t]) /\ Seen[t].deletedAt = None
    BY <1>0, <2>1, <2>2 DEF Seen, Contract!Compensated, Row
  <2>4. QED  BY <2>3 DEF Contract!Allowed
<1>3. QED  BY <1>1, <1>2

LEMMA DeleteAllowed ==
  ASSUME OneAtATime, NEW x \in Txs, WriteDelete(x), NEW t \in Tickets
  PROVE  Contract!Allowed(t, Seen[t], Seen'[t])
<1> DEFINE q == tx[x]
<1>0. row[t] \in Row /\ outbox'[t] = outbox[t]
  BY DEF WriteDelete, OneAtATime, Consistent, TypeOK
<1>1. CASE t # q.ticket
  BY <1>0, <1>1, LeftAsSeen DEF WriteDelete, OneAtATime, Consistent, TypeOK
<1>2. CASE t = q.ticket
  <2>1. row[t].status # "absent" /\ row[t].deletedAt = None /\ q.now # None
    BY <1>2, RequestKinds, ConstantsAssumption
    DEF WriteDelete, OneAtATime, Consistent, TypeOK, ReadsAreNow, ReadIsNow, Visible
  <2>2. row'[t] = [row[t] EXCEPT !.deletedAt = q.now]
    BY <1>2 DEF WriteDelete, OneAtATime, Consistent, TypeOK
  <2>3. Contract!Deleted(Seen[t], Seen'[t]) /\ Seen[t].deletedAt = None
    BY <1>0, <2>1, <2>2 DEF Seen, Contract!Deleted, Row
  <2>4. QED  BY <2>3 DEF Contract!Allowed
<1>3. QED  BY <1>1, <1>2

LEMMA EveryStepAllowed ==
  ASSUME OneAtATime, [Next]_vars, NEW t \in Tickets
  PROVE  Contract!Allowed(t, Seen[t], Seen'[t])
<1>1. ASSUME NEW x \in Txs, Begin(x) \/ Abort(x) \/ ResolveFallsBack(x)
      PROVE  Contract!Allowed(t, Seen[t], Seen'[t])
  <2>1. UNCHANGED <<row, outbox>>
    BY <1>1 DEF Begin, BeginAssign, BeginAutoAssign, BeginComment, BeginResolve, BeginEdit,
                BeginCompensation, BeginDelete, Start, Abort, ResolveFallsBack
  <2>2. QED  BY <2>1, LeftAsSeen
<1>2. CASE UNCHANGED vars
  BY <1>2, LeftAsSeen DEF vars
<1>3. QED
  BY <1>1, <1>2, CreateAllowed, AssignAllowed, CommentAllowed, ResolveAllowed, EditAllowed,
     CompensationAllowed, DeleteAllowed DEF Next, Write

\* A move of the contract leaves callbacks with a completed ticket only.
LEMMA CalledBackStep ==
  ASSUME OneAtATime, [Next]_vars
  PROVE  CalledBackIsFinal'
<1> SUFFICES ASSUME NEW t \in Tickets, row'[t].status # "completed"
             PROVE  outbox'[t] = << >>
  BY DEF CalledBackIsFinal
<1>1. PICK v : v = Seen[t]
  OBVIOUS
<1>2. PICK w : w = Seen'[t]
  OBVIOUS
<1>3. /\ v.status = row[t].status /\ v.callbacks = outbox[t]
      /\ w.status = row'[t].status /\ w.callbacks = outbox'[t]
  BY <1>1, <1>2 DEF Seen
<1>4. v.status # "completed" => v.callbacks = << >>
  BY <1>3 DEF OneAtATime, CalledBackIsFinal
<1>5. Contract!Allowed(t, v, w)
  BY <1>1, <1>2, EveryStepAllowed
<1>6. v = [status |-> v.status, assignedAt |-> v.assignedAt, due |-> v.due,
           compensation |-> v.compensation, contacts |-> v.contacts,
           callbacks |-> v.callbacks, deletedAt |-> v.deletedAt]
  BY <1>1 DEF Seen
<1>7. ~Contract!Completed(t, v, w)
  BY <1>3, <1>6 DEF Contract!Completed
<1>8. w.callbacks = v.callbacks /\ (v.status = "completed" => w.status = "completed")
  BY <1>5, <1>6, <1>7
  DEF Contract!Allowed, Contract!Opened, Contract!FirstAssigned, Contract!FollowedUp,
      Contract!Restamped, Contract!Compensated, Contract!Deleted
<1>9. QED  BY <1>3, <1>4, <1>8

LEMMA BeginReads ==
  ASSUME NEW x \in Txs, Begin(x)
  PROVE  \E q : Start(x, q) /\ ReadIsNow(q)
<1>1. ASSUME NEW S \in SUBSET Tickets, NEW u \in Staff, BeginAssign(x, S, u)
      PROVE  \E q : Start(x, q) /\ ReadIsNow(q)
  <2> DEFINE todo == {t \in S : row[t].assignee # u}
             first == {t \in todo : row[t].assignee = None}
             q == [op |-> "assign", plan |-> [t \in todo |-> u], first |-> first, now |-> clock]
  <2>1. Start(x, q)
    BY <1>1 DEF BeginAssign
  <2>2. \A t \in todo : /\ Visible(t) /\ row[t].status # "completed"
                        /\ t \in first <=> row[t].assignee = None
    BY <1>1 DEF BeginAssign
  <2>3. q.op = "assign" /\ DOMAIN q.plan = todo /\ q.first = first
    OBVIOUS
  <2>4. ReadIsNow(q)
    <3> HIDE DEF q, todo, first
    <3> QED  BY <2>2, <2>3 DEF ReadIsNow
  <2>5. QED  BY <2>1, <2>4
<1>2. ASSUME NEW S \in SUBSET Tickets, NEW plan \in [S -> Staff], BeginAutoAssign(x, plan)
      PROVE  \E q : Start(x, q) /\ ReadIsNow(q)
  <2> DEFINE q == [op |-> "assign", plan |-> plan, first |-> DOMAIN plan, now |-> clock]
  <2>1. Start(x, q) /\ ReadIsNow(q)
    BY <1>2 DEF BeginAutoAssign, ReadIsNow
  <2>2. QED  BY <2>1
<1>3. ASSUME NEW t \in Tickets, NEW b \in BOOLEAN, BeginComment(x, t, b)
      PROVE  \E q : Start(x, q) /\ ReadIsNow(q)
  <2> DEFINE q == [op |-> "comment", ticket |-> t, read |-> row[t].status,
                   internalOnly |-> b, now |-> clock]
  <2>1. Start(x, q) /\ ReadIsNow(q)
    BY <1>3 DEF BeginComment, ReadIsNow
  <2>2. QED  BY <2>1
<1>4. ASSUME NEW t \in Tickets, BeginResolve(x, t)
      PROVE  \E q : Start(x, q) /\ ReadIsNow(q)
  <2> DEFINE q == [op |-> "resolve", ticket |-> t, from |-> row[t].status, now |-> clock]
  <2>1. Start(x, q) /\ ReadIsNow(q)
    BY <1>4 DEF BeginResolve, ReadIsNow
  <2>2. QED  BY <2>1
<1>5. ASSUME NEW t \in Tickets, NEW p \in Policies \union {None}, NEW b \in BOOLEAN,
             BeginEdit(x, t, p, b)
      PROVE  \E q : Start(x, q) /\ ReadIsNow(q)
  <2> DEFINE q == [op |-> "edit", ticket |-> t, slaChanged |-> (p # row[t].slaPolicy),
                   policy |-> p, frozen |-> (row[t].status = "completed"), now |-> clock]
  <2>1. Start(x, q) /\ Visible(t)
    BY <1>5 DEF BeginEdit
  <2>2. ReadIsNow(q)
    BY <2>1 DEF ReadIsNow
  <2>3. QED  BY <2>1, <2>2
<1>6. ASSUME NEW t \in Tickets, NEW a \in Amounts \union {None}, BeginCompensation(x, t, a)
      PROVE  \E q : Start(x, q) /\ ReadIsNow(q)
  <2> DEFINE q == [op |-> "compensation", ticket |-> t, amount |-> a, now |-> clock]
  <2>1. Start(x, q) /\ ReadIsNow(q)
    BY <1>6 DEF BeginCompensation, ReadIsNow
  <2>2. QED  BY <2>1
<1>7. ASSUME NEW t \in Tickets, BeginDelete(x, t)
      PROVE  \E q : Start(x, q) /\ ReadIsNow(q)
  <2> DEFINE q == [op |-> "delete", ticket |-> t, now |-> clock]
  <2>1. Start(x, q) /\ ReadIsNow(q)
    BY <1>7 DEF BeginDelete, ReadIsNow
  <2>2. QED  BY <2>1
<1>8. QED  BY <1>1, <1>2, <1>3, <1>4, <1>5, <1>6, <1>7 DEF Begin

\* With one connection nothing but its own request, or a creation, is written
\* between the read and the write.
LEMMA ReadsAreNowStep ==
  ASSUME \A x, y \in Txs : x = y, OneAtATime, [Next]_vars
  PROVE  ReadsAreNow'
<1>0. TypeOK /\ \A x \in Txs : tx[x] \in Request /\ ReadIsNow(tx[x])
  BY DEF OneAtATime, Consistent, ReadsAreNow, ReadIsNow, TypeOK
<1>1. ASSUME NEW s \in Tickets, NEW p \in Policies \union {None}, CreateTicket(s, p),
             NEW x \in Txs
      PROVE  ReadIsNow(tx[x])'
  <2>1. tx'[x] = tx[x]
    BY <1>1 DEF CreateTicket
  <2>2. PICK q \in Request : q = tx[x] /\ ReadIsNow(q)
    BY <1>0
  <2>3. \A t \in Tickets : Visible(t) => row'[t] = row[t]
    BY <1>0, <1>1 DEF CreateTicket, Visible, TypeOK
  <2>4. q.op = "assign" => DOMAIN q.plan \subseteq Tickets
    BY RequestKinds
  <2>5. q.op \in {"comment", "resolve", "edit", "compensation", "delete"} => q.ticket \in Tickets
    BY RequestKinds, ConstantsAssumption
  <2>6. ReadIsNow(q)'
    BY <2>2, <2>3, <2>4, <2>5 DEF ReadIsNow, Visible
  <2>7. QED  BY <2>1, <2>2, <2>6 DEF ReadIsNow
<1>2. ASSUME NEW x \in Txs, Begin(x)
      PROVE  ReadIsNow(tx[x])'
  <2>1. PICK q : Start(x, q) /\ ReadIsNow(q)
    BY <1>2, BeginReads
  <2>2. tx'[x] = q /\ row' = row
    BY <1>0, <2>1 DEF Start, TypeOK
  <2>3. QED  BY <2>1, <2>2 DEF ReadIsNow, Visible
<1>3. ASSUME NEW x \in Txs, Write(x) \/ Abort(x)
      PROVE  ReadIsNow(tx[x])'
  <2>1. Finish(x)
    BY <1>3 DEF Write, Abort, WriteAssign, WriteComment, WriteResolve, WriteEdit,
                WriteCompensation, WriteDelete
  <2>2. tx'[x] = Idle
    BY <1>0, <2>1 DEF Finish, TypeOK
  <2>3. QED  BY <2>2 DEF ReadIsNow, Idle
<1>4. CASE UNCHANGED vars
  BY <1>0, <1>4 DEF vars, ReadsAreNow, ReadIsNow, Visible
<1>5. \A x \in Txs : ~ResolveFallsBack(x)
  BY <1>0 DEF ResolveFallsBack, ReadIsNow, ClaimsCompletion
<1>6. CASE Next
  <2>1. \A x \in Txs : ReadIsNow(tx[x])'
    BY <1>1, <1>2, <1>3, <1>6, <1>5 DEF Next
  <2>2. QED  BY <2>1 DEF ReadIsNow, ReadsAreNow
<1>7. QED  BY <1>4, <1>6

\* Every request carries the stamp of its start.
LEMMA RequestHasStamp ==
  ASSUME NEW q \in Request, q.op # "idle"
  PROVE  q.now \in Nat
  BY DEF Request, Idle

LEMMA BeginStamps ==
  ASSUME NEW x \in Txs, Begin(x)
  PROVE  \E q : Start(x, q) /\ q.op # "idle" /\ q.now = clock
<1>1. ASSUME NEW S \in SUBSET Tickets, NEW u \in Staff, BeginAssign(x, S, u)
      PROVE  \E q : Start(x, q) /\ q.op # "idle" /\ q.now = clock
  <2> DEFINE todo == {t \in S : row[t].assignee # u}
             q == [op |-> "assign", plan |-> [t \in todo |-> u],
                   first |-> {t \in todo : row[t].assignee = None}, now |-> clock]
  <2>1. Start(x, q)
    BY <1>1 DEF BeginAssign
  <2>2. q.op # "idle" /\ q.now = clock
    OBVIOUS
  <2>3. QED  BY <2>1, <2>2
<1>2. ASSUME NEW S \in SUBSET Tickets, NEW plan \in [S -> Staff], BeginAutoAssign(x, plan)
      PROVE  \E q : Start(x, q) /\ q.op # "idle" /\ q.now = clock
  BY <1>2 DEF BeginAutoAssign
<1>3. ASSUME NEW t \in Tickets, NEW b \in BOOLEAN, BeginComment(x, t, b)
      PROVE  \E q : Start(x, q) /\ q.op # "idle" /\ q.now = clock
  BY <1>3 DEF BeginComment
<1>4. ASSUME NEW t \in Tickets, BeginResolve(x, t)
      PROVE  \E q : Start(x, q) /\ q.op # "idle" /\ q.now = clock
  BY <1>4 DEF BeginResolve
<1>5. ASSUME NEW t \in Tickets, NEW p \in Policies \union {None}, NEW b \in BOOLEAN,
             BeginEdit(x, t, p, b)
      PROVE  \E q : Start(x, q) /\ q.op # "idle" /\ q.now = clock
  BY <1>5 DEF BeginEdit
<1>6. ASSUME NEW t \in Tickets, NEW a \in Amounts \union {None}, BeginCompensation(x, t, a)
      PROVE  \E q : Start(x, q) /\ q.op # "idle" /\ q.now = clock
  BY <1>6 DEF BeginCompensation
<1>7. ASSUME NEW t \in Tickets, BeginDelete(x, t)
      PROVE  \E q : Start(x, q) /\ q.op # "idle" /\ q.now = clock
  BY <1>7 DEF BeginDelete
<1>8. QED  BY <1>1, <1>2, <1>3, <1>4, <1>5, <1>6, <1>7 DEF Begin

\* An entry stamped later than what is there becomes the last of the timeline.
LEMMA LaterEntry ==
  ASSUME NEW n \in Newest, NEW at \in Nat, Precede(n, at)
  PROVE  /\ \A s \in Status :
              /\ StatusEntry(n, s, at).status = s /\ StatusEntry(n, s, at).owner = n.owner
              /\ Precede(StatusEntry(n, s, at), at + 1)
         /\ \A u \in Staff :
              /\ OwnerEntry(n, u, at).owner = u /\ OwnerEntry(n, u, at).status = n.status
              /\ Precede(OwnerEntry(n, u, at), at + 1)
<1>0. n.statusAt \in Nat /\ n.ownerAt \in Nat
  BY DEF Newest
<1>1. ASSUME NEW s \in Status
      PROVE  /\ StatusEntry(n, s, at).status = s /\ StatusEntry(n, s, at).owner = n.owner
             /\ Precede(StatusEntry(n, s, at), at + 1)
  BY <1>0, <1>1 DEF StatusEntry, Newest, Precede
<1>2. ASSUME NEW u \in Staff
      PROVE  /\ OwnerEntry(n, u, at).owner = u /\ OwnerEntry(n, u, at).status = n.status
             /\ Precede(OwnerEntry(n, u, at), at + 1)
  BY <1>0, <1>2 DEF OwnerEntry, Newest, Precede
<1>3. QED  BY <1>1, <1>2

LEMMA PrecedeLater ==
  ASSUME NEW n \in Newest, NEW at \in Nat, NEW later \in Nat, at <= later, Precede(n, at)
  PROVE  Precede(n, later)
  BY DEF Precede, Newest

\* One request's write of one ticket: the entries it adds are the last ones, and
\* they name what it makes of the row.
Tells(t, at) ==
  /\ newest'[t].status =
       IF row'[t].status \in {"absent", "unassigned"} THEN None ELSE row'[t].status
  /\ newest'[t].owner = row'[t].assignee
  /\ Precede(newest'[t], at + 1)

LEMMA WriteTells ==
  ASSUME OneAtATime, NEW x \in Txs, Write(x), NEW t \in Tickets
  PROVE  Tells(t, tx[x].now)
<1> DEFINE q == tx[x]
<1>0. /\ TypeOK /\ TimelineTellsTicket /\ ReadIsNow(q) /\ ReadsStillHold
      /\ UnownedIffUnassigned
      /\ q \in Request /\ row[t] \in Row /\ newest[t] \in Newest
  BY DEF OneAtATime, Consistent, ReadsAreNow, TypeOK
<1>1. q.op # "idle" /\ q.now \in Nat
  BY <1>0, RequestKinds
  DEF Write, WriteAssign, WriteComment, WriteResolve, WriteEdit, WriteCompensation, WriteDelete
<1>2. Precede(newest[t], q.now)
  BY <1>1 DEF OneAtATime, StampsArePast
<1>3. ASSUME newest'[t] = newest[t], row'[t].status = row[t].status,
             row'[t].assignee = row[t].assignee
      PROVE  Tells(t, q.now)
  <2>1. q.now <= q.now + 1 /\ q.now + 1 \in Nat
    BY <1>1
  <2>2. Precede(newest[t], q.now + 1)
    BY <1>0, <1>1, <1>2, <2>1, PrecedeLater
  <2>3. QED  BY <1>0, <1>3, <2>2 DEF Tells, TimelineTellsTicket
<1>4. CASE WriteAssign(x)
  <2>1. CASE t \notin DOMAIN q.plan
    BY <1>3, <1>4, <2>1 DEF WriteAssign
  <2>2. CASE t \in DOMAIN q.plan
    <3>1. q.plan[t] \in Staff
      BY <1>0, <1>4, <2>2, RequestKinds DEF WriteAssign
    <3>2. PICK n \in Newest : n = OwnerEntry(newest[t], q.plan[t], q.now)
      BY <1>0, <1>1, <3>1, EntryTypes
    <3>3. n.owner = q.plan[t] /\ n.status = newest[t].status /\ Precede(n, q.now + 1)
      BY <1>0, <1>1, <1>2, <3>1, <3>2, LaterEntry
    <3>4. CASE t \in q.first
      <4>1. row'[t] = [row[t] EXCEPT !.assignee = q.plan[t], !.assignedAt = q.now,
                                     !.status = "assigned"]
        BY <1>4, <2>2, <3>4 DEF WriteAssign, Assigned
      <4>2. row'[t].assignee = q.plan[t] /\ row'[t].status = "assigned"
        BY <1>0, <4>1 DEF Row
      <4>3. newest[t].status = None
        BY <1>0, <1>4, <2>2, <3>4
        DEF WriteAssign, ReadIsNow, UnownedIffUnassigned, TimelineTellsTicket
      <4>4. n.status = None
        BY <3>3, <4>3
      <4>5. newest'[t] = StatusEntry(n, "assigned", q.now)
        BY <1>4, <2>2, <3>2, <3>4 DEF WriteAssign
      <4>6. newest'[t] = [n EXCEPT !.status = "assigned", !.statusAt = q.now]
        BY <4>4, <4>5 DEF StatusEntry
      <4>7. /\ newest'[t].status = "assigned" /\ newest'[t].statusAt = q.now
            /\ newest'[t].owner = n.owner /\ newest'[t].ownerAt = n.ownerAt
        BY <4>6 DEF Newest
      <4>8. QED  BY <1>1, <3>3, <4>2, <4>7 DEF Tells, Precede
    <3>5. CASE t \notin q.first
      <4>1. row'[t] = [row[t] EXCEPT !.assignee = q.plan[t]]
        BY <1>4, <2>2, <3>5 DEF WriteAssign, Assigned
      <4>2. row'[t].assignee = q.plan[t] /\ row'[t].status = row[t].status
        BY <1>0, <4>1 DEF Row
      <4>3. newest'[t] = n
        BY <1>4, <2>2, <3>2, <3>5 DEF WriteAssign
      <4>4. QED  BY <1>0, <3>3, <4>2, <4>3 DEF Tells, TimelineTellsTicket
    <3>6. QED  BY <3>4, <3>5
  <2>3. QED  BY <2>1, <2>2
<1>5. CASE WriteComment(x)
  <2>1. CASE t # q.ticket
    BY <1>0, <1>3, <1>5, <2>1 DEF WriteComment, TypeOK
  <2>2. CASE t = q.ticket
    <3>1. row[t].status \in {"assigned", "processing"} /\ row[t].status = q.read
      BY <1>0, <1>5, <2>2 DEF WriteComment, ReadIsNow, ReadsStillHold
    <3>2. row'[t] = CountedComment(row[t], row[t].status = "assigned")
      BY <1>0, <1>5, <2>2, <3>1 DEF WriteComment, ClaimsFirstFollowUp, TypeOK
    <3>3. row'[t].status = "processing" /\ row'[t].assignee = row[t].assignee
      <4>1. row'[t] = [row[t] EXCEPT !.contactCount = row[t].contactCount + 1,
                                     !.status = "processing"]
        BY <3>1, <3>2 DEF CountedComment
      <4>2. QED  BY <1>0, <4>1 DEF Row
    <3>4. CASE row[t].status = "assigned"
      <4>1. newest'[t] = StatusEntry(newest[t], "processing", q.now)
        BY <1>0, <1>5, <2>2, <3>1, <3>4 DEF WriteComment, ClaimsFirstFollowUp, TypeOK
      <4>2. "processing" \in Status
        BY DEF Status
      <4>3. /\ newest'[t].status = "processing" /\ newest'[t].owner = newest[t].owner
            /\ Precede(newest'[t], q.now + 1)
        BY <1>0, <1>1, <1>2, <4>1, <4>2, LaterEntry
      <4>4. QED  BY <1>0, <3>3, <4>3 DEF Tells, TimelineTellsTicket
    <3>5. CASE row[t].status = "processing"
      <4>1. newest'[t] = newest[t]
        BY <1>0, <1>5, <2>2, <3>1, <3>5 DEF WriteComment, ClaimsFirstFollowUp, TypeOK
      <4>2. QED  BY <1>3, <3>3, <3>5, <4>1
    <3>6. QED  BY <3>1, <3>4, <3>5
  <2>3. QED  BY <2>1, <2>2
<1>6. CASE WriteResolve(x)
  <2>1. CASE t # q.ticket
    BY <1>0, <1>3, <1>6, <2>1 DEF WriteResolve, TypeOK
  <2>2. CASE t = q.ticket
    <3>1. newest'[t] = StatusEntry(newest[t], "completed", q.now)
      BY <1>0, <1>6, <2>2 DEF WriteResolve, TypeOK
    <3>2. row'[t] = [row[t] EXCEPT !.status = "completed", !.completionTime = q.now]
      BY <1>0, <1>6, <2>2 DEF WriteResolve, TypeOK
    <3>3. row'[t].status = "completed" /\ row'[t].assignee = row[t].assignee
      BY <1>0, <3>2 DEF Row
    <3>4. "completed" \in Status
      BY DEF Status
    <3>5. /\ newest'[t].status = "completed" /\ newest'[t].owner = newest[t].owner
          /\ Precede(newest'[t], q.now + 1)
      BY <1>0, <1>1, <1>2, <3>1, <3>4, LaterEntry
    <3>6. QED  BY <1>0, <3>3, <3>5 DEF Tells, TimelineTellsTicket
  <2>3. QED  BY <2>1, <2>2
<1>7. CASE WriteEdit(x)
  <2>1. row'[t] = row[t] \/ row'[t] = Restamped(row[t], q)
    BY <1>0, <1>7 DEF WriteEdit, TypeOK
  <2>2. row'[t].status = row[t].status /\ row'[t].assignee = row[t].assignee
    BY <1>0, <2>1, RestampedFacts
  <2>3. QED  BY <1>3, <1>7, <2>2 DEF WriteEdit
<1>8. CASE WriteCompensation(x) \/ WriteDelete(x)
  <2>1. PICK a, b : \/ row'[t] = row[t]
                    \/ row'[t] = [row[t] EXCEPT !.compensation = a]
                    \/ row'[t] = [row[t] EXCEPT !.deletedAt = b]
    <3>1. row \in [Tickets -> Row]
      BY <1>0 DEF TypeOK
    <3>2. CASE WriteCompensation(x)
      <4>1. row' = [row EXCEPT ![q.ticket].compensation = q.amount]
        BY <3>2 DEF WriteCompensation
      <4>2. row'[t] = row[t] \/ row'[t] = [row[t] EXCEPT !.compensation = q.amount]
        BY <3>1, <4>1
      <4>3. QED  BY <4>2
    <3>3. CASE WriteDelete(x)
      <4>1. row' = [row EXCEPT ![q.ticket].deletedAt = q.now]
        BY <3>3 DEF WriteDelete
      <4>2. row'[t] = row[t] \/ row'[t] = [row[t] EXCEPT !.deletedAt = q.now]
        BY <3>1, <4>1
      <4>3. QED  BY <4>2
    <3>4. QED  BY <1>8, <3>2, <3>3
  <2>2. row'[t].status = row[t].status /\ row'[t].assignee = row[t].assignee
    BY <1>0, <2>1 DEF Row
  <2>3. QED  BY <1>3, <1>8, <2>2 DEF WriteCompensation, WriteDelete
<1>9. QED  BY <1>4, <1>5, <1>6, <1>7, <1>8 DEF Write

\* With one connection the timeline is told in the order of the commits.
LEMMA TimelineStep ==
  ASSUME \A x, y \in Txs : x = y, OneAtATime, [Next]_vars
  PROVE  TimelineTellsTicket' /\ StampsArePast'
<1>0. /\ TypeOK /\ TypeOK' /\ UnownedIffUnassigned /\ TimelineTellsTicket /\ StampsArePast
      /\ \A x \in Txs : tx[x] \in Request
      /\ \A t \in Tickets : newest[t] \in Newest
      /\ clock \in Nat
  BY StepTypeOK DEF OneAtATime, Consistent, TypeOK
<1>1. ASSUME NEW s \in Tickets, NEW p \in Policies \union {None}, CreateTicket(s, p)
      PROVE  TimelineTellsTicket' /\ StampsArePast'
  <2>1. newest' = newest /\ tx' = tx /\ clock' = clock + 1
    BY <1>1 DEF CreateTicket
  <2>2. /\ row[s].status = "absent" /\ row[s].assignee = None
        /\ row'[s].status = "unassigned" /\ row'[s].assignee = None
        /\ \A t \in Tickets \ {s} : row'[t] = row[t]
    BY <1>0, <1>1 DEF CreateTicket, UnownedIffUnassigned, NoRow, TypeOK
  <2>3. TimelineTellsTicket'
    BY <1>0, <2>1, <2>2 DEF TimelineTellsTicket
  <2>4. \A t \in Tickets : Precede(newest[t], clock + 1)
    BY <1>0, PrecedeLater DEF StampsArePast
  <2>5. \A x \in Txs : tx[x].op # "idle" => tx[x].now < clock + 1
    <3>1. ASSUME NEW x \in Txs, tx[x].op # "idle"
          PROVE  tx[x].now < clock + 1
      <4>1. tx[x].now \in Nat
        BY <1>0, <3>1, RequestHasStamp
      <4>2. QED  BY <1>0, <3>1, <4>1 DEF StampsArePast
    <3>2. QED  BY <3>1
  <2>6. QED  BY <1>0, <2>1, <2>3, <2>4, <2>5 DEF StampsArePast, Precede
<1>2. ASSUME NEW x \in Txs, Begin(x)
      PROVE  TimelineTellsTicket' /\ StampsArePast'
  <2>1. PICK q : Start(x, q) /\ q.now = clock
    BY <1>2, BeginStamps
  <2>2. /\ newest' = newest /\ row' = row /\ clock' = clock + 1
        /\ \A y \in Txs : tx'[y] = q
    BY <1>0, <2>1 DEF Start, TypeOK
  <2>3. \A t \in Tickets : Precede(newest[t], clock + 1)
    BY <1>0, PrecedeLater DEF StampsArePast
  <2>4. QED
    BY <1>0, <2>1, <2>2, <2>3 DEF TimelineTellsTicket, StampsArePast, Precede
<1>3. ASSUME NEW x \in Txs, Write(x)
      PROVE  TimelineTellsTicket' /\ StampsArePast'
  <2>1. Finish(x) /\ tx[x].op # "idle"
    BY <1>3 DEF Write, WriteAssign, WriteComment, WriteResolve, WriteEdit,
                WriteCompensation, WriteDelete
  <2>2. \A y \in Txs : tx'[y] = Idle
    BY <1>0, <2>1 DEF Finish, TypeOK
  <2>3. clock' = clock /\ tx[x].now \in Nat /\ tx[x].now < clock
    BY <1>0, <2>1, RequestHasStamp DEF Finish, StampsArePast
  <2>4. \A t \in Tickets : Tells(t, tx[x].now)
    BY <1>3, WriteTells
  <2>5. \A t \in Tickets : newest'[t] \in Newest
    BY <1>0 DEF TypeOK
  <2>6. tx[x].now + 1 \in Nat /\ tx[x].now + 1 <= clock
    BY <1>0, <2>3
  <2>7. \A t \in Tickets : Precede(newest'[t], clock)
    BY <1>0, <2>4, <2>5, <2>6, PrecedeLater DEF Tells
  <2>8. TimelineTellsTicket'
    BY <2>4 DEF Tells, TimelineTellsTicket
  <2>9. QED  BY <2>2, <2>3, <2>7, <2>8 DEF StampsArePast, Precede, Idle
<1>4. ASSUME NEW x \in Txs, Abort(x)
      PROVE  TimelineTellsTicket' /\ StampsArePast'
  <2>1. \A y \in Txs : tx'[y] = Idle
    BY <1>0, <1>4 DEF Abort, Finish, TypeOK
  <2>2. clock' = clock /\ newest' = newest /\ row' = row
    BY <1>4 DEF Abort, Finish
  <2>3. QED  BY <1>0, <2>1, <2>2 DEF TimelineTellsTicket, StampsArePast, Precede, Idle
<1>5. \A x \in Txs : ~ResolveFallsBack(x)
  BY DEF OneAtATime, ReadsAreNow, ResolveFallsBack, ReadIsNow, ClaimsCompletion
<1>6. CASE UNCHANGED vars
  BY <1>0, <1>6 DEF vars, TimelineTellsTicket, StampsArePast, Precede
<1>7. QED  BY <1>1, <1>2, <1>3, <1>4, <1>5, <1>6 DEF Next

\* With one request at a time what has been read is still so at the write.
THEOREM SerialOneAtATime ==
  ASSUME \A x, y \in Txs : x = y
  PROVE  Spec => []OneAtATime
<1>1. Init => OneAtATime
  <2>1. Init => ReadsAreNow /\ CalledBackIsFinal /\ TimelineTellsTicket /\ StampsArePast
    BY DEF Init, Idle, ReadsAreNow, ReadIsNow, CalledBackIsFinal, TimelineTellsTicket,
           StampsArePast, Precede, NoEntries, NoRow
  <2>2. QED  BY <2>1, InitConsistent DEF OneAtATime
<1>2. OneAtATime /\ [Next]_vars => OneAtATime'
  BY StepConsistent, ReadsAreNowStep, CalledBackStep, TimelineStep DEF OneAtATime
<1>3. QED  BY <1>1, <1>2, PTL DEF Spec

\* With one request at a time the last entries of a timeline, in the order of their
\* stamps, name the status and the owner that the ticket has.
THEOREM SerialTimelineIsTrue ==
  ASSUME \A x, y \in Txs : x = y
  PROVE  Spec => []TimelineTellsTicket
<1>1. Spec => []OneAtATime
  BY SerialOneAtATime
<1>2. OneAtATime => TimelineTellsTicket
  BY DEF OneAtATime
<1>3. QED  BY <1>1, <1>2, PTL

\* With one request at a time the ticket services keep every promise of their
\* documentation at once: each step is one of TicketContract, or is not seen.
THEOREM SerialKeepsContract ==
  ASSUME \A x, y \in Txs : x = y
  PROVE  Spec => ImplementsContract
<1>1. Spec => []OneAtATime
  BY SerialOneAtATime
<1>2. Init => Contract!Init
  BY DEF Init, NoRow, Seen, Contract!Init, Contract!Fresh
<1>3. OneAtATime /\ [Next]_vars => [Contract!Next]_Seen
  BY EveryStepAllowed DEF Contract!Next
<1>4. QED  BY <1>1, <1>2, <1>3, PTL DEF Spec, ImplementsContract, Contract!Spec

\* With one request at a time nothing takes a completed ticket back
\* (ticket-resolve.service.ts:15); overlapping ones do (CompletedIsFinal is
\* violated by a stale first assignment).
THEOREM SerialCompletedIsFinal ==
  ASSUME \A x, y \in Txs : x = y
  PROVE  Spec => CompletedIsFinal
<1>1. Spec => []OneAtATime
  BY SerialOneAtATime
<1>2. ASSUME OneAtATime, [Next]_vars, NEW t \in Tickets, row[t].status = "completed"
      PROVE  row'[t].status = "completed"
  <2>1. PICK v, w : v = Seen[t] /\ w = Seen'[t]
    OBVIOUS
  <2>2. v.status = "completed" /\ w.status = row'[t].status
    BY <1>2, <2>1 DEF Seen
  <2>3. Contract!Allowed(t, v, w)
    BY <1>2, <2>1, EveryStepAllowed
  <2>4. w = v \/ Contract!Deleted(v, w)
    BY <2>2, <2>3
    DEF Contract!Allowed, Contract!Opened, Contract!FirstAssigned, Contract!FollowedUp,
        Contract!Completed, Contract!Restamped, Contract!Compensated
  <2>5. w.status = v.status
    BY <2>1, <2>4 DEF Contract!Deleted, Seen
  <2>6. QED  BY <2>2, <2>5
<1>3. OneAtATime /\ [Next]_vars =>
        [\A t \in Tickets : row[t].status = "completed" => row'[t].status = "completed"]_vars
  BY <1>2
<1>4. QED  BY <1>1, <1>3, PTL DEF Spec, CompletedIsFinal
=============================================================================
