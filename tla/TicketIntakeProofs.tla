--------------------------- MODULE TicketIntakeProofs --------------------------
(***************************************************************************)
(* Proofs about TicketIntake, for any number of tickets, doors, catalog    *)
(* entries and requests at once.                                           *)
(*                                                                         *)
(* The requests keep their promises to each other because of what they     *)
(* hold (Promises): of the submissions of an account one at most is past   *)
(* its check, of the revocations of a batch one at most has claimed it, and *)
(* while a revocation is past its check, every ticket of the batch is in   *)
(* its hands.  Two lemmas say what an insert and what work on a ticket do   *)
(* to the sets of tickets that the promises are about; a third carries the *)
(* promises over the end of a request; then there is one lemma per action. *)
(***************************************************************************)
EXTENDS TicketIntake, FiniteSetTheorems, TLAPS

AtMostOne(S) == \A x, y \in S : x = y

\* What a request is about fits what it does.
Aimed ==
  \A q \in Requests :
    /\ request[q].op = "push" => request[q].on \in Endorsements
    /\ request[q].op \in {"submit", "pin"} => request[q].on \in Accounts
    /\ request[q].op \in {"import", "revoke"} => request[q].on \in Batches
    /\ request[q].op \in Work => request[q].on \in Tickets \ Fresh
    /\ request[q].op = "drop" => request[q].on \in Entries

CheckedAlone ==
  \A q \in Requests, u \in Accounts : At(q, "submit", "checked") /\ request[q].on = u =>
    /\ NeverClosed(u) = {}
    /\ \A p \in Requests : At(p, "submit", "checked") /\ request[p].on = u => p = q

ClaimedAlone ==
  \A q \in Requests : Revoking(q) =>
    /\ batch[request[q].on] = "live"
    /\ \A p \in Requests : Revoking(p) /\ request[p].on = request[q].on => p = q

CleanInHand ==
  \A q \in Requests, b \in Batches : At(q, "revoke", "checked") /\ request[q].on = b =>
    request[q].held = Undeleted(b) /\ Processed(b) = {}

Promises == Aimed /\ CheckedAlone /\ ClaimedAlone /\ CleanInHand

OneEach ==
  /\ \A n \in Endorsements : AtMostOne(From(n)) /\ answers[n] \subseteq From(n)
  /\ \A u \in Accounts : AtMostOne(NeverClosed(u))

Consistent == TypeOK /\ Promises /\ OneEach /\ ReferencesExist

-----------------------------------------------------------------------------
(* What happens to the sets of tickets. *)

\* Tickets come in: only the sets of their door change.
LEMMA InsertEffect ==
  ASSUME TypeOK, NEW ts \in SUBSET Fresh, NEW d \in Doors, NEW e \in Refs, NEW done,
         Insert(ts, d, e, done)
  PROVE  /\ ticket' \in [Tickets -> Ticket]
         /\ \A t \in ts : ticket'[t].ref = e
         /\ \A t \in Tickets \ ts : ticket'[t] = ticket[t]
         /\ Fresh' = Fresh \ ts
         /\ \A c : From(c)' = IF c = d THEN From(c) \union ts ELSE From(c)
         /\ \A c : c # d => /\ NeverClosed(c)' = NeverClosed(c)
                          /\ Undeleted(c)' = Undeleted(c)
                          /\ Processed(c)' = Processed(c)
<1>0. ts \subseteq Tickets /\ \A t \in ts : ticket[t].status = "none" BY DEF Fresh
<1>1. /\ \A t \in ts :
           /\ ticket'[t] \in Ticket
           /\ ticket'[t].ref = e /\ ticket'[t].from = d /\ ticket'[t].status # "none"
      /\ \A t \in Tickets \ ts : ticket'[t] = ticket[t]
  BY <1>0 DEF Insert, Ticket, Status
<1>2. ticket' \in [Tickets -> Ticket] BY <1>1 DEF TypeOK, Insert
<1>3. Fresh' = Fresh \ ts BY <1>0, <1>1 DEF Fresh
<1>4. \A c : From(c)' = IF c = d THEN From(c) \union ts ELSE From(c)
  BY <1>0, <1>1 DEF From
<1>5. ASSUME NEW c, c # d
      PROVE  /\ NeverClosed(c)' = NeverClosed(c)
             /\ Undeleted(c)' = Undeleted(c)
             /\ Processed(c)' = Processed(c)
  <2>1. From(c)' = From(c) BY <1>4, <1>5
  <2>2. \A t \in From(c) : t \in Tickets \ ts /\ ticket'[t] = ticket[t]
    BY <1>0, <1>1 DEF From
  <2>3. NeverClosed(c)' = NeverClosed(c) BY <2>1, <2>2 DEF NeverClosed, Duplicates
  <2>4. Undeleted(c)' = Undeleted(c) BY <2>1, <2>2 DEF Undeleted
  <2>5. Processed(c)' = Processed(c) BY <2>1, <2>2, <2>4 DEF Processed
  <2> QED BY <2>3, <2>4, <2>5
<1> QED BY <1>1, <1>2, <1>3, <1>4, <1>5

\* A ticket is worked on: no door has other tickets, none is opened, and only
\* its own door sees a difference.
LEMMA WorkEffect ==
  ASSUME TypeOK, NEW t \in Tickets \ Fresh, NEW row \in Ticket,
         row.from = ticket[t].from, row.status # "none",
         row.status \in {"unassigned", "owned"} /\ ~row.deleted =>
           ticket[t].status \in {"unassigned", "owned"} /\ ~ticket[t].deleted,
         ticket' = [ticket EXCEPT ![t] = row]
  PROVE  /\ ticket' \in [Tickets -> Ticket]
         /\ ticket'[t] = row /\ \A o \in Tickets \ {t} : ticket'[o] = ticket[o]
         /\ Fresh' = Fresh
         /\ \A c : From(c)' = From(c) /\ NeverClosed(c)' \subseteq NeverClosed(c)
         /\ \A c : t \notin From(c) => /\ Undeleted(c)' = Undeleted(c)
                                     /\ Processed(c)' = Processed(c)
<1>1. /\ ticket' \in [Tickets -> Ticket]
      /\ ticket'[t] = row /\ \A o \in Tickets \ {t} : ticket'[o] = ticket[o]
  BY DEF TypeOK
<1>2. t \in Tickets /\ ticket[t].status # "none" BY DEF Fresh
<1>3. Fresh' = Fresh BY <1>1, <1>2 DEF Fresh
<1>4. \A c : From(c)' = From(c) BY <1>1, <1>2 DEF From
<1>5. ASSUME NEW c, NEW o \in NeverClosed(c)' PROVE o \in NeverClosed(c)
  <2>1. /\ o \in From(c) /\ ~ticket'[o].deleted
        /\ ticket'[o].status \notin {"completed", "reopened"}
    BY <1>4, <1>5 DEF NeverClosed, Duplicates
  <2>2. o \in Tickets /\ ticket[o].status # "none" BY <2>1 DEF From
  <2>3. CASE o = t
    <3>1. row.status \in {"unassigned", "owned"} /\ ~row.deleted
      BY <1>1, <2>1, <2>3 DEF Ticket, Status
    <3> QED BY <2>1, <2>3, <3>1 DEF NeverClosed, Duplicates
  <2>4. CASE o # t BY <1>1, <2>1, <2>2, <2>4 DEF NeverClosed, Duplicates
  <2> QED BY <2>3, <2>4
<1>6. ASSUME NEW c, t \notin From(c)
      PROVE  Undeleted(c)' = Undeleted(c) /\ Processed(c)' = Processed(c)
  <2>1. \A o \in From(c) : ticket'[o] = ticket[o] BY <1>1, <1>6 DEF From
  <2>2. Undeleted(c)' = Undeleted(c) BY <1>4, <2>1 DEF Undeleted
  <2> QED BY <1>4, <2>1, <2>2 DEF Processed
<1>7. \A c : From(c)' = From(c) /\ NeverClosed(c)' \subseteq NeverClosed(c) BY <1>4, <1>5
<1> QED BY <1>1, <1>3, <1>6, <1>7

-----------------------------------------------------------------------------
(* What happens to the requests. *)

\* A request goes on and changes nothing yet: what it may become.
LEMMA RequestStep ==
  ASSUME Consistent, NEW q \in Requests, NEW r \in Request, asked' \in 0..MaxAsked,
         request' = [request EXCEPT ![q] = r],
         UNCHANGED <<ticket, entry, prefill, batch, answers>>,
         r.op = "push" => r.on \in Endorsements,
         r.op \in {"submit", "pin"} => r.on \in Accounts,
         r.op \in {"import", "revoke"} => r.on \in Batches,
         r.op \in Work => r.on \in Tickets \ Fresh,
         r.op = "drop" => r.on \in Entries,
         r.held # {} => r.op = "revoke" /\ r.pc \in {"claimed", "checked"},
         r.held \subseteq From(r.on),
         r.op = "submit" /\ r.pc = "checked" =>
           /\ NeverClosed(r.on) = {}
           /\ \A p \in Requests \ {q} :
                ~(At(p, "submit", "checked") /\ request[p].on = r.on),
         r.op = "revoke" /\ r.pc \in {"claimed", "checked"} =>
           /\ batch[r.on] = "live"
           /\ \A p \in Requests \ {q} : ~(Revoking(p) /\ request[p].on = r.on),
         r.op = "revoke" /\ r.pc = "checked" =>
           r.held = Undeleted(r.on) /\ Processed(r.on) = {}
  PROVE  Consistent'
<1> USE DEF Consistent, Promises
<1>1. /\ request'[q] = r /\ \A p \in Requests \ {q} : request'[p] = request[p]
      /\ request' \in [Requests -> Request]
  BY DEF TypeOK
<1>2. /\ Fresh' = Fresh
      /\ \A c : /\ From(c)' = From(c) /\ NeverClosed(c)' = NeverClosed(c)
              /\ Undeleted(c)' = Undeleted(c) /\ Processed(c)' = Processed(c)
  BY DEF Fresh, From, NeverClosed, Duplicates, Undeleted, Processed
<1>3. /\ \A op, pc : At(q, op, pc)' <=> r.op = op /\ r.pc = pc
      /\ \A p \in Requests \ {q} : \A op, pc : At(p, op, pc)' <=> At(p, op, pc)
  BY <1>1 DEF At
<1>4. /\ Revoking(q)' <=> r.op = "revoke" /\ r.pc \in {"claimed", "checked"}
      /\ \A p \in Requests \ {q} : Revoking(p)' <=> Revoking(p)
  BY <1>1 DEF Revoking, At
<1>5. TypeOK' BY <1>1, <1>2, <1>4 DEF TypeOK
<1>6. Aimed' BY <1>1, <1>2 DEF Aimed
<1>7. CheckedAlone' BY <1>1, <1>2, <1>3 DEF CheckedAlone
<1>8. ClaimedAlone' BY <1>1, <1>4 DEF ClaimedAlone
<1>9. CleanInHand' BY <1>1, <1>2, <1>3 DEF CleanInHand
<1>10. OneEach' BY <1>2 DEF OneEach, AtMostOne
<1>11. ReferencesExist' BY DEF ReferencesExist, Refers
<1> QED BY <1>5, <1>6, <1>7, <1>8, <1>9, <1>10, <1>11

\* A request ends: the others keep their promises if nobody but a checked
\* submission opens a ticket, and batches being revoked are left alone.
LEMMA RequestEnd ==
  ASSUME Consistent, NEW q \in Requests, End(q),
         Fresh' \subseteq Fresh,
         \A c : From(c) \subseteq From(c)',
         \A u \in Accounts :
           \/ NeverClosed(u)' \subseteq NeverClosed(u)
           \/ At(q, "submit", "checked") /\ u = request[q].on,
         \A p \in Requests \ {q}, b \in Batches : Revoking(p) /\ request[p].on = b =>
           /\ batch'[b] = batch[b]
           /\ At(p, "revoke", "checked") =>
                Undeleted(b)' = Undeleted(b) /\ Processed(b)' = Processed(b),
         ticket' \in [Tickets -> Ticket], \A t \in Fresh' : ticket'[t] = NoTicket,
         entry' \in [Entries -> {"new", "active", "disabled", "deleted"}],
         prefill' \in [Accounts -> Refs],
         batch' \in [Batches -> {"none", "live", "revoked"}],
         answers' \in [Endorsements -> SUBSET Tickets]
  PROVE  TypeOK' /\ Promises'
<1> USE DEF Consistent, Promises
<1>1. /\ request'[q] = Idle /\ \A p \in Requests \ {q} : request'[p] = request[p]
      /\ request' \in [Requests -> Request] /\ asked' = asked
  BY DEF TypeOK, End, Idle, Request, Doors, Refs
<1>2. Idle.op = "none" /\ Idle.held = {} BY DEF Idle
<1>3. /\ \A op, pc : op # "none" => ~At(q, op, pc)'
      /\ \A p \in Requests \ {q} : \A op, pc : At(p, op, pc)' <=> At(p, op, pc)
  BY <1>1, <1>2 DEF At
<1>4. ~Revoking(q)' /\ \A p \in Requests \ {q} : Revoking(p)' <=> Revoking(p)
  BY <1>1, <1>2 DEF Revoking, At
<1>5. TypeOK' BY <1>1, <1>2, <1>4 DEF TypeOK
<1>6. Aimed'
  BY <1>1, <1>2 DEF Aimed, Work
<1>7. CheckedAlone'
  <2> SUFFICES ASSUME NEW p \in Requests, NEW u \in Accounts,
                      At(p, "submit", "checked")', request'[p].on = u
               PROVE  /\ NeverClosed(u)' = {}
                      /\ \A o \in Requests :
                           At(o, "submit", "checked")' /\ request'[o].on = u => o = p
    BY DEF CheckedAlone
  <2>1. p # q /\ At(p, "submit", "checked") /\ request[p].on = u BY <1>1, <1>3
  <2>2. /\ NeverClosed(u) = {}
        /\ \A o \in Requests : At(o, "submit", "checked") /\ request[o].on = u => o = p
    BY <2>1 DEF CheckedAlone
  <2>3. NeverClosed(u)' \subseteq NeverClosed(u) BY <2>1, <2>2
  <2> QED BY <1>1, <1>3, <2>2, <2>3
<1>8. ClaimedAlone'
  <2>1. \A p \in Requests : Revoking(p)' =>
          p # q /\ Revoking(p) /\ request'[p] = request[p] /\ request[p].on \in Batches
    BY <1>1, <1>4 DEF Aimed, Revoking, At
  <2>2. \A p \in Requests : Revoking(p)' => batch'[request'[p].on] = batch[request[p].on]
    BY <2>1
  <2> QED BY <2>1, <2>2 DEF ClaimedAlone
<1>9. CleanInHand'
  <2> SUFFICES ASSUME NEW p \in Requests, NEW b \in Batches,
                      At(p, "revoke", "checked")', request'[p].on = b
               PROVE  request'[p].held = Undeleted(b)' /\ Processed(b)' = {}
    BY DEF CleanInHand
  <2>1. p # q /\ At(p, "revoke", "checked") /\ request'[p] = request[p] /\ request[p].on = b
    BY <1>1, <1>3
  <2>2. Undeleted(b)' = Undeleted(b) /\ Processed(b)' = Processed(b) BY <2>1 DEF Revoking
  <2>3. request[p].held = Undeleted(b) /\ Processed(b) = {} BY <2>1 DEF CleanInHand
  <2> QED BY <2>1, <2>2, <2>3
<1> QED BY <1>5, <1>6, <1>7, <1>8, <1>9

-----------------------------------------------------------------------------
(* Each action keeps Consistent. *)

LEMMA BeginKeeps ==
  ASSUME Consistent, NEW q \in Requests, BeginAny(q)
  PROVE  Consistent'
<1>1. PICK op, d, e :
        /\ Begin(q, op, d, e)
        /\ op \in {"push", "submit", "create", "import", "revoke", "drop", "pin"} \union Work
        /\ d \in Doors \union Tickets \union Entries /\ e \in Refs
        /\ op = "push" => d \in Endorsements
        /\ op \in {"submit", "pin"} => d \in Accounts
        /\ op \in {"import", "revoke"} => d \in Batches
        /\ op \in Work => d \in Tickets \ Fresh
        /\ op = "drop" => d \in Entries
  <2> USE DEF Doors, Refs
  <2>1. CASE \E n \in Endorsements : BeginPush(q, n) BY <2>1 DEF BeginPush, Work
  <2>2. CASE \E u \in Accounts : BeginSubmit(q, u)
    BY <2>2 DEF BeginSubmit, Work, Consistent, TypeOK
  <2>3. CASE \E u \in Accounts, e \in Refs : BeginPin(q, u, e) BY <2>3 DEF BeginPin, Work
  <2>4. CASE \E e \in Refs : BeginCreate(q, e) BY <2>4 DEF BeginCreate, Work
  <2>5. CASE \E b \in Batches, e \in Refs : BeginImport(q, b, e) BY <2>5 DEF BeginImport, Work
  <2>6. CASE \E op \in Work, t \in Tickets, e \in Refs : BeginWork(q, op, t, e)
    BY <2>6 DEF BeginWork, Work, Live, Fresh
  <2>7. CASE \E b \in Batches : BeginRevoke(q, b) BY <2>7 DEF BeginRevoke, Work
  <2>8. CASE \E e \in Entries : BeginDrop(q, e) BY <2>8 DEF BeginDrop, Work
  <2> QED BY <2>1, <2>2, <2>3, <2>4, <2>5, <2>6, <2>7, <2>8 DEF BeginAny
<1>2. PICK r : r = [op |-> op, pc |-> "read", on |-> d, ref |-> e, held |-> {}] OBVIOUS
<1>3. r \in Request BY <1>1, <1>2 DEF Request
<1>4. asked' \in 0..MaxAsked
  BY <1>1, ConstantsAssumption DEF Begin, Consistent, TypeOK
<1>5. /\ request' = [request EXCEPT ![q] = r]
      /\ UNCHANGED <<ticket, entry, prefill, batch, answers>>
  BY <1>1, <1>2 DEF Begin
<1> QED BY <1>1, <1>2, <1>3, <1>4, <1>5, RequestStep

LEMMA CheckDuplicatesKeeps ==
  ASSUME Consistent, NEW q \in Requests, CheckDuplicates(q)
  PROVE  Consistent'
<1> USE DEF Consistent, Promises
<1>1. /\ At(q, "submit", "read") /\ request[q] \in Request /\ asked \in 0..MaxAsked
      /\ AccountFree(request[q].on) /\ request[q].on \in Accounts /\ request[q].held = {}
  BY DEF CheckDuplicates, TypeOK, Aimed, At, Revoking
<1>2. CASE Duplicates(request[q].on) = {}
  <2>1. PICK r : r = [request[q] EXCEPT !.pc = "checked"] OBVIOUS
  <2>2. /\ r \in Request /\ r.op = "submit" /\ r.pc = "checked"
        /\ r.on = request[q].on /\ r.held = {}
    BY <1>1, <2>1 DEF Request, At
  <2>3. /\ request' = [request EXCEPT ![q] = r] /\ asked' = asked
        /\ UNCHANGED <<ticket, entry, prefill, batch, answers>>
    BY <1>2, <2>1 DEF CheckDuplicates
  <2>4. \A p \in Requests \ {q} : ~(At(p, "submit", "checked") /\ request[p].on = r.on)
    BY <1>1, <2>2 DEF AccountFree
  <2>5. NeverClosed(r.on) = {} BY <1>2, <2>2 DEF NeverClosed
  <2> QED BY <1>1, <2>2, <2>3, <2>4, <2>5, RequestStep DEF Work
<1>3. CASE Duplicates(request[q].on) # {}
  <2>1. /\ request' = [request EXCEPT ![q] = Idle] /\ asked' = asked
        /\ UNCHANGED <<ticket, entry, prefill, batch, answers>>
    BY <1>3 DEF CheckDuplicates
  <2>2. Idle \in Request /\ Idle.op = "none" /\ Idle.held = {}
    BY DEF Idle, Request, Doors, Refs
  <2> QED BY <1>1, <2>1, <2>2, RequestStep DEF Work
<1> QED BY <1>2, <1>3

LEMMA RevokingKeeps ==
  ASSUME Consistent, NEW q \in Requests,
         ClaimBatch(q) \/ (\E t \in Tickets : LockTicket(q, t)) \/ CheckProcessed(q)
  PROVE  Consistent'
<1> USE DEF Consistent, Promises
<1>1. /\ request[q] \in Request /\ asked' = asked /\ asked \in 0..MaxAsked
      /\ request[q].op = "revoke" /\ request[q].on \in Batches
      /\ request[q].held \subseteq From(request[q].on)
      /\ UNCHANGED <<ticket, entry, prefill, batch, answers>>
  BY DEF ClaimBatch, LockTicket, CheckProcessed, TypeOK, Aimed, At, Revoking
<1>2. CASE ClaimBatch(q)
  <2>1. PICK r : r = [request[q] EXCEPT !.pc = "claimed"] OBVIOUS
  <2>2. /\ r \in Request /\ r.op = "revoke" /\ r.pc = "claimed"
        /\ r.on = request[q].on /\ r.held = request[q].held
    BY <1>1, <2>1 DEF Request
  <2>3. request' = [request EXCEPT ![q] = r] BY <1>2, <2>1 DEF ClaimBatch
  <2>4. /\ batch[r.on] = "live"
        /\ \A p \in Requests \ {q} : ~(Revoking(p) /\ request[p].on = r.on)
    BY <1>2, <2>2 DEF ClaimBatch
  <2> QED BY <1>1, <2>2, <2>3, <2>4, RequestStep DEF Work
<1>3. ASSUME NEW t \in Tickets, LockTicket(q, t) PROVE Consistent'
  <2>1. PICK r : r = [request[q] EXCEPT !.held = @ \union {t}] OBVIOUS
  <2>2. /\ r \in Request /\ r.op = "revoke" /\ r.pc = request[q].pc
        /\ r.on = request[q].on /\ r.held = request[q].held \union {t}
    BY <1>1, <2>1 DEF Request
  <2>3. request' = [request EXCEPT ![q] = r] BY <1>3, <2>1 DEF LockTicket
  <2>4. /\ Revoking(q) /\ t \in Undeleted(r.on) \ request[q].held
        /\ r.held \subseteq From(r.on)
    BY <1>1, <1>3, <2>2 DEF LockTicket, Undeleted
  <2>5. r.pc = "claimed" BY <1>1, <2>2, <2>4 DEF Revoking, CleanInHand, At
  <2>6. /\ batch[r.on] = "live"
        /\ \A p \in Requests \ {q} : ~(Revoking(p) /\ request[p].on = r.on)
    BY <2>2, <2>4 DEF ClaimedAlone
  <2> QED BY <1>1, <2>2, <2>3, <2>4, <2>5, <2>6, RequestStep DEF Work
<1>4. CASE CheckProcessed(q)
  <2>1. PICK r : r = [request[q] EXCEPT !.pc = "checked"] OBVIOUS
  <2>2. /\ r \in Request /\ r.op = "revoke" /\ r.pc = "checked"
        /\ r.on = request[q].on /\ r.held = request[q].held
    BY <1>1, <2>1 DEF Request
  <2>3. request' = [request EXCEPT ![q] = r] BY <1>4, <2>1 DEF CheckProcessed
  <2>4. Revoking(q) /\ r.held = Undeleted(r.on) /\ Processed(r.on) = {}
    BY <1>4, <2>2 DEF CheckProcessed, Revoking, AllLocked
  <2>5. /\ batch[r.on] = "live"
        /\ \A p \in Requests \ {q} : ~(Revoking(p) /\ request[p].on = r.on)
    BY <2>2, <2>4 DEF ClaimedAlone
  <2> QED BY <1>1, <2>2, <2>3, <2>4, <2>5, RequestStep DEF Work
<1> QED BY <1>2, <1>3, <1>4

LEMMA AbortKeeps ==
  ASSUME Consistent, NEW q \in Requests, Abort(q)
  PROVE  Consistent'
<1>1. /\ request' = [request EXCEPT ![q] = Idle] /\ asked' = asked
      /\ UNCHANGED <<ticket, entry, prefill, batch, answers>>
  BY DEF Abort, End
<1>2. Idle \in Request /\ Idle.op = "none" /\ Idle.held = {}
  BY DEF Idle, Request, Doors, Refs
<1>3. asked \in 0..MaxAsked BY DEF Consistent, TypeOK
<1> QED BY <1>1, <1>2, <1>3, RequestStep DEF Work

\* What a commit that lets tickets ts in through door d leaves to show.
LEMMA InsertKeeps ==
  ASSUME Consistent, NEW q \in Requests, End(q),
         NEW ts \in SUBSET Fresh, NEW d \in Doors, NEW e \in Refs, NEW done,
         Insert(ts, d, e, done), Refers(e), UNCHANGED <<entry, prefill>>,
         batch' \in [Batches -> {"none", "live", "revoked"}],
         \A b \in Batches : batch[b] = "live" => batch'[b] = batch[b] /\ d # b,
         answers' \in [Endorsements -> SUBSET Tickets],
         \A n \in Endorsements :
           answers'[n] \subseteq answers[n] \union (IF n = d THEN ts ELSE {}),
         d \in Endorsements => AtMostOne(ts) /\ From(d) = {},
         d \in Accounts => AtMostOne(ts) /\ At(q, "submit", "checked") /\ d = request[q].on
  PROVE  Consistent'
<1> USE DEF Consistent, Promises
<1>1. /\ ticket' \in [Tickets -> Ticket]
      /\ \A t \in ts : ticket'[t].ref = e
      /\ \A t \in Tickets \ ts : ticket'[t] = ticket[t]
      /\ Fresh' = Fresh \ ts
      /\ \A c : From(c)' = IF c = d THEN From(c) \union ts ELSE From(c)
      /\ \A c : c # d => /\ NeverClosed(c)' = NeverClosed(c)
                       /\ Undeleted(c)' = Undeleted(c)
                       /\ Processed(c)' = Processed(c)
  BY ZenonT(60), InsertEffect
<1>2. \A t \in Fresh' : ticket'[t] = NoTicket BY <1>1 DEF TypeOK, Fresh
<1>3. ASSUME NEW u \in Accounts
      PROVE  \/ NeverClosed(u)' \subseteq NeverClosed(u)
             \/ At(q, "submit", "checked") /\ u = request[q].on
  BY <1>1
<1>4. ASSUME NEW p \in Requests \ {q}, NEW b \in Batches, Revoking(p), request[p].on = b
      PROVE  batch'[b] = batch[b] /\ Undeleted(b)' = Undeleted(b) /\ Processed(b)' = Processed(b)
  <2>1. batch[b] = "live" BY <1>4 DEF ClaimedAlone
  <2> QED BY <1>1, <2>1
<1>5. entry' \in [Entries -> {"new", "active", "disabled", "deleted"}] /\ prefill' \in [Accounts -> Refs]
  BY DEF TypeOK
<1>6. Fresh' \subseteq Fresh /\ \A c : From(c) \subseteq From(c)' BY <1>1
<1>7. TypeOK' /\ Promises' BY <1>1, <1>2, <1>3, <1>4, <1>5, <1>6, RequestEnd
<1>8. OneEach'
  <2>1. ASSUME NEW n \in Endorsements
        PROVE  AtMostOne(From(n)') /\ answers'[n] \subseteq From(n)'
    BY <1>1 DEF OneEach, AtMostOne
  <2>2. ASSUME NEW u \in Accounts PROVE AtMostOne(NeverClosed(u)')
    <3>1. CASE u = d
      <4>1. AtMostOne(ts) /\ NeverClosed(u) = {} BY <3>1 DEF CheckedAlone
      <4>2. NeverClosed(u)' \subseteq ts BY <1>1, <3>1, <4>1 DEF NeverClosed, Duplicates, From
      <4> QED BY <4>1, <4>2 DEF AtMostOne
    <3>2. CASE u # d BY <1>1, <3>2 DEF OneEach
    <3> QED BY <3>1, <3>2
  <2> QED BY <2>1, <2>2 DEF OneEach, AtMostOne
<1>9. ReferencesExist' BY <1>1 DEF ReferencesExist, Refers
<1> QED BY <1>7, <1>8, <1>9

LEMMA CommitPushKeeps ==
  ASSUME Consistent, NEW q \in Requests, CommitPush(q)
  PROVE  Consistent'
<1> USE DEF Consistent, Promises
<1>1. PICK n : n = request[q].on OBVIOUS
<1>2. /\ n \in Endorsements /\ End(q) /\ UNCHANGED <<entry, prefill, batch>>
      /\ n \notin Accounts /\ n \notin Batches
  BY <1>1, ConstantsAssumption DEF CommitPush, At, Aimed
<1>3. CASE Taken(n)
  <2>1. PICK t \in From(n) : Answer(n, t) /\ ticket' = ticket
    BY <1>1, <1>3 DEF CommitPush
  <2>2. /\ \A c : From(c)' = From(c) /\ NeverClosed(c)' = NeverClosed(c)
                 /\ Undeleted(c)' = Undeleted(c) /\ Processed(c)' = Processed(c)
        /\ Fresh' = Fresh
    BY <2>1 DEF From, NeverClosed, Duplicates, Undeleted, Processed, Fresh
  <2>3. /\ answers' \in [Endorsements -> SUBSET Tickets]
        /\ \A m \in Endorsements : answers'[m] \subseteq From(m)
    BY ZenonT(60), <1>2, <2>1 DEF Answer, TypeOK, OneEach, From
  <2>4. TypeOK' /\ Promises' BY <1>2, <2>1, <2>2, <2>3, RequestEnd DEF TypeOK
  <2>5. OneEach' BY <2>2, <2>3 DEF OneEach, AtMostOne
  <2>6. ReferencesExist' BY <1>2, <2>1 DEF ReferencesExist, Refers
  <2> QED BY <2>4, <2>5, <2>6
<1>4. CASE ~Taken(n)
  <2>1. PICK t \in Fresh : Insert({t}, n, None, {}) /\ Answer(n, t)
    BY <1>1, <1>4 DEF CommitPush
  <2>2. /\ answers' \in [Endorsements -> SUBSET Tickets]
        /\ \A m \in Endorsements :
             answers'[m] \subseteq answers[m] \union (IF m = n THEN {t} ELSE {})
    BY <1>2, <2>1 DEF Answer, TypeOK, Fresh
  <2>3. /\ AtMostOne({t}) /\ From(n) = {} /\ {t} \in SUBSET Fresh
        /\ n \in Doors /\ None \in Refs /\ Refers(None)
    BY <1>2, <1>4 DEF AtMostOne, Taken, Doors, Refs, Refers
  <2>4. batch' \in [Batches -> {"none", "live", "revoked"}] /\ \A b \in Batches : batch'[b] = batch[b] /\ n # b
    BY <1>2 DEF TypeOK
  <2> QED BY <1>2, <2>1, <2>2, <2>3, <2>4, InsertKeeps
<1> QED BY <1>3, <1>4

LEMMA CommitInsertKeeps ==
  ASSUME Consistent, NEW q \in Requests,
         CommitSubmit(q) \/ CommitCreate(q) \/ CommitImport(q)
  PROVE  Consistent'
<1> USE DEF Consistent, Promises
<1>1. /\ End(q) /\ UNCHANGED <<entry, prefill, answers>> /\ answers' \in [Endorsements -> SUBSET Tickets]
      /\ Refers(request[q].ref)
  BY DEF CommitSubmit, CommitCreate, CommitImport, TypeOK
<1>2. PICK e : e = request[q].ref OBVIOUS
<1>3. e \in Refs /\ Refers(e) BY <1>1, <1>2 DEF TypeOK, Request
<1>4. CASE CommitSubmit(q)
  <2>1. PICK u : u = request[q].on OBVIOUS
  <2>2. u \in Accounts /\ At(q, "submit", "checked") /\ batch' = batch
    BY <1>4, <2>1 DEF CommitSubmit, At, Aimed
  <2>3. PICK t \in Fresh : Insert({t}, u, e, {}) BY <1>2, <1>4, <2>1 DEF CommitSubmit
  <2>4. /\ u \in Doors /\ u \notin Endorsements /\ u \notin Batches
        /\ AtMostOne({t}) /\ {t} \in SUBSET Fresh
    BY <2>2, ConstantsAssumption DEF Doors, AtMostOne
  <2>5. batch' \in [Batches -> {"none", "live", "revoked"}] BY <2>2 DEF TypeOK
  <2> QED BY <1>1, <1>3, <2>1, <2>2, <2>3, <2>4, <2>5, InsertKeeps
<1>5. CASE CommitCreate(q)
  <2>1. PICK t \in Fresh : Insert({t}, None, e, {}) /\ batch' = batch
    BY <1>2, <1>5 DEF CommitCreate
  <2>2. /\ None \in Doors /\ None \notin Endorsements /\ None \notin Accounts
        /\ None \notin Batches /\ {t} \in SUBSET Fresh
    BY ConstantsAssumption DEF Doors
  <2>3. batch' \in [Batches -> {"none", "live", "revoked"}] BY <2>1 DEF TypeOK
  <2> QED BY <1>1, <1>3, <2>1, <2>2, <2>3, InsertKeeps
<1>6. CASE CommitImport(q)
  <2>1. PICK b : b = request[q].on OBVIOUS
  <2>2. /\ b \in Batches /\ batch[b] = "none" /\ batch' = [batch EXCEPT ![b] = "live"]
    BY <1>6, <2>1 DEF CommitImport, At, Aimed
  <2>3. PICK ts \in SUBSET Fresh, done \in SUBSET Tickets : Insert(ts, b, e, done)
    BY <1>2, <1>6, <2>1 DEF CommitImport
  <2>4. b \in Doors /\ b \notin Endorsements /\ b \notin Accounts
    BY <2>2, ConstantsAssumption DEF Doors
  <2>5. /\ batch' \in [Batches -> {"none", "live", "revoked"}]
        /\ \A c \in Batches : batch[c] = "live" => batch'[c] = batch[c] /\ b # c
    BY <2>2 DEF TypeOK
  <2> QED BY <1>1, <1>3, <2>3, <2>4, <2>5, InsertKeeps
<1> QED BY <1>4, <1>5, <1>6

LEMMA CommitWorkKeeps ==
  ASSUME Consistent, NEW q \in Requests, CommitWork(q)
  PROVE  Consistent'
<1> USE DEF Consistent, Promises
<1>1. PICK t : t = request[q].on OBVIOUS
<1>2. /\ t \in Tickets \ Fresh /\ End(q) /\ RowFree(t)
      /\ UNCHANGED <<entry, prefill, batch, answers>> /\ request[q].ref \in Refs
  BY <1>1 DEF CommitWork, Aimed, TypeOK, Request
<1>3. ticket[t] \in Ticket /\ ticket[t].status # "none" BY SMTT(40), <1>2 DEF TypeOK, Fresh
<1>4. PICK row :
        /\ row \in Ticket /\ row.from = ticket[t].from /\ row.status # "none"
        /\ row.status \in {"unassigned", "owned"} /\ ~row.deleted =>
             ticket[t].status \in {"unassigned", "owned"} /\ ~ticket[t].deleted
        /\ Refers(row.ref)
        /\ ticket' = [ticket EXCEPT ![t] = row]
  <2>1. Refers(ticket[t].ref) BY <1>2 DEF ReferencesExist
  <2>2. CASE ticket' = [ticket EXCEPT ![t].status = Assigned(@), ![t].worked = TRUE]
    <3>1. PICK st : st = Assigned(ticket[t].status) OBVIOUS
    <3>2. /\ st \in Status \ {"none"}
          /\ st \in {"unassigned", "owned"} => ticket[t].status \in {"unassigned", "owned"}
      BY <1>3, <3>1 DEF Assigned, Ticket, Status
    <3>3. PICK row : row = [ticket[t] EXCEPT !.status = st, !.worked = TRUE] OBVIOUS
    <3>4. /\ row \in Ticket /\ row.from = ticket[t].from /\ row.status = st
          /\ row.deleted = ticket[t].deleted /\ row.ref = ticket[t].ref
      BY <1>3, <3>2, <3>3 DEF Ticket
    <3>5. ticket' = [ticket EXCEPT ![t] = row] BY <1>2, <2>2, <3>1, <3>3 DEF TypeOK
    <3> QED BY <2>1, <3>2, <3>4, <3>5
  <2>3. CASE ticket' = [ticket EXCEPT ![t].worked = TRUE]
    BY <1>3, <2>1, <2>3 DEF Ticket, TypeOK
  <2>4. CASE ticket' = [ticket EXCEPT ![t].status = "completed", ![t].worked = TRUE]
    BY <1>3, <2>1, <2>4 DEF Ticket, Status, TypeOK
  <2>5. CASE ticket' = [ticket EXCEPT ![t].deleted = TRUE]
    BY <1>3, <2>1, <2>5 DEF Ticket, TypeOK
  <2>6. CASE /\ Refers(request[q].ref)
             /\ ticket' = [ticket EXCEPT ![t].ref = request[q].ref, ![t].worked = TRUE]
    <3>1. PICK e \in Refs : e = request[q].ref BY <1>2
    <3>2. PICK row : row = [ticket[t] EXCEPT !.ref = e, !.worked = TRUE] OBVIOUS
    <3>3. /\ row \in Ticket /\ row.from = ticket[t].from /\ row.status = ticket[t].status
          /\ row.deleted = ticket[t].deleted /\ row.ref = e
      BY <1>3, <3>2 DEF Ticket
    <3>4. ticket' = [ticket EXCEPT ![t] = row] BY <1>2, <2>6, <3>1, <3>2 DEF TypeOK
    <3>5. Refers(row.ref) BY <2>6, <3>1, <3>3
    <3> QED BY <1>3, <3>3, <3>4, <3>5
  <2> QED BY <1>1, <2>2, <2>3, <2>4, <2>5, <2>6 DEF CommitWork
<1>5. /\ ticket' \in [Tickets -> Ticket]
      /\ ticket'[t] = row /\ \A o \in Tickets \ {t} : ticket'[o] = ticket[o]
      /\ Fresh' = Fresh
      /\ \A c : From(c)' = From(c) /\ NeverClosed(c)' \subseteq NeverClosed(c)
      /\ \A c : t \notin From(c) => Undeleted(c)' = Undeleted(c) /\ Processed(c)' = Processed(c)
  BY <1>2, <1>4, WorkEffect
<1>6. TypeOK' /\ Promises'
  <2>1. \A o \in Fresh' : ticket'[o] = NoTicket BY <1>2, <1>5 DEF TypeOK, Fresh
  <2>2. ASSUME NEW p \in Requests, NEW b \in Batches, At(p, "revoke", "checked"), request[p].on = b
        PROVE  Undeleted(b)' = Undeleted(b) /\ Processed(b)' = Processed(b)
    <3>1. request[p].held = Undeleted(b) /\ Processed(b) = {} BY <2>2 DEF CleanInHand
    <3>2. t \notin request[p].held BY <1>2 DEF RowFree
    <3>3. t \notin From(b) BY <3>1, <3>2 DEF Processed
    <3> QED BY <1>5, <3>3
  <2> QED BY <1>2, <1>5, <2>1, <2>2, RequestEnd DEF TypeOK
<1>7. OneEach' BY <1>2, <1>5 DEF OneEach, AtMostOne
<1>8. ReferencesExist' BY <1>2, <1>4, <1>5 DEF ReferencesExist, Refers
<1> QED BY <1>6, <1>7, <1>8

LEMMA CommitRevokeKeeps ==
  ASSUME Consistent, NEW q \in Requests, CommitRevoke(q)
  PROVE  /\ Consistent'
         /\ \A b \in Batches : batch[b] # "revoked" /\ batch'[b] = "revoked" =>
              /\ Processed(b) = {}
              /\ \A t \in From(b) : ticket'[t] = [ticket[t] EXCEPT !.deleted = TRUE]
<1> USE DEF Consistent, Promises
<1>1. PICK d : d = request[q].on OBVIOUS
<1>2. PICK gone : gone = request[q].held OBVIOUS
<1>3. /\ d \in Batches /\ End(q) /\ UNCHANGED <<entry, prefill, answers>>
      /\ At(q, "revoke", "checked") /\ batch' = [batch EXCEPT ![d] = "revoked"]
      /\ gone = Undeleted(d) /\ Processed(d) = {}
  BY <1>1, <1>2 DEF CommitRevoke, At, Aimed, CleanInHand
<1>4. /\ gone = From(d) /\ gone \subseteq Tickets
      /\ \A t \in gone : ticket[t].status # "none" /\ ticket[t].from = d
  BY <1>3 DEF Processed, Undeleted, From
<1>5. /\ \A t \in gone : ticket'[t] = [ticket[t] EXCEPT !.deleted = TRUE]
      /\ \A t \in Tickets \ gone : ticket'[t] = ticket[t]
      /\ ticket' = [t \in Tickets |-> ticket'[t]]
  BY <1>2, <1>4 DEF CommitRevoke
<1>6. ticket' \in [Tickets -> Ticket]
      /\ \A t \in Tickets :
           /\ ticket'[t].from = ticket[t].from /\ ticket'[t].status = ticket[t].status
           /\ ticket'[t].ref = ticket[t].ref /\ (ticket[t].deleted => ticket'[t].deleted)
  <2>1. ASSUME NEW t \in Tickets
        PROVE  /\ ticket'[t] \in Ticket
               /\ ticket'[t].from = ticket[t].from /\ ticket'[t].status = ticket[t].status
               /\ ticket'[t].ref = ticket[t].ref /\ (ticket[t].deleted => ticket'[t].deleted)
    <3>1. ticket[t] \in Ticket BY DEF TypeOK
    <3>2. CASE t \in gone
      <4>1. ticket'[t] = [ticket[t] EXCEPT !.deleted = TRUE] BY <1>5, <3>2
      <4> QED BY <3>1, <4>1 DEF Ticket
    <3>3. CASE t \notin gone BY <1>5, <3>1, <3>3
    <3> QED BY <3>2, <3>3
  <2>2. ticket' \in [Tickets -> Ticket] BY <1>5, <2>1
  <2> QED BY <2>1, <2>2
<1>7. Fresh' = Fresh /\ \A c : From(c)' = From(c) BY <1>6 DEF Fresh, From
<1>8. \A c : NeverClosed(c)' \subseteq NeverClosed(c)
  <2>1. ASSUME NEW c, NEW t \in NeverClosed(c)' PROVE t \in NeverClosed(c)
    BY <1>6, <1>7, <2>1 DEF NeverClosed, Duplicates, From
  <2> QED BY <2>1
<1>9. ASSUME NEW c, c # d
      PROVE  Undeleted(c)' = Undeleted(c) /\ Processed(c)' = Processed(c)
  <2>1. \A t \in From(c) : ticket'[t] = ticket[t] BY <1>4, <1>5, <1>9 DEF From
  <2>2. Undeleted(c)' = Undeleted(c) BY <1>7, <2>1 DEF Undeleted
  <2> QED BY <1>7, <2>1, <2>2 DEF Processed
<1>10. TypeOK' /\ Promises'
  <2>1. \A t \in Fresh' : ticket'[t] = NoTicket BY <1>4, <1>5, <1>7 DEF TypeOK, Fresh
  <2>2. ASSUME NEW p \in Requests \ {q}, NEW b \in Batches, Revoking(p), request[p].on = b
        PROVE  b # d
    BY <1>1, <1>3, <2>2 DEF ClaimedAlone, Revoking
  <2>3. batch' \in [Batches -> {"none", "live", "revoked"}] BY <1>3 DEF TypeOK
  <2>4. \A b \in Batches : b # d => batch'[b] = batch[b] BY <1>3 DEF TypeOK
  <2> QED BY <1>3, <1>6, <1>7, <1>8, <1>9, <2>1, <2>2, <2>3, <2>4, RequestEnd DEF TypeOK
<1>11. OneEach' BY <1>3, <1>7, <1>8 DEF OneEach, AtMostOne
<1>12. ReferencesExist'
  <2>1. \A t \in Tickets : ticket'[t].ref = ticket[t].ref BY <1>6
  <2> QED BY <1>3, <2>1 DEF ReferencesExist, Refers
<1>13. \A b \in Batches : batch[b] # "revoked" /\ batch'[b] = "revoked" => b = d
  BY <1>3 DEF TypeOK
<1> QED BY <1>3, <1>4, <1>5, <1>10, <1>11, <1>12, <1>13

LEMMA CatalogKeeps ==
  ASSUME Consistent, NEW q \in Requests, CommitPin(q) \/ CommitDrop(q)
  PROVE  Consistent'
<1> USE DEF Consistent, Promises
<1>1. End(q) /\ UNCHANGED <<ticket, batch, answers>> BY DEF CommitPin, CommitDrop
<1>2. /\ Fresh' = Fresh
      /\ \A c : /\ From(c)' = From(c) /\ NeverClosed(c)' = NeverClosed(c)
              /\ Undeleted(c)' = Undeleted(c) /\ Processed(c)' = Processed(c)
  BY <1>1 DEF Fresh, From, NeverClosed, Duplicates, Undeleted, Processed
<1>3. /\ prefill' \in [Accounts -> Refs]
      /\ entry' \in [Entries -> {"new", "active", "disabled", "deleted"}]
      /\ ReferencesExist'
  <2>1. CASE CommitPin(q)
    <3>1. PICK u, e : u = request[q].on /\ e = request[q].ref OBVIOUS
    <3>2. u \in Accounts /\ e \in Refs BY <2>1, <3>1 DEF CommitPin, At, Aimed, TypeOK, Request
    <3>3. prefill' = [prefill EXCEPT ![u] = e] /\ entry' = entry /\ Refers(e)
      BY <2>1, <3>1 DEF CommitPin
    <3> QED BY <1>1, <3>2, <3>3 DEF TypeOK, ReferencesExist, Refers
  <2>2. CASE CommitDrop(q)
    <3>1. PICK e : e = request[q].on OBVIOUS
    <3>2. e \in Entries BY <2>2, <3>1 DEF CommitDrop, At, Aimed
    <3>3. entry' = [entry EXCEPT ![e] = "deleted"] /\ prefill' = prefill /\ ~Restricted(e)
      BY <2>2, <3>1 DEF CommitDrop
    <3> QED BY <1>1, <3>2, <3>3 DEF TypeOK, ReferencesExist, Refers, Restricted
  <2> QED BY <2>1, <2>2
<1>4. TypeOK' /\ Promises'
  BY <1>1, <1>2, <1>3, RequestEnd DEF TypeOK
<1>5. OneEach' BY <1>1, <1>2 DEF OneEach, AtMostOne
<1> QED BY <1>3, <1>4, <1>5

\* Steps that are a single statement, and stuttering.
LEMMA StatementKeeps ==
  ASSUME Consistent, UNCHANGED <<ticket, prefill, batch, request, asked>>,
         \/ UNCHANGED <<entry, answers>>
         \/ \E n \in Endorsements : PushAgain(n)
         \/ \E e \in Entries : AddEntry(e)
         \/ \E e \in Entries, to \in {"active", "disabled"} : SetActive(e, to)
  PROVE  Consistent'
<1> USE DEF Consistent, Promises
<1>1. /\ Fresh' = Fresh
      /\ \A c : /\ From(c)' = From(c) /\ NeverClosed(c)' = NeverClosed(c)
              /\ Undeleted(c)' = Undeleted(c) /\ Processed(c)' = Processed(c)
  BY DEF Fresh, From, NeverClosed, Duplicates, Undeleted, Processed
<1>2. /\ answers' \in [Endorsements -> SUBSET Tickets]
      /\ \A n \in Endorsements : answers'[n] \subseteq From(n)
      /\ entry' \in [Entries -> {"new", "active", "disabled", "deleted"}]
      /\ \A e \in Entries : entry[e] \in {"active", "disabled"} => entry'[e] \in {"active", "disabled"}
  <2>1. /\ answers \in [Endorsements -> SUBSET Tickets]
        /\ \A n \in Endorsements : answers[n] \subseteq From(n) /\ From(n) \subseteq Tickets
        /\ entry \in [Entries -> {"new", "active", "disabled", "deleted"}]
    BY DEF TypeOK, OneEach, From
  <2>2. CASE UNCHANGED <<entry, answers>> BY <2>1, <2>2
  <2>3. ASSUME NEW n \in Endorsements, PushAgain(n)
        PROVE  /\ answers' \in [Endorsements -> SUBSET Tickets]
               /\ \A m \in Endorsements : answers'[m] \subseteq From(m)
               /\ entry' = entry
    BY <2>1, <2>3 DEF PushAgain, Answer
  <2>4. ASSUME NEW e \in Entries, NEW to \in {"active", "disabled"}, AddEntry(e) \/ SetActive(e, to)
        PROVE  /\ entry' \in [Entries -> {"new", "active", "disabled", "deleted"}]
               /\ \A f \in Entries :
                    entry[f] \in {"active", "disabled"} => entry'[f] \in {"active", "disabled"}
               /\ answers' = answers
    BY <2>1, <2>4 DEF AddEntry, SetActive
  <2> QED BY <2>1, <2>2, <2>3, <2>4
<1>3. /\ \A q \in Requests : Revoking(q)' <=> Revoking(q)
      /\ \A q \in Requests : \A op, pc : At(q, op, pc)' <=> At(q, op, pc)
  BY DEF Revoking, At
<1>4. TypeOK' BY <1>1, <1>2, <1>3 DEF TypeOK
<1>5. Aimed' BY <1>1 DEF Aimed
<1>6. CheckedAlone' BY <1>1, <1>3 DEF CheckedAlone
<1>7. ClaimedAlone' BY <1>3 DEF ClaimedAlone
<1>8. CleanInHand' BY <1>1, <1>3 DEF CleanInHand
<1>9. OneEach' BY <1>1, <1>2 DEF OneEach, AtMostOne
<1>10. ReferencesExist'
  BY <1>2 DEF ReferencesExist, Refers, TypeOK, Ticket, Refs
<1> QED BY <1>4, <1>5, <1>6, <1>7, <1>8, <1>9, <1>10

-----------------------------------------------------------------------------
(* The theorems. *)

LEMMA AtMostOneCounts ==
  ASSUME NEW S, AtMostOne(S)
  PROVE  Cardinality(S) <= 1
<1>1. CASE S = {} BY <1>1, FS_EmptySet
<1>2. CASE S # {}
  <2>1. PICK x : x \in S BY <1>2
  <2>2. S = {x} BY <2>1 DEF AtMostOne
  <2>3. Cardinality({x}) = 1 BY FS_Singleton
  <2> QED BY <2>2, <2>3
<1> QED BY <1>1, <1>2

LEMMA InitConsistent == Init => Consistent
<1> SUFFICES ASSUME Init PROVE Consistent OBVIOUS
<1>1. \A t \in Tickets : ticket[t] = NoTicket /\ NoTicket.status = "none" /\ NoTicket.ref = None
  BY DEF Init, NoTicket
<1>2. \A q \in Requests : request[q] = Idle /\ Idle.op = "none" /\ Idle.held = {}
  BY DEF Init, Idle
<1>3. Fresh = Tickets /\ \A d : From(d) = {} /\ NeverClosed(d) = {}
  BY <1>1 DEF Fresh, From, NeverClosed, Duplicates
<1>4. NoTicket \in Ticket /\ Idle \in Request
  BY DEF NoTicket, Idle, Ticket, Status, Request, Doors, Refs
<1>5. TypeOK
  BY <1>1, <1>2, <1>3, <1>4, ConstantsAssumption DEF Init, TypeOK, Refs
<1>6. Promises
  BY <1>2 DEF Promises, Aimed, Work, CheckedAlone, ClaimedAlone, CleanInHand, Revoking, At
<1>7. OneEach BY <1>3 DEF Init, OneEach, AtMostOne
<1>8. ReferencesExist BY <1>1 DEF Init, ReferencesExist, Refers
<1> QED BY <1>5, <1>6, <1>7, <1>8 DEF Consistent

LEMMA NextConsistent == Consistent /\ [Next]_vars => Consistent'
<1> SUFFICES ASSUME Consistent, [Next]_vars PROVE Consistent' OBVIOUS
<1>1. CASE UNCHANGED vars BY <1>1, StatementKeeps DEF vars
<1>2. ASSUME NEW q \in Requests, BeginAny(q) PROVE Consistent' BY <1>2, BeginKeeps
<1>3. ASSUME NEW q \in Requests, GoOn(q) PROVE Consistent'
  BY <1>3, CommitPushKeeps, CheckDuplicatesKeeps, CommitInsertKeeps, CatalogKeeps,
     CommitWorkKeeps, RevokingKeeps, CommitRevokeKeeps, AbortKeeps DEF GoOn
<1>4. ASSUME \/ \E n \in Endorsements : PushAgain(n)
             \/ \E e \in Entries : AddEntry(e)
             \/ \E e \in Entries, to \in {"active", "disabled"} : SetActive(e, to)
      PROVE  Consistent'
  <2>1. UNCHANGED <<ticket, prefill, batch, request, asked>>
    BY <1>4 DEF PushAgain, AddEntry, SetActive
  <2> QED BY <1>4, <2>1, StatementKeeps
<1> QED BY <1>1, <1>2, <1>3, <1>4 DEF Next

\* The invariant on which the rest stands: types, what requests hold against
\* each other, and the three safety invariants.
THEOREM AlwaysConsistent == Spec => []Consistent
<1> QED BY InitConsistent, NextConsistent, PTL DEF Spec

\* Tickets, imports, catalog and requests keep their types.
THEOREM TypeCorrect == Spec => []TypeOK
<1>1. Consistent => TypeOK BY DEF Consistent
<1> QED BY <1>1, AlwaysConsistent, PTL

\* pushRefundWorkOrder is idempotent, for any number of pushes at once.
THEOREM PushIsIdempotent == Spec => []PushesAgree
<1>1. Consistent => PushesAgree BY AtMostOneCounts DEF Consistent, OneEach, PushesAgree
<1> QED BY <1>1, AlwaysConsistent, PTL

\* The lock on the account makes submit's look for duplicates good against
\* every other submission; only a ticket that is reopened gets past it.
THEOREM OneOpenSubmission == Spec => []NoDuplicateOpen
<1>1. Consistent => NoDuplicateOpen
  BY AtMostOneCounts DEF Consistent, OneEach, NoDuplicateOpen
<1> QED BY <1>1, AlwaysConsistent, PTL

\* A catalog entry in use stays, whatever races with its deletion.
THEOREM NoReferenceDangles == Spec => []ReferencesExist
<1>1. Consistent => ReferencesExist BY DEF Consistent
<1> QED BY <1>1, AlwaysConsistent, PTL

\* revokeImportBatch takes back clean batches only, and whole.
THEOREM RevocationIsClean == Spec => RevokedWasClean
<1> DEFINE Clean ==
      \A b \in Batches : batch[b] # "revoked" /\ batch'[b] = "revoked" =>
        /\ Processed(b) = {}
        /\ \A t \in From(b) : ticket'[t] = [ticket[t] EXCEPT !.deleted = TRUE]
<1>1. Consistent /\ [Next]_vars => [Clean]_vars
  <2> SUFFICES ASSUME Consistent, Next PROVE Clean OBVIOUS
  <2>1. ASSUME NEW q \in Requests, CommitRevoke(q) PROVE Clean BY <2>1, CommitRevokeKeeps
  <2>2. ASSUME NEW q \in Requests, CommitImport(q) PROVE Clean
    BY <2>2 DEF CommitImport, Consistent, Promises, Aimed, At, TypeOK
  <2>3. CASE batch' = batch BY <2>3
  <2>4. ASSUME NEW q \in Requests, BeginAny(q) PROVE batch' = batch
    BY <2>4 DEF BeginAny, BeginPush, BeginSubmit, BeginPin, BeginCreate, BeginImport, BeginWork,
                BeginRevoke, BeginDrop, Begin
  <2>5. ASSUME NEW q \in Requests, GoOn(q) PROVE Clean
    BY <2>1, <2>2, <2>3, <2>5
       DEF GoOn, CommitPush, CheckDuplicates, CommitSubmit, CommitPin, CommitCreate, CommitWork,
           ClaimBatch, LockTicket, CheckProcessed, CommitDrop, Abort
  <2> QED BY <2>3, <2>4, <2>5 DEF Next, PushAgain, AddEntry, SetActive
<1> QED BY <1>1, AlwaysConsistent, PTL DEF Spec, RevokedWasClean
=============================================================================
