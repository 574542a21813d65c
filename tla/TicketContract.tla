---------------------------- MODULE TicketContract ----------------------------
(***************************************************************************)
(* What the documentation of the ticket services promises of a ticket      *)
(* (the headers of ticket-assign, ticket-comment, ticket-resolve,          *)
(* ticket-edit and ticket-delete.service.ts, CONTEXT.md): it is opened,    *)
(* assigned once for the first time, worked on and completed, in that      *)
(* order and never back; completing a refund sends one callback with the   *)
(* compensation of that moment; a completed ticket keeps its dueAt, its    *)
(* compensation and its follow-ups; a deleted one never changes.           *)
(***************************************************************************)
EXTENDS Naturals, Sequences

CONSTANTS
  Tickets, RefundTickets,
  Nothing           \* a value not yet given

VARIABLE ticket
  \* [Tickets -> [status, assignedAt, due, compensation, contacts, callbacks, deletedAt]]

Fresh == [status |-> "absent", assignedAt |-> Nothing, due |-> Nothing,
          compensation |-> Nothing, contacts |-> 0, callbacks |-> <<>>, deletedAt |-> Nothing]

Init == ticket = [t \in Tickets |-> Fresh]

(* How one ticket may go from v to w. *)

Opened(v, w) ==
  /\ v.status = "absent"
  /\ w = [v EXCEPT !.status = "unassigned", !.due = w.due]

FirstAssigned(v, w) ==
  /\ v.status = "unassigned"
  /\ w = [v EXCEPT !.status = "assigned", !.assignedAt = w.assignedAt]

FollowedUp(v, w) ==
  /\ v.status \in {"assigned", "processing"}
  /\ w = [v EXCEPT !.status = "processing", !.contacts = @ + 1]

Completed(t, v, w) ==
  /\ v.status \in {"assigned", "processing"}
  /\ w = [v EXCEPT !.status = "completed",
                   !.callbacks = IF t \in RefundTickets THEN <<v.compensation>> ELSE <<>>]

Restamped(v, w) ==
  /\ v.status \notin {"absent", "completed"}
  /\ w = [v EXCEPT !.due = w.due]

Compensated(t, v, w) ==
  /\ t \in RefundTickets
  /\ v.status \notin {"absent", "completed"}
  /\ w = [v EXCEPT !.compensation = w.compensation]

Deleted(v, w) ==
  /\ v.status # "absent"
  /\ w = [v EXCEPT !.deletedAt = w.deletedAt]

Allowed(t, v, w) ==
  \/ w = v
  \/ /\ v.deletedAt = Nothing
     /\ \/ Opened(v, w)
        \/ FirstAssigned(v, w)
        \/ FollowedUp(v, w)
        \/ Completed(t, v, w)
        \/ Restamped(v, w)
        \/ Compensated(t, v, w)
        \/ Deleted(v, w)

\* A batch moves several tickets in one step.
Next == \A t \in Tickets : Allowed(t, ticket[t], ticket'[t])

Spec == Init /\ [][Next]_ticket
=============================================================================
